---------------------------- MODULE EducationProofs ----------------------------
(* The educational plans of a session: no revision is replaced twice or      *)
(* lost without a trace, a draft rests on facts in date, and an old draft is *)
(* known to be void.  The revisions an entry keeps, and those it remembers   *)
(* as dropped, are intervals that end at its current one.  The legs of a     *)
(* plan add up to its amount.  Last, the type invariant of the whole server. *)
EXTENDS ConnectionProofs, WellFoundedInduction

(* -------------------------- sequences and numbers ------------------------- *)

LEMMA SeqDomain ==
  ASSUME NEW s, IsSeq(s)
  PROVE  /\ Len(s) \in Nat /\ DOMAIN s = 1..Len(s) /\ s \in Seq(At(s))
<1>1. PICK n \in Nat : s = [i \in 1..n |-> s[i]]
  BY DEF IsSeq
<1>2. \A i \in 1..n : s[i] \in At(s)
  BY <1>1 DEF At
<1>3. s \in Seq(At(s)) /\ Len(s) = n /\ DOMAIN s = 1..n
  BY <1>1, <1>2
<1> QED BY <1>3

LEMMA SeqLength ==
  ASSUME NEW s, IsSeq(s), NEW n \in Nat, DOMAIN s = 1..n
  PROVE  Len(s) = n
<1>1. s = [i \in 1..n |-> s[i]]
  BY DEF IsSeq
<1>2. \A i \in 1..n : s[i] \in At(s)
  BY DEF At
<1>3. s \in Seq(At(s)) /\ Len(s) = n
  BY <1>1, <1>2
<1> QED BY <1>3

LEMMA SeqIsSeq == ASSUME NEW S, NEW s \in Seq(S) PROVE IsSeq(s)
<1>1. Len(s) \in Nat /\ s = [i \in 1..Len(s) |-> s[i]]
  OBVIOUS
<1> QED BY <1>1 DEF IsSeq

LEMMA EmptyIsSeq == IsSeq(<<>>) /\ At(<<>>) = {} /\ Len(<<>>) = 0
<1>1. <<>> \in Seq(Nat)
  OBVIOUS
<1>2. IsSeq(<<>>)
  BY <1>1, SeqIsSeq
<1>3. DOMAIN <<>> = {} /\ Len(<<>>) = 0
  OBVIOUS
<1>4. At(<<>>) = {}
  BY <1>3 DEF At
<1> QED BY <1>2, <1>3, <1>4

LEMMA AppendLen ==
  ASSUME NEW s, IsSeq(s), NEW e
  PROVE  Len(Append(s, e)) = Len(s) + 1 /\ At(Append(s, e)) = At(s) \cup {e}
<1>1. IsSeq(Append(s, e)) /\ Len(s) \in Nat /\ DOMAIN Append(s, e) = DOMAIN s \cup {Len(s) + 1}
      /\ DOMAIN s = 1..Len(s)
  BY AppendShape
<1>2. DOMAIN Append(s, e) = 1..Len(Append(s, e)) /\ Len(Append(s, e)) \in Nat
  BY <1>1, SeqDomain
<1>3. Len(Append(s, e)) = Len(s) + 1
  BY <1>1, <1>2
<1>4. At(Append(s, e)) = At(s) \cup {e}
  BY AppendShape DEF At
<1> QED BY <1>3, <1>4

(* The last n of a sequence.                                                  *)
LEMMA RecentShape ==
  ASSUME NEW s, IsSeq(s), NEW n \in Nat
  PROVE  LET r == Recent(s, n)
         IN /\ IsSeq(r) /\ Len(r) = IF Len(s) > n THEN n ELSE Len(s)
            /\ \A i \in DOMAIN r : /\ r[i] = s[Len(s) - Len(r) + i]
                                   /\ Len(s) - Len(r) + i \in DOMAIN s
            /\ Len(s) <= n => r = s
<1>1. Len(s) \in Nat /\ DOMAIN s = 1..Len(s) /\ s \in Seq(At(s))
  BY SeqDomain
<1>2. CASE Len(s) > n
  <2> DEFINE from == Len(s) - n + 1
             r == SubSeq(s, from, Len(s))
  <2>1. from \in Int /\ Len(s) \in Int /\ from >= 1 /\ Len(s) - from + 1 = n /\ from - 1 = Len(s) - n
    BY <1>1, <1>2
  <2>2. Recent(s, n) = r
    BY <1>2 DEF Recent
  <2> HIDE DEF from
  <2>3. \A i \in from..Len(s) : s[i] \in At(s)
    BY <1>1, <2>1 DEF At
  <2>4. /\ r \in Seq(At(s)) /\ Len(r) = IF from <= Len(s) THEN Len(s) - from + 1 ELSE 0
        /\ \A i \in 1..(Len(s) - from + 1) : r[i] = s[from + i - 1]
    BY <2>1, <2>3, SubSeqProperties
  <2> HIDE DEF r
  <2>5. Len(r) = n /\ DOMAIN r = 1..n /\ IsSeq(r)
    BY <1>1, <1>2, <2>1, <2>4, SeqIsSeq
  <2>6. \A i \in 1..n : from + i - 1 = Len(s) - n + i /\ Len(s) - n + i \in 1..Len(s)
    BY <1>1, <1>2, <2>1
  <2>7. \A i \in 1..n : r[i] = s[Len(s) - n + i]
    BY <2>1, <2>4, <2>6
  <2>8. \A i \in DOMAIN r : r[i] = s[Len(s) - Len(r) + i] /\ Len(s) - Len(r) + i \in DOMAIN s
    BY <1>1, <2>5, <2>6, <2>7
  <2>9. ~(Len(s) <= n)
    BY <1>1, <1>2
  <2> QED BY <1>2, <2>2, <2>5, <2>8, <2>9
<1>3. CASE ~(Len(s) > n)
  <2>1. Recent(s, n) = s
    BY <1>3 DEF Recent
  <2>2. \A i \in 1..Len(s) : Len(s) - Len(s) + i = i
    BY <1>1
  <2> QED BY <1>1, <1>3, <2>1, <2>2
<1> QED BY <1>2, <1>3

(* The largest n of the numbers from a to b.                                  *)
LEMMA LargestOfInterval ==
  ASSUME NEW a \in Int, NEW b \in Int, NEW n \in Nat
  PROVE  Largest(n, a..b) = {x \in a..b : x > b - n}
<1>1. ASSUME NEW x \in a..b
      PROVE  Cardinality({y \in a..b : y > x}) = b - x
  <2>1. {y \in a..b : y > x} = (x + 1)..b
    BY <1>1
  <2>2. x \in Int /\ x + 1 \in Int /\ x <= b
    BY <1>1
  <2>3. Cardinality((x + 1)..b) = IF x + 1 > b THEN 0 ELSE b - (x + 1) + 1
    BY <2>2, FS_Interval
  <2>4. (IF x + 1 > b THEN 0 ELSE b - (x + 1) + 1) = b - x
    BY <2>2
  <2> QED BY <2>1, <2>3, <2>4
<1>2. ASSUME NEW x \in a..b
      PROVE  Cardinality({y \in a..b : y > x}) < n <=> x > b - n
  <2>1. x \in Int
    OBVIOUS
  <2> QED BY <1>1, <2>1
<1> QED BY <1>2 DEF Largest

(* Of finitely many numbers one is the least.                                 *)
LessThan == {ss \in Nat \X Nat : ss[1] < ss[2]}

LEMMA LessThanWellFounded == IsWellFoundedOn(LessThan, Nat)
  BY NatLessThanWellFounded DEF OpToRel, LessThan

HasLeast(f, S) == \E x \in S : \A y \in S : f[x] <= f[y]

LEMMA FiniteHasLeast ==
  ASSUME NEW S, IsFiniteSet(S), S # {}, NEW f, \A x \in S : f[x] \in Int
  PROVE  HasLeast(f, S)
<1> DEFINE Bad(T) == T # {} /\ ~HasLeast(f, T)
           sizes == {n \in Nat : \E T \in SUBSET S : Bad(T) /\ Cardinality(T) = n}
<1> SUFFICES ASSUME ~HasLeast(f, S) PROVE FALSE
  OBVIOUS
<1>0. \A T \in SUBSET S : IsFiniteSet(T) /\ Cardinality(T) \in Nat
  BY FS_Subset, FS_CardinalityType
<1>1. Cardinality(S) \in sizes
  BY <1>0
<1>2. sizes \subseteq Nat /\ sizes # {}
  BY <1>1
<1>3. \A n \in sizes : \E T \in SUBSET S : Bad(T) /\ Cardinality(T) = n
  OBVIOUS
<1>4. \A T \in SUBSET S : Bad(T) => Cardinality(T) \in sizes
  BY <1>0
<1> HIDE DEF sizes
<1>5. PICK n \in sizes : \A m \in sizes : ~(<<m, n>> \in LessThan)
  BY <1>2, LessThanWellFounded, WFMin
<1>6. PICK T \in SUBSET S : Bad(T) /\ Cardinality(T) = n
  BY <1>3
<1>7. PICK x \in T : TRUE
  BY <1>6
<1> DEFINE U == T \ {x}
<1>8. U \in SUBSET S /\ T = U \cup {x} /\ Cardinality(U) = Cardinality(T) - 1
  BY <1>0, <1>6, <1>7, FS_RemoveElement
<1> HIDE DEF U
<1>9. <<Cardinality(U), n>> \in LessThan
  BY <1>0, <1>6, <1>8 DEF LessThan
<1>10. ~Bad(U)
  BY <1>4, <1>5, <1>8, <1>9
<1>11. f[x] \in Int /\ \A y \in U : f[y] \in Int
  BY <1>6, <1>7, <1>8
<1>12. CASE U = {}
  <2>1. \A y \in T : f[x] <= f[y]
    BY <1>8, <1>11, <1>12
  <2> QED BY <1>6, <1>7, <2>1 DEF HasLeast
<1>13. CASE HasLeast(f, U)
  <2>1. PICK m \in U : \A y \in U : f[m] <= f[y]
    BY <1>13 DEF HasLeast
  <2>2. f[m] \in Int /\ m \in T
    BY <1>8, <1>11, <2>1
  <2>3. \/ \A y \in T : f[x] <= f[y]
        \/ \A y \in T : f[m] <= f[y]
    BY <1>8, <1>11, <2>1, <2>2
  <2> QED BY <1>6, <1>7, <2>2, <2>3 DEF HasLeast
<1> QED BY <1>10, <1>12, <1>13

(* A snapshot expires before any of its facts is out of date.                 *)
DatesHold(snapshot) ==
  \A fact \in snapshot.facts :
    /\ fact.observed \in Int /\ snapshot.expires \in Int
    /\ snapshot.expires <= fact.observed + MarketAge

LEMMA SnapshotDates ==
  ASSUME NEW request, request.marketAge = MarketAge, request.educationAge = EducationAge,
         IsFiniteSet(DOMAIN request.facts), \A i \in DOMAIN request.facts : request.facts[i].observed \in Int,
         IsFiniteSet(DOMAIN request.products)
  PROVE  DatesHold(Snapshot(request))
<1> DEFINE market == {request.facts[i].observed + MarketAge : i \in Kept(request)}
           education == {Catalog[a] + EducationAge : a \in Sourced(request)}
           listed == {i \in DOMAIN request.products : request.products[i][1] \in DOMAIN Catalog}
           snapshot == Snapshot(request)
           Facts(i) == [product |-> request.facts[i].product, observed |-> request.facts[i].observed,
                        bid |-> request.facts[i].bid, available |-> Available(request, request.facts[i])]
<1>1. /\ MarketAge \in Int /\ EducationAge \in Int
      /\ \A asset \in DOMAIN Catalog : Catalog[asset] \in Int
  BY ServerAssumption, PlanningAssumption
<1>2. snapshot.expires = Earliest(market \cup education)
  BY DEF Snapshot, Expiry
<1>3. snapshot.facts = {Facts(i) : i \in Kept(request)}
  BY DEF Snapshot
<1>0. snapshot = Snapshot(request)
  OBVIOUS
<1> HIDE DEF snapshot
<1> SUFFICES ASSUME NEW k \in Kept(request)
             PROVE  /\ request.facts[k].observed \in Int /\ snapshot.expires \in Int
                    /\ snapshot.expires <= request.facts[k].observed + MarketAge
  BY <1>0, <1>3 DEF DatesHold
<1>4. Kept(request) \subseteq DOMAIN request.facts /\ IsFiniteSet(Kept(request)) /\ IsFiniteSet(listed)
  BY FS_Subset DEF Kept
<1>5. PICK m \in market : \A u \in market : m <= u
  <2> DEFINE f == [i \in Kept(request) |-> request.facts[i].observed + MarketAge]
  <2>1. \A i \in Kept(request) : f[i] \in Int
    BY <1>1, <1>4
  <2> HIDE DEF f
  <2>2. PICK i \in Kept(request) : \A l \in Kept(request) : f[i] <= f[l]
    BY <1>4, <2>1, FiniteHasLeast DEF HasLeast
  <2> QED BY <2>2 DEF f
<1>6. market \subseteq Int /\ education \subseteq Int
  BY <1>1, <1>4 DEF Sourced
<1>7. education = {} \/ \E e \in education : \A u \in education : e <= u
  <2> SUFFICES ASSUME education # {} PROVE \E e \in education : \A u \in education : e <= u
    OBVIOUS
  <2> DEFINE f == [i \in listed |-> Catalog[request.products[i][1]] + EducationAge]
  <2>1. education = {f[i] : i \in listed}
    <3>1. Sourced(request) = {request.products[i][1] : i \in listed}
      BY SMTT(30) DEF Sourced, Assets, At
    <3> HIDE DEF listed
    <3> QED BY <3>1
  <2>2. \A i \in listed : f[i] \in Int
    BY <1>1
  <2>3. listed # {}
    BY <2>1
  <2> HIDE DEF f, listed, education
  <2>4. PICK i \in listed : \A l \in listed : f[i] <= f[l]
    BY <1>4, <2>2, <2>3, FiniteHasLeast DEF HasLeast
  <2> QED BY <2>1, <2>4
<1> DEFINE times == market \cup education
<1>8. \E t \in times : \A u \in times : t <= u
  <2> HIDE DEF market, education
  <2>1. CASE education = {}
    BY <1>5, <2>1
  <2>2. CASE \E e \in education : \A u \in education : e <= u
    <3>1. PICK e \in education : \A u \in education : e <= u
      BY <2>2
    <3>2. m \in Int /\ e \in Int
      BY <1>6
    <3>3. CASE m <= e
      BY <1>5, <1>6, <3>1, <3>2, <3>3
    <3>4. CASE e <= m
      BY <1>5, <1>6, <3>1, <3>2, <3>4
    <3> QED BY <3>2, <3>3, <3>4
  <2> QED BY <1>7, <2>1, <2>2
<1>9. request.facts[k].observed + MarketAge \in times /\ times \subseteq Int
  BY <1>6
<1> HIDE DEF times
<1>10. Earliest(times) \in times /\ \A u \in times : Earliest(times) <= u
  BY <1>8 DEF Earliest
<1>11. snapshot.expires = Earliest(times)
  BY <1>2 DEF times
<1> QED BY <1>4, <1>9, <1>10, <1>11

(* --------------------------------- sums ---------------------------------- *)

(* A set that has 0 and, of the numbers up to N, with each the next.          *)
LEMMA Climbs ==
  ASSUME NEW N \in Nat, NEW S, 0 \in S, \A n \in 0..N : n \in S /\ n < N => n + 1 \in S
  PROVE  \A n \in 0..N : n \in S
<1> DEFINE out == {n \in 0..N : n \notin S}
<1> SUFFICES ASSUME out # {} PROVE FALSE
  OBVIOUS
<1>1. out \subseteq Nat
  OBVIOUS
<1>2. PICK n \in out : \A m \in out : ~(<<m, n>> \in LessThan)
  <2> HIDE DEF out
  <2> QED BY <1>1, LessThanWellFounded, WFMin
<1>3. n \in 0..N /\ n # 0 /\ n \notin S
  OBVIOUS
<1>4. n - 1 \in 0..N /\ n - 1 < N /\ n - 1 + 1 = n /\ <<n - 1, n>> \in LessThan
  BY <1>3 DEF LessThan
<1>5. n - 1 \in S
  BY <1>2, <1>4
<1> QED BY <1>3, <1>4, <1>5

(* The recursion of SumOf, up to m.                                           *)
Totals(s, m, f) == f = [n \in 0..m |-> IF n = 0 THEN 0 ELSE f[n - 1] + s[n]]

LEMMA TotalsStep ==
  ASSUME NEW s, NEW m \in Nat, NEW f, Totals(s, m, f)
  PROVE  f[0] = 0 /\ \A n \in 0..m : n < m => f[n + 1] = f[n] + s[n + 1]
<1>1. \A n \in 0..m : f[n] = IF n = 0 THEN 0 ELSE f[n - 1] + s[n]
  BY DEF Totals
<1>2. ASSUME NEW n \in 0..m, n < m PROVE f[n + 1] = f[n] + s[n + 1]
  <2>1. n + 1 \in 0..m /\ n + 1 # 0 /\ n + 1 - 1 = n
    BY <1>2
  <2> QED BY <1>1, <2>1
<1> QED BY <1>1, <1>2

LEMMA TotalsExist ==
  ASSUME NEW s, NEW m \in Nat
  PROVE  \E f : Totals(s, m, f)
<1> DEFINE S == {n \in 0..m : \E f : Totals(s, n, f)}
<1>1. 0 \in S
  <2> DEFINE f == [n \in 0..0 |-> 0]
  <2>1. f = [n \in 0..0 |-> IF n = 0 THEN 0 ELSE f[n - 1] + s[n]]
    OBVIOUS
  <2>2. Totals(s, 0, f) /\ 0 \in 0..m
    BY <2>1 DEF Totals
  <2> HIDE DEF f
  <2> QED BY <2>2
<1>2. ASSUME NEW n \in 0..m, n \in S, n < m
      PROVE  n + 1 \in S
  <2>1. PICK f : Totals(s, n, f)
    BY <1>2
  <2> DEFINE g == [k \in 0..(n + 1) |-> IF k = n + 1 THEN f[n] + s[n + 1] ELSE f[k]]
  <2>2. n \in Nat /\ n + 1 \in 0..m
    BY <1>2
  <2>3. ASSUME NEW k \in 0..(n + 1)
        PROVE  g[k] = IF k = 0 THEN 0 ELSE g[k - 1] + s[k]
    <3>1. CASE k = n + 1
      <4>1. k # 0 /\ k - 1 = n /\ n \in 0..(n + 1) /\ n # n + 1
        BY <2>2, <3>1
      <4>2. g[k - 1] = f[n] /\ g[k] = f[n] + s[n + 1]
        BY <3>1, <4>1
      <4> QED BY <3>1, <4>1, <4>2
    <3>2. CASE k # n + 1
      <4>1. k \in 0..n
        BY <2>2, <3>2
      <4>2. f[k] = IF k = 0 THEN 0 ELSE f[k - 1] + s[k]
        BY <2>1, <4>1 DEF Totals
      <4>3. g[k] = f[k]
        BY <3>2
      <4>4. k # 0 => g[k - 1] = f[k - 1]
        BY <2>2, <4>1
      <4> QED BY <4>2, <4>3, <4>4
    <3> QED BY <3>1, <3>2
  <2>4. Totals(s, n + 1, g)
    <3>1. g = [k \in 0..(n + 1) |-> g[k]]
      OBVIOUS
    <3> HIDE DEF g
    <3> QED BY <2>3, <3>1 DEF Totals
  <2> QED BY <2>2, <2>4
<1> HIDE DEF S
<1>3. m \in S
  BY <1>1, <1>2, Climbs
<1> QED BY <1>3 DEF S

LEMMA SumIsTotal ==
  ASSUME NEW s, Len(s) \in Nat
  PROVE  \E f : Totals(s, Len(s), f) /\ SumOf(s) = f[Len(s)]
<1> DEFINE g == CHOOSE f : f = [n \in 0..Len(s) |-> IF n = 0 THEN 0 ELSE f[n - 1] + s[n]]
<1>1. Totals(s, Len(s), g)
  BY TotalsExist DEF Totals
<1>2. SumOf(s) = g[Len(s)]
  BY DEF SumOf
<1> QED BY <1>1, <1>2

(* The parts of an amount, each cut off, and its shares of the whole.         *)
LEMMA CutOff ==
  ASSUME NEW a \in Int, NEW b \in Nat \ {0}
  PROVE  a \div b \in Int /\ (a \div b) * b <= a /\ a < (a \div b) * b + b
  BY SMT

LEMMA PartsSumUp ==
  ASSUME NEW N \in Nat, NEW amount \in Int, NEW part, NEW share, IsSeq(part), IsSeq(share),
         DOMAIN part = 1..N, DOMAIN share = 1..N,
         \A i \in 1..N : share[i] \in Int /\ part[i] = (amount * share[i]) \div Whole,
         SumOf(share) = Whole
  PROVE  /\ SumOf(part) \in Int /\ SumOf(part) <= amount /\ SumOf(part) > amount - N
<1>1. Len(part) = N /\ Len(share) = N
  BY SeqLength
<1>2. PICK f : Totals(part, N, f) /\ SumOf(part) = f[N]
  BY <1>1, SumIsTotal
<1>3. PICK g : Totals(share, N, g) /\ SumOf(share) = g[N]
  BY <1>1, SumIsTotal
<1>4. PICK W \in Nat \ {0} : W = Whole
  BY PlanningAssumption
<1> DEFINE near(n) == /\ f[n] \in Int /\ g[n] \in Int /\ f[n] * W <= amount * g[n]
                      /\ f[n] * W >= amount * g[n] - n * (W - 1)
           S == {n \in 0..N : near(n)}
<1>5. f[0] = 0 /\ g[0] = 0
  BY <1>2, <1>3, TotalsStep
<1>6. 0 \in S
  BY <1>5
<1>7. ASSUME NEW n \in 0..N, n \in S, n < N
      PROVE  n + 1 \in S
  <2>1. n + 1 \in 1..N /\ n + 1 \in 0..N
    BY <1>7
  <2>2. f[n + 1] = f[n] + part[n + 1] /\ g[n + 1] = g[n] + share[n + 1]
    <3> HIDE DEF near
    <3>1. \A k \in 0..N : k < N => f[k + 1] = f[k] + part[k + 1]
      BY <1>2, TotalsStep
    <3>2. \A k \in 0..N : k < N => g[k + 1] = g[k] + share[k + 1]
      BY <1>3, TotalsStep
    <3> QED BY <1>7, <3>1, <3>2
  <2>3. PICK w \in Int : w = share[n + 1]
    BY <2>1
  <2>4. PICK p : p = part[n + 1]
    OBVIOUS
  <2>5. p \in Int /\ p * W <= amount * w /\ p * W >= amount * w - (W - 1)
    <3>1. p = (amount * w) \div W
      BY <1>4, <2>1, <2>3, <2>4
    <3>2. PICK e \in Int : e = amount * w
      OBVIOUS
    <3>3. p \in Int /\ p * W <= e /\ e < p * W + W
      BY <3>1, <3>2, CutOff
    <3>4. PICK q \in Int : q = p * W
      BY <3>3
    <3> QED BY <3>2, <3>3, <3>4
  <2>6. PICK fn \in Int, gn \in Int : fn = f[n] /\ gn = g[n]
    BY <1>7
  <2>7. fn * W <= amount * gn /\ fn * W >= amount * gn - n * (W - 1)
    BY <1>7, <2>6
  <2>8. (fn + p) * W = fn * W + p * W /\ amount * (gn + w) = amount * gn + amount * w
        /\ (n + 1) * (W - 1) = n * (W - 1) + (W - 1)
    BY <2>5
  <2>9. /\ (fn + p) * W <= amount * (gn + w)
        /\ (fn + p) * W >= amount * (gn + w) - (n + 1) * (W - 1)
    <3>1. PICK x1 \in Int, x2 \in Int, x3 \in Int, x4 \in Int, x5 \in Int :
             x1 = fn * W /\ x2 = p * W /\ x3 = amount * gn /\ x4 = amount * w /\ x5 = n * (W - 1)
      BY <2>5
    <3>2. /\ x1 <= x3 /\ x1 >= x3 - x5 /\ x2 <= x4 /\ x2 >= x4 - (W - 1)
      BY <2>5, <2>7, <3>1
    <3>3. x1 + x2 <= x3 + x4 /\ x1 + x2 >= x3 + x4 - (x5 + (W - 1))
      BY <3>2
    <3> QED BY <2>8, <3>1, <3>3
  <2>10. near(n + 1)
    <3>1. PICK x \in Int, y \in Int : x = fn + p /\ y = gn + w
      BY <2>5
    <3>2. x = f[n + 1] /\ y = g[n + 1]
      BY <2>2, <2>3, <2>4, <2>6, <3>1
    <3>3. x * W <= amount * y /\ x * W >= amount * y - (n + 1) * (W - 1)
      BY Zenon, <2>9, <3>1
    <3> QED BY Zenon, <3>2, <3>3
  <2> HIDE DEF near
  <2> QED BY <2>1, <2>10
<1>8. near(N)
  <2> HIDE DEF near
  <2>1. N \in S
    <3>1. N \in 0..N
      OBVIOUS
    <3> HIDE DEF S
    <3> QED BY <1>6, <1>7, <3>1, Climbs
  <2> QED BY <2>1
<1>9. PICK t \in Int : t = f[N]
  BY <1>8
<1>10. t * W <= amount * W /\ t * W >= amount * W - N * (W - 1)
  BY <1>3, <1>4, <1>8, <1>9
<1>11. t <= amount
  <2> SUFFICES ASSUME t >= amount + 1 PROVE FALSE
    OBVIOUS
  <2>1. t * W >= (amount + 1) * W
    BY SMT
  <2>2. (amount + 1) * W = amount * W + W
    BY SMT
  <2> QED BY <1>10, <2>1, <2>2
<1>12. N # 0
  BY <1>3, <1>4, <1>5
<1>13. t > amount - N
  <2> SUFFICES ASSUME t <= amount - N PROVE FALSE
    OBVIOUS
  <2>1. t * W <= (amount - N) * W
    BY SMT
  <2>2. (amount - N) * W = amount * W - N * W /\ N * (W - 1) = N * W - N
    BY SMT
  <2> QED BY <1>10, <1>12, <2>1, <2>2
<1> QED BY <1>2, <1>9, <1>11, <1>13

(* What normalizeAllocations takes over are rows with a weight.               *)
Collected(rows, m, f) == f = [n \in 0..m |-> IF n = 0 THEN <<>> ELSE WithRow(f[n - 1], rows[n])]

LEMMA CollectedExist ==
  ASSUME NEW rows, NEW m \in Nat
  PROVE  \E f : Collected(rows, m, f)
<1> DEFINE S == {n \in 0..m : \E f : Collected(rows, n, f)}
<1>1. 0 \in S
  <2> DEFINE f == [n \in 0..0 |-> <<>>]
  <2>1. f = [n \in 0..0 |-> IF n = 0 THEN <<>> ELSE WithRow(f[n - 1], rows[n])]
    OBVIOUS
  <2>2. Collected(rows, 0, f) /\ 0 \in 0..m
    BY <2>1 DEF Collected
  <2> HIDE DEF f
  <2> QED BY <2>2
<1>2. ASSUME NEW n \in 0..m, n \in S, n < m
      PROVE  n + 1 \in S
  <2>1. PICK f : Collected(rows, n, f)
    BY <1>2
  <2> DEFINE g == [k \in 0..(n + 1) |-> IF k = n + 1 THEN WithRow(f[n], rows[n + 1]) ELSE f[k]]
  <2>2. n \in Nat /\ n + 1 \in 0..m
    BY <1>2
  <2>3. ASSUME NEW k \in 0..(n + 1)
        PROVE  g[k] = IF k = 0 THEN <<>> ELSE WithRow(g[k - 1], rows[k])
    <3>1. CASE k = n + 1
      <4>1. k # 0 /\ k - 1 = n /\ n \in 0..(n + 1) /\ n # n + 1
        BY <2>2, <3>1
      <4>2. g[k - 1] = f[n] /\ g[k] = WithRow(f[n], rows[n + 1])
        BY <3>1, <4>1
      <4> QED BY <3>1, <4>1, <4>2
    <3>2. CASE k # n + 1
      <4>1. k \in 0..n
        BY <2>2, <3>2
      <4>2. f[k] = IF k = 0 THEN <<>> ELSE WithRow(f[k - 1], rows[k])
        BY <2>1, <4>1 DEF Collected
      <4>3. g[k] = f[k]
        BY <3>2
      <4>4. k # 0 => g[k - 1] = f[k - 1]
        BY <2>2, <4>1
      <4> QED BY <4>2, <4>3, <4>4
    <3> QED BY <3>1, <3>2
  <2>4. Collected(rows, n + 1, g)
    <3>1. g = [k \in 0..(n + 1) |-> g[k]]
      OBVIOUS
    <3> HIDE DEF g
    <3> QED BY <2>3, <3>1 DEF Collected
  <2> QED BY <2>2, <2>4
<1>3. m \in 0..m
  OBVIOUS
<1> HIDE DEF S
<1>4. m \in S
  BY <1>1, <1>2, <1>3, Climbs
<1> QED BY <1>4 DEF S

RowsHold(rows) == IsSeq(rows) /\ \A i \in DOMAIN rows : RowValid(rows[i])

LEMMA WithRowHolds ==
  ASSUME NEW taken, RowsHold(taken), NEW row
  PROVE  RowsHold(WithRow(taken, row))
<1>1. CASE ~RowValid(row)
  BY <1>1 DEF WithRow
<1>2. CASE RowValid(row)
  <2> DEFINE more == Append(taken, row)
  <2>1. /\ IsSeq(more) /\ DOMAIN more = DOMAIN taken \cup {Len(taken) + 1}
        /\ more[Len(taken) + 1] = row /\ \A i \in DOMAIN taken : more[i] = taken[i]
    BY AppendShape DEF RowsHold
  <2> HIDE DEF more
  <2>2. RowsHold(more)
    BY <1>2, <2>1 DEF RowsHold
  <2> QED BY <2>2 DEF more, WithRow
<1> QED BY <1>1, <1>2

LEMMA TakenHolds ==
  ASSUME NEW rows, Len(rows) \in Nat
  PROVE  RowsHold(Taken(rows))
<1>1. RowsHold(<<>>)
  <2>1. DOMAIN <<>> = {}
    OBVIOUS
  <2> QED BY <2>1, EmptyIsSeq DEF RowsHold
<1> DEFINE g == CHOOSE f : f = [n \in 0..Len(rows) |->
                                  IF n = 0 THEN <<>> ELSE WithRow(f[n - 1], rows[n])]
<1>2. g = [n \in 0..Len(rows) |-> IF n = 0 THEN <<>> ELSE WithRow(g[n - 1], rows[n])]
  BY CollectedExist DEF Collected
<1>3. Taken(rows) = <<>> \/ Taken(rows) = g[Len(rows)]
  BY DEF Taken
<1> HIDE DEF g
<1> DEFINE S == {n \in 0..Len(rows) : RowsHold(g[n])}
<1>4. 0 \in S
  <2>1. g[0] = <<>> /\ 0 \in 0..Len(rows)
    BY <1>2
  <2> QED BY <1>1, <2>1
<1>5. ASSUME NEW n \in 0..Len(rows), n \in S, n < Len(rows)
      PROVE  n + 1 \in S
  <2>1. n + 1 \in 0..Len(rows) /\ n + 1 # 0 /\ n + 1 - 1 = n
    BY <1>5
  <2>2. g[n + 1] = WithRow(g[n], rows[n + 1])
    BY <1>2, <2>1
  <2>3. RowsHold(g[n])
    BY <1>5
  <2>4. RowsHold(g[n + 1])
    BY <2>2, <2>3, WithRowHolds
  <2> QED BY <2>1, <2>4
<1>6. Len(rows) \in 0..Len(rows)
  OBVIOUS
<1>7. RowsHold(g[Len(rows)])
  <2>1. Len(rows) \in S
    <3> HIDE DEF S
    <3> QED BY <1>4, <1>5, <1>6, Climbs
  <2> QED BY <2>1
<1> QED BY <1>1, <1>3, <1>7

(* Of a plan, the legs ask for no more than its amount, and leave out less    *)
(* than one unit each.                                                        *)
LegsHold(plan) ==
  LET total == SumOf([i \in DOMAIN plan.legs |-> plan.legs[i].amount])
  IN /\ plan.legs # <<>> => total <= plan.amount
     /\ plan.status = "PLAN_VALID_FOR_EDITING" => total > plan.amount - Len(plan.legs)

InputHolds(input) == input.amount \in Int /\ input.rows \in Seq(At(input.rows))

LEMMA LegsSum ==
  ASSUME NEW input, InputHolds(input), input.amount > 0, AllocationIssues(input.rows) = {}
  PROVE  LET total == SumOf([i \in DOMAIN Legs(input) |-> Legs(input)[i].amount])
         IN total <= input.amount /\ total > input.amount - Len(Legs(input))
<1> DEFINE rows == Taken(input.rows)
           legs == Legs(input)
           share == Weights(rows)
           part == [i \in DOMAIN legs |-> legs[i].amount]
<1>1. input.amount \in Int /\ Len(input.rows) \in Nat
  BY DEF InputHolds
<1>2. RowsHold(rows)
  BY <1>1, TakenHolds
<1>3. SumOf(share) = Whole
  BY DEF AllocationIssues, If
<1>4. legs = [i \in DOMAIN rows |->
                [asset |-> rows[i].asset, product |-> rows[i].product,
                 amount |-> (input.amount * rows[i].weight) \div Whole]]
  BY <1>1 DEF Legs
<1> HIDE DEF rows, legs
<1>5. PICK N \in Nat : DOMAIN rows = 1..N
  BY <1>2, SeqDomain DEF RowsHold
<1>6. /\ DOMAIN legs = 1..N /\ DOMAIN part = 1..N /\ DOMAIN share = 1..N
      /\ \A i \in 1..N : part[i] = (input.amount * rows[i].weight) \div Whole
      /\ \A i \in 1..N : share[i] = rows[i].weight
  BY <1>4, <1>5 DEF Weights
<1>7. \A i \in 1..N : rows[i].weight \in Int
  <2>1. 1..Whole \subseteq Int
    BY PlanningAssumption
  <2> QED BY <1>2, <1>5, <2>1 DEF RowsHold, RowValid
<1>8. IsSeq(legs)
  <2>1. legs = [i \in 1..N |-> legs[i]]
    BY <1>4, <1>6
  <2> QED BY <2>1 DEF IsSeq
<1>9. IsSeq(part)
  <2>1. part = [i \in 1..N |-> part[i]]
    BY <1>6
  <2> HIDE DEF part
  <2> QED BY <2>1 DEF IsSeq
<1>10. IsSeq(share)
  <2>1. share = [i \in 1..N |-> share[i]]
    BY <1>6 DEF Weights
  <2> HIDE DEF share
  <2> QED BY <2>1 DEF IsSeq
<1>11. Len(legs) = N
  BY <1>6, <1>8, SeqLength
<1> HIDE DEF part, share
<1>12. \A i \in 1..N : share[i] \in Int /\ part[i] = (input.amount * share[i]) \div Whole
  BY <1>6, <1>7
<1>13. SumOf(part) <= input.amount /\ SumOf(part) > input.amount - N
  BY <1>1, <1>3, <1>6, <1>9, <1>10, <1>12, PartsSumUp
<1> QED BY <1>11, <1>13 DEF part, legs

LEMMA PlanSums ==
  ASSUME NEW input, InputHolds(input), NEW plan, plan.legs = Legs(input), plan.amount = input.amount,
         plan.status = "PLAN_VALID_FOR_EDITING" => InputIssues(input) = {}
  PROVE  LegsHold(plan)
<1>1. CASE input.amount > 0 /\ AllocationIssues(input.rows) = {}
  BY <1>1, LegsSum DEF LegsHold
<1>2. CASE input.amount <= 0 \/ AllocationIssues(input.rows) # {}
  <2>1. plan.legs = <<>>
    BY <1>2 DEF Legs
  <2>2. InputIssues(input) # {}
    BY <1>2 DEF InputIssues, If
  <2> QED BY <2>1, <2>2 DEF LegsHold
<1> QED BY <1>1, <1>2 DEF InputHolds

(* The legs of a plan are summed whatever else it says.                       *)
LEMMA SameLegs ==
  ASSUME NEW plan, NEW next, LegsHold(plan), next.legs = plan.legs, next.amount = plan.amount,
         next.status = plan.status
  PROVE  LegsHold(next)
  BY DEF LegsHold

(* The inputs a request may come with are counted.                            *)
LEMMA InputIsFinite ==
  ASSUME NEW input, InputHolds(input)
  PROVE  IsFiniteSet(DOMAIN input.rows)
<1>1. DOMAIN input.rows = 1..Len(input.rows) /\ Len(input.rows) \in Nat
  BY DEF InputHolds
<1> QED BY <1>1, FS_Interval

(* ------------------------------- an entry -------------------------------- *)

RecordFields == {"state", "plan", "draft"}
PlanFields == {"revision", "created", "edited", "status", "issues", "snapshot", "amount", "legs",
               "concentration", "outlook", "handoff", "invalidated"}
EntryFields == {"id", "current", "revisions", "tombs"}

(* The legs of a revision add up to its amount, and its draft is the one it   *)
(* handed over, made while its facts were in date.                            *)
RecordHolds(record, r) ==
  /\ DOMAIN record = RecordFields /\ DOMAIN record.plan = PlanFields
  /\ record.plan.revision = r
  /\ IsSeq(record.plan.invalidated)
  /\ DatesHold(record.plan.snapshot) /\ LegsHold(record.plan)
  /\ \A d \in At(record.draft) :
       /\ d.id = record.plan.handoff /\ d.id # 0
       /\ \A fact \in record.plan.snapshot.facts : d.made - fact.observed < MarketAge

KeptOf(current) == {r \in 1..current : r > current - MaxEducationalRevisions}
DroppedOf(current) ==
  {r \in 1..current : /\ r <= current - MaxEducationalRevisions
                      /\ r > current - MaxEducationalRevisions - MaxEducationalTombstones}

(* The drafts of earlier revisions are void, as far back as is remembered.   *)
OldVoid(entry) ==
  LET void == entry.revisions[entry.current].plan.invalidated
  IN  Len(void) < MaxInvalidated =>
        \A r \in KeptOf(entry.current) : r < entry.current =>
          \A d \in At(entry.revisions[r].draft) : d.id \in At(void)

EntryHolds(entry) ==
  /\ DOMAIN entry = EntryFields
  /\ entry.current \in Nat \ {0}
  /\ DOMAIN entry.revisions = KeptOf(entry.current)
  /\ entry.tombs = DroppedOf(entry.current)
  /\ \A r \in KeptOf(entry.current) : RecordHolds(entry.revisions[r], r)
  /\ OldVoid(entry)

LEMMA EducationBounds ==
  /\ MaxEducational \in Nat \ {0} /\ MaxEducationalRevisions \in Nat \ {0}
  /\ MaxEducationalTombstones \in Nat \ {0} /\ MaxInvalidated \in Nat \ {0}
  BY EducationalAssumption, PlanningAssumption

LEMMA CurrentIsKept == ASSUME NEW c \in Nat \ {0} PROVE c \in KeptOf(c)
  BY EducationBounds DEF KeptOf

LEMMA PlanMade ==
  ASSUME NEW input, InputHolds(input), NEW snapshot, NEW revision, NEW created, NEW edited
  PROVE  LET plan == Plan(input, snapshot, revision, created, edited)
         IN /\ DOMAIN plan = PlanFields /\ plan.revision = revision /\ plan.snapshot = snapshot
            /\ plan.handoff = 0 /\ plan.invalidated = <<>> /\ LegsHold(plan)
<1> DEFINE plan == Plan(input, snapshot, revision, created, edited)
<1>1. /\ DOMAIN plan = PlanFields /\ plan.revision = revision /\ plan.snapshot = snapshot
      /\ plan.handoff = 0 /\ plan.invalidated = <<>>
  BY DEF Plan, PlanFields
<1>2. /\ plan.legs = Legs(input) /\ plan.amount = input.amount
      /\ plan.status = "PLAN_VALID_FOR_EDITING" => InputIssues(input) = {}
  BY DEF Plan
<1> HIDE DEF plan
<1>3. LegsHold(plan)
  BY <1>2, PlanSums
<1> QED BY <1>1, <1>3 DEF plan

(* What an edited plan remembers: while there is room, everything, and the    *)
(* draft of the revision before.                                              *)
LEMMA EditedRemembers ==
  ASSUME NEW plan, IsSeq(plan.invalidated), NEW input, InputHolds(input), NEW snapshot,
         NEW edited
  PROVE  LET next == Edited(plan, input, snapshot, edited)
         IN /\ DOMAIN next = PlanFields /\ next.revision = plan.revision + 1
            /\ next.snapshot = snapshot /\ next.handoff = 0 /\ IsSeq(next.invalidated)
            /\ LegsHold(next)
            /\ Len(next.invalidated) < MaxInvalidated =>
                 /\ Len(plan.invalidated) < MaxInvalidated
                 /\ At(plan.invalidated) \subseteq At(next.invalidated)
                 /\ plan.handoff # 0 => plan.handoff \in At(next.invalidated)
<1> DEFINE old == plan.invalidated
           recent == Recent(old, MaxInvalidated)
           void == IF plan.handoff = 0 THEN recent
                   ELSE Recent(Append(recent, plan.handoff), MaxInvalidated)
           base == Plan(input, snapshot, plan.revision + 1, plan.created, edited)
           next == Edited(plan, input, snapshot, edited)
<1>1. next = [base EXCEPT !.invalidated = void]
  BY DEF Edited
<1>2. /\ DOMAIN base = PlanFields /\ base.revision = plan.revision + 1
      /\ base.snapshot = snapshot /\ base.handoff = 0 /\ LegsHold(base)
  BY PlanMade
<1> HIDE DEF base, void, next
<1>3. /\ DOMAIN next = PlanFields /\ next.revision = plan.revision + 1
      /\ next.snapshot = snapshot /\ next.handoff = 0 /\ next.invalidated = void
      /\ next.legs = base.legs /\ next.amount = base.amount /\ next.status = base.status
  BY <1>1, <1>2 DEF PlanFields
<1>8. LegsHold(next)
  BY <1>2, <1>3, SameLegs
<1>4. MaxInvalidated \in Nat /\ Len(old) \in Nat
  BY EducationBounds, SeqDomain
<1>5. /\ IsSeq(recent) /\ Len(recent) = IF Len(old) > MaxInvalidated THEN MaxInvalidated ELSE Len(old)
      /\ Len(old) <= MaxInvalidated => recent = old
  BY <1>4, RecentShape
<1>6. CASE plan.handoff = 0
  <2>1. void = recent
    BY <1>6 DEF void
  <2>2. Len(void) < MaxInvalidated => Len(old) < MaxInvalidated /\ recent = old
    BY <1>4, <1>5, <2>1
  <2> QED BY <1>3, <1>5, <1>6, <1>8, <2>1, <2>2 DEF next
<1>7. CASE plan.handoff # 0
  <2> DEFINE all == Append(recent, plan.handoff)
  <2> HIDE DEF recent
  <2>1. IsSeq(all) /\ Len(all) = Len(recent) + 1 /\ At(all) = At(recent) \cup {plan.handoff}
    BY <1>5, AppendShape, AppendLen
  <2>2. void = Recent(all, MaxInvalidated)
    BY <1>7 DEF void
  <2> HIDE DEF all
  <2>3. /\ IsSeq(void) /\ Len(void) = IF Len(all) > MaxInvalidated THEN MaxInvalidated ELSE Len(all)
        /\ Len(all) <= MaxInvalidated => void = all
    BY <1>4, <2>1, <2>2, RecentShape
  <2>4. Len(void) < MaxInvalidated => void = all /\ Len(old) < MaxInvalidated /\ recent = old
    BY <1>4, <1>5, <2>1, <2>3
  <2> QED BY <1>3, <1>8, <2>1, <2>3, <2>4 DEF next
<1> QED BY <1>6, <1>7

(* An entry begins with one revision ...                                      *)
LEMMA NewEntryHolds ==
  ASSUME NEW plan, DOMAIN plan = PlanFields, plan.revision = 1, plan.invalidated = <<>>,
         DatesHold(plan.snapshot), LegsHold(plan), NEW id
  PROVE  LET entry == [id |-> id, current |-> 1, revisions |-> [r \in {1} |-> Record(plan)],
                       tombs |-> {}]
         IN EntryHolds(entry) /\ entry.id = id
<1> DEFINE entry == [id |-> id, current |-> 1, revisions |-> [r \in {1} |-> Record(plan)],
                     tombs |-> {}]
<1>1. /\ DOMAIN entry = EntryFields /\ entry.current = 1 /\ entry.id = id /\ entry.tombs = {}
      /\ DOMAIN entry.revisions = {1} /\ entry.revisions[1] = Record(plan)
  BY DEF EntryFields
<1> HIDE DEF entry
<1>2. KeptOf(1) = {1} /\ DroppedOf(1) = {}
  BY EducationBounds DEF KeptOf, DroppedOf
<1>3. RecordHolds(Record(plan), 1)
  BY EmptyIsSeq DEF RecordHolds, Record, RecordFields
<1>4. OldVoid(entry)
  BY <1>1, <1>2 DEF OldVoid
<1>5. EntryHolds(entry)
  BY <1>1, <1>2, <1>3, <1>4 DEF EntryHolds
<1> QED BY <1>1, <1>5 DEF entry

(* ... and with the next one drops the oldest: the numbers of those it has end *)
(* at the current one.                                                         *)
LEMMA KeptAndDropped ==
  ASSUME NEW d \in Int, NEW x \in Int
  PROVE  /\ x \in KeptOf(d) <=> x >= 1 /\ x <= d /\ x > d - MaxEducationalRevisions
         /\ x \in DroppedOf(d) <=> /\ x >= 1 /\ x <= d /\ x <= d - MaxEducationalRevisions
                                   /\ x > d - MaxEducationalRevisions - MaxEducationalTombstones
  BY EducationBounds DEF KeptOf, DroppedOf

LEMMA CompactedDomains ==
  ASSUME NEW c \in Nat \ {0}, NEW d, d = c + 1
  PROVE  LET all == KeptOf(c) \cup {d}
             kept == Largest(MaxEducationalRevisions, all)
         IN /\ kept = KeptOf(d) /\ kept \subseteq all
            /\ Largest(MaxEducationalTombstones, DroppedOf(c) \cup (all \ kept)) = DroppedOf(d)
<1> DEFINE all == KeptOf(c) \cup {d}
           kept == Largest(MaxEducationalRevisions, all)
           known == DroppedOf(c) \cup (all \ kept)
<1>1. PICK R \in Nat \ {0}, T \in Nat \ {0} :
        R = MaxEducationalRevisions /\ T = MaxEducationalTombstones
  BY EducationBounds
<1> DEFINE first == IF c > R THEN c - R + 1 ELSE 1
           oldest == IF c > R + T THEN c - R - T + 1 ELSE 1
<1>0. first \in Int /\ oldest \in Int
  BY <1>1
<1>2. PICK a \in Int : a = IF c > R THEN c - R + 1 ELSE 1
  BY Zenon, <1>0
<1>3. PICK b \in Int : b = IF c > R + T THEN c - R - T + 1 ELSE 1
  BY Zenon, <1>0
<1> HIDE DEF first, oldest
<1>4. d \in Int /\ d - R \in Int
  BY <1>1
<1>5. /\ \A e \in {c, d} : \A x \in Int : x \in KeptOf(e) <=> x >= 1 /\ x <= e /\ x > e - R
      /\ \A e \in {c, d} : \A x \in Int :
           x \in DroppedOf(e) <=> x >= 1 /\ x <= e /\ x <= e - R /\ x > e - R - T
  BY <1>1, <1>4, KeptAndDropped
<1>6. \A e \in {c, d} : KeptOf(e) \subseteq Int /\ DroppedOf(e) \subseteq Int
  BY <1>4 DEF KeptOf, DroppedOf
<1>7. all = a..d
  <2>1. all \subseteq Int /\ a..d \subseteq Int
    BY <1>4, <1>6
  <2>2. \A x \in Int : x \in all <=> x \in a..d
    BY <1>1, <1>2, <1>4, <1>5
  <2> QED BY <2>1, <2>2
<1> HIDE DEF all
<1>8. kept = {x \in a..d : x > d - R}
  BY <1>1, <1>4, <1>7, LargestOfInterval
<1>9. kept \subseteq Int /\ kept \subseteq all
  BY <1>4, <1>7, <1>8
<1> HIDE DEF kept
<1>10. kept = KeptOf(d)
  <2>1. \A x \in Int : x \in kept <=> x \in KeptOf(d)
    BY <1>1, <1>2, <1>4, <1>5, <1>8
  <2> QED BY <1>6, <1>9, <2>1
<1>11. known = b..(d - R)
  <2>1. known \subseteq Int /\ b..(d - R) \subseteq Int
    BY <1>4, <1>6, <1>7
  <2>2. ASSUME NEW x \in Int PROVE x \in known <=> x \in b..(d - R)
    <3>1. x \in known <=> x \in DroppedOf(c) \/ (x \in a..d /\ x \notin KeptOf(d))
      BY <1>7, <1>10
    <3>2. x \in KeptOf(d) <=> x >= 1 /\ x <= d /\ x > d - R
      BY <1>5
    <3>3. x \in DroppedOf(c) <=> x >= 1 /\ x <= c /\ x <= c - R /\ x > c - R - T
      BY <1>5
    <3> QED BY <1>1, <1>2, <1>3, <1>4, <3>1, <3>2, <3>3
  <2> HIDE DEF known
  <2> QED BY <2>1, <2>2
<1> HIDE DEF known
<1>12. Largest(T, known) = {x \in b..(d - R) : x > d - R - T}
  BY <1>1, <1>4, <1>11, LargestOfInterval
<1>13. Largest(T, known) = DroppedOf(d)
  <2>1. Largest(T, known) \subseteq Int
    BY <1>4, <1>12
  <2>2. \A x \in Int : x \in Largest(T, known) <=> x \in DroppedOf(d)
    BY <1>1, <1>3, <1>4, <1>5, <1>12
  <2> QED BY <1>6, <2>1, <2>2
<1> QED BY <1>1, <1>9, <1>10, <1>13 DEF all, kept, known

(* The entry of a plan after its revision, in the words of Revised.          *)
RevisedEntry(entry, plan) ==
  LET replaced == [entry.revisions EXCEPT ![entry.current].state = "SUPERSEDED"]
      revisions == [r \in DOMAIN replaced \cup {plan.revision} |->
                      IF r = plan.revision THEN Record(plan) ELSE replaced[r]]
  IN Compacted([entry EXCEPT !.current = plan.revision, !.revisions = revisions])

EditedEntry(entry, input, snapshot, at) ==
  RevisedEntry(entry, Edited(entry.revisions[entry.current].plan, input, snapshot, at))

(* It is well formed, and one revision further.                              *)
LEMMA EditedEntryHolds ==
  ASSUME NEW entry, EntryHolds(entry), NEW input, InputHolds(input), NEW snapshot,
         DatesHold(snapshot), NEW at
  PROVE  /\ EntryHolds(EditedEntry(entry, input, snapshot, at))
         /\ EditedEntry(entry, input, snapshot, at).id = entry.id
         /\ EditedEntry(entry, input, snapshot, at).current = entry.current + 1
<1> DEFINE c == entry.current
           old == entry.revisions[c].plan
           plan == Edited(old, input, snapshot, at)
           replaced == [entry.revisions EXCEPT ![c].state = "SUPERSEDED"]
           revisions == [r \in DOMAIN replaced \cup {plan.revision} |->
                           IF r = plan.revision THEN Record(plan) ELSE replaced[r]]
           mid == [entry EXCEPT !.current = plan.revision, !.revisions = revisions]
<1> DEFINE next == EditedEntry(entry, input, snapshot, at)
<1>0. next = RevisedEntry(entry, plan)
  BY DEF EditedEntry
<1> HIDE DEF next
<1>1. /\ DOMAIN entry = EntryFields /\ c \in Nat \ {0} /\ DOMAIN entry.revisions = KeptOf(c)
      /\ entry.tombs = DroppedOf(c)
      /\ \A r \in KeptOf(c) : RecordHolds(entry.revisions[r], r)
      /\ OldVoid(entry)
  BY DEF EntryHolds
<1>2. c \in KeptOf(c) /\ \A r \in KeptOf(c) : r \in Nat /\ r <= c
  BY <1>1, CurrentIsKept DEF KeptOf
<1>3. old.revision = c /\ IsSeq(old.invalidated)
  BY <1>1, <1>2 DEF RecordHolds
<1>4. /\ DOMAIN plan = PlanFields /\ plan.revision = c + 1 /\ plan.snapshot = snapshot
      /\ plan.handoff = 0 /\ IsSeq(plan.invalidated) /\ LegsHold(plan)
      /\ Len(plan.invalidated) < MaxInvalidated =>
           /\ Len(old.invalidated) < MaxInvalidated
           /\ At(old.invalidated) \subseteq At(plan.invalidated)
           /\ old.handoff # 0 => old.handoff \in At(plan.invalidated)
  <2> DEFINE was == old
  <2>1. was.revision = c /\ IsSeq(was.invalidated) /\ plan = Edited(was, input, snapshot, at)
    BY <1>3
  <2> HIDE DEF was, plan
  <2>2. /\ DOMAIN plan = PlanFields /\ plan.revision = was.revision + 1 /\ plan.snapshot = snapshot
        /\ plan.handoff = 0 /\ IsSeq(plan.invalidated) /\ LegsHold(plan)
        /\ Len(plan.invalidated) < MaxInvalidated =>
             /\ Len(was.invalidated) < MaxInvalidated
             /\ At(was.invalidated) \subseteq At(plan.invalidated)
             /\ was.handoff # 0 => was.handoff \in At(plan.invalidated)
    BY <2>1, EditedRemembers
  <2> QED BY <2>1, <2>2 DEF was
<1> HIDE DEF plan
<1>5. /\ DOMAIN replaced = KeptOf(c)
      /\ \A r \in KeptOf(c) : /\ RecordHolds(replaced[r], r)
                              /\ replaced[r].draft = entry.revisions[r].draft
  BY <1>1 DEF RecordHolds, RecordFields
<1> HIDE DEF replaced
<1>6. RecordHolds(Record(plan), c + 1) /\ At(Record(plan).draft) = {} /\ Record(plan).plan = plan
  BY <1>4, EmptyIsSeq DEF RecordHolds, Record, RecordFields
<1>7. /\ DOMAIN revisions = KeptOf(c) \cup {c + 1} /\ revisions[c + 1] = Record(plan)
      /\ \A r \in KeptOf(c) : revisions[r] = replaced[r]
  BY <1>2, <1>4, <1>5
<1> HIDE DEF revisions
<1>8. /\ DOMAIN mid = EntryFields /\ mid.id = entry.id /\ mid.current = c + 1
      /\ mid.revisions = revisions /\ mid.tombs = DroppedOf(c)
  BY <1>1, <1>4 DEF EntryFields
<1>9. next = Compacted(mid)
  BY <1>0 DEF RevisedEntry, replaced, revisions
<1> HIDE DEF mid
<1>10. /\ DOMAIN next = EntryFields /\ next.id = entry.id /\ next.current = c + 1
       /\ next.revisions = [r \in KeptOf(c + 1) |-> revisions[r]]
       /\ next.tombs = DroppedOf(c + 1)
  <2> DEFINE kept == Largest(MaxEducationalRevisions, DOMAIN mid.revisions)
             tombs == Largest(MaxEducationalTombstones, mid.tombs \cup (DOMAIN mid.revisions \ kept))
  <2> PICK d : d = c + 1
    OBVIOUS
  <2>0. DOMAIN mid.revisions = KeptOf(c) \cup {d} /\ mid.tombs = DroppedOf(c)
    BY <1>7, <1>8
  <2> DEFINE all == KeptOf(c) \cup {d}
  <2>a. /\ Largest(MaxEducationalRevisions, all) = KeptOf(d)
        /\ Largest(MaxEducationalTombstones,
                   DroppedOf(c) \cup (all \ Largest(MaxEducationalRevisions, all))) = DroppedOf(d)
    BY <1>1, CompactedDomains
  <2> HIDE DEF all
  <2>b. DOMAIN mid.revisions = all /\ mid.tombs = DroppedOf(c)
    BY <2>0 DEF all
  <2>1. kept = KeptOf(c + 1) /\ tombs = DroppedOf(c + 1)
    BY Zenon, <2>a, <2>b
  <2>2. next = [mid EXCEPT !.revisions = [r \in kept |-> mid.revisions[r]], !.tombs = tombs]
    BY <1>9 DEF Compacted
  <2> HIDE DEF kept, tombs
  <2> QED BY <1>8, <2>1, <2>2 DEF EntryFields
<1>11. \A r \in KeptOf(c + 1) : r = c + 1 \/ (r \in KeptOf(c) /\ r # c + 1)
  BY <1>1, EducationBounds DEF KeptOf
<1>12. c + 1 \in Nat \ {0} /\ c + 1 \in KeptOf(c + 1)
  BY <1>1, CurrentIsKept
<1>13. \A r \in KeptOf(c + 1) : RecordHolds(next.revisions[r], r)
  BY <1>5, <1>6, <1>7, <1>10, <1>11
<1>14. OldVoid(next)
  <2> SUFFICES ASSUME Len(plan.invalidated) < MaxInvalidated,
                      NEW r \in KeptOf(c + 1), r < c + 1, NEW d \in At(next.revisions[r].draft)
               PROVE  d.id \in At(plan.invalidated)
    BY <1>6, <1>7, <1>10, <1>12 DEF OldVoid
  <2>1. r \in KeptOf(c) /\ d \in At(entry.revisions[r].draft)
    BY <1>1, <1>5, <1>7, <1>10, <1>11
  <2>2. CASE r = c
    <3>1. d.id = old.handoff /\ d.id # 0
      BY <1>1, <2>1, <2>2 DEF RecordHolds
    <3> QED BY <1>4, <3>1
  <2>3. CASE r # c
    <3>1. r < c
      BY <1>1, <1>2, <2>1, <2>3
    <3>2. d.id \in At(old.invalidated)
      BY <1>1, <1>4, <2>1, <3>1 DEF OldVoid
    <3> QED BY <1>4, <3>2
  <2> QED BY <2>2, <2>3
<1>15. EntryHolds(next)
  BY <1>10, <1>12, <1>13, <1>14 DEF EntryHolds
<1> QED BY <1>10, <1>15 DEF next

(* The record of a revision, and its entry, after it was asked for a draft, in *)
(* the words of HandedOver.                                                   *)
HandedRecord(record, id, leg, side, at) ==
  LET outcome == Selected(record.plan, leg, side, at)
      marked == [record EXCEPT !.state = outcome]
  IN IF outcome # "DRAFT_CREATED_NOT_AUTHORIZED" THEN marked
     ELSE [marked EXCEPT !.plan.handoff = id,
                         !.draft = <<Draft(id, record.plan, leg, side, at)>>]

HandedEntry(entry, id, leg, side, at) ==
  [entry EXCEPT !.revisions[entry.current] =
     HandedRecord(entry.revisions[entry.current], id, leg, side, at)]

LEMMA OneDraft ==
  ASSUME NEW d
  PROVE  At(<<d>>) = {d}
<1>1. DOMAIN <<d>> = {1} /\ <<d>>[1] = d
  OBVIOUS
<1> QED BY <1>1 DEF At

(* The record that gets a draft: it had none, and its facts are in date.      *)
LEMMA HandedRecordHolds ==
  ASSUME NEW record, NEW r, RecordHolds(record, r), NEW leg, NEW side, NEW at \in Int,
         NEW id \in Nat \ {0}, record.draft = <<>>
  PROVE  LET next == HandedRecord(record, id, leg, side, at)
         IN RecordHolds(next, r) /\ next.plan.invalidated = record.plan.invalidated
<1> DEFINE outcome == Selected(record.plan, leg, side, at)
           marked == [record EXCEPT !.state = outcome]
           made == Draft(id, record.plan, leg, side, at)
           handed == [marked EXCEPT !.plan.handoff = id, !.draft = <<made>>]
<1>1. /\ DOMAIN record = RecordFields /\ DOMAIN record.plan = PlanFields
      /\ record.plan.revision = r /\ IsSeq(record.plan.invalidated)
      /\ DatesHold(record.plan.snapshot) /\ LegsHold(record.plan)
  BY DEF RecordHolds
<1> HIDE DEF outcome
<1>2. /\ DOMAIN marked = RecordFields /\ marked.plan = record.plan /\ marked.draft = <<>>
  BY <1>1 DEF RecordFields
<1>3. RecordHolds(marked, r)
  BY <1>1, <1>2, EmptyIsSeq DEF RecordHolds
<1>4. ASSUME outcome = "DRAFT_CREATED_NOT_AUTHORIZED"
      PROVE  RecordHolds(handed, r) /\ handed.plan.invalidated = record.plan.invalidated
  <2>1. made.id = id /\ made.made = at
    BY DEF Draft
  <2> HIDE DEF made, marked
  <2>2. /\ DOMAIN handed = RecordFields /\ handed.draft = <<made>>
        /\ handed.plan = [record.plan EXCEPT !.handoff = id]
    BY <1>2 DEF RecordFields
  <2> HIDE DEF handed
  <2>3. /\ DOMAIN handed.plan = PlanFields /\ handed.plan.handoff = id
        /\ handed.plan.revision = r /\ handed.plan.invalidated = record.plan.invalidated
        /\ handed.plan.snapshot = record.plan.snapshot /\ handed.plan.legs = record.plan.legs
        /\ handed.plan.amount = record.plan.amount /\ handed.plan.status = record.plan.status
    BY <1>1, <2>2 DEF PlanFields
  <2>6. LegsHold(handed.plan)
    BY <1>1, <2>3, SameLegs
  <2>4. at < record.plan.snapshot.expires \/ record.plan.snapshot.facts = {}
    <3>1. ~SnapshotExpired(record.plan, at)
      BY <1>4 DEF outcome, Selected
    <3> QED BY <1>1, <3>1 DEF SnapshotExpired, DatesHold
  <2>5. ASSUME NEW fact \in record.plan.snapshot.facts PROVE at - fact.observed < MarketAge
    <3>1. /\ fact.observed \in Int /\ record.plan.snapshot.expires \in Int
          /\ record.plan.snapshot.expires <= fact.observed + MarketAge
      BY <1>1 DEF DatesHold
    <3>2. MarketAge \in Int
      BY ServerAssumption
    <3> QED BY <2>4, <3>1, <3>2
  <2> QED BY <1>1, <2>1, <2>2, <2>3, <2>5, <2>6, OneDraft DEF RecordHolds
<1> HIDE DEF marked, handed
<1>5. CASE outcome # "DRAFT_CREATED_NOT_AUTHORIZED"
  BY <1>2, <1>3, <1>5 DEF outcome, marked, HandedRecord
<1>6. CASE outcome = "DRAFT_CREATED_NOT_AUTHORIZED"
  BY <1>4, <1>6 DEF outcome, marked, handed, made, HandedRecord
<1> QED BY <1>5, <1>6

LEMMA HandedEntryHolds ==
  ASSUME NEW entry, EntryHolds(entry), entry.revisions[entry.current].draft = <<>>,
         NEW leg, NEW side, NEW at \in Int, NEW id \in Nat \ {0}
  PROVE  LET next == HandedEntry(entry, id, leg, side, at)
         IN EntryHolds(next) /\ next.id = entry.id /\ next.current = entry.current
<1> DEFINE c == entry.current
           record == entry.revisions[c]
           handed == HandedRecord(record, id, leg, side, at)
           next == HandedEntry(entry, id, leg, side, at)
<1>1. /\ DOMAIN entry = EntryFields /\ c \in Nat \ {0} /\ DOMAIN entry.revisions = KeptOf(c)
      /\ entry.tombs = DroppedOf(c)
      /\ \A r \in KeptOf(c) : RecordHolds(entry.revisions[r], r)
      /\ OldVoid(entry) /\ c \in KeptOf(c)
  BY CurrentIsKept DEF EntryHolds
<1>2. RecordHolds(handed, c) /\ handed.plan.invalidated = record.plan.invalidated
  <2> PICK was : was = record
    OBVIOUS
  <2>1. RecordHolds(was, c) /\ was.draft = <<>>
    BY <1>1
  <2> QED BY <2>1, HandedRecordHolds
<1>3. next = [entry EXCEPT !.revisions[c] = handed]
  BY DEF HandedEntry
<1> HIDE DEF handed, next
<1>4. /\ DOMAIN next = EntryFields /\ next.id = entry.id /\ next.current = c
      /\ next.tombs = DroppedOf(c) /\ next.revisions = [entry.revisions EXCEPT ![c] = handed]
  BY <1>1, <1>3 DEF EntryFields
<1>5. /\ DOMAIN next.revisions = KeptOf(c) /\ next.revisions[c] = handed
      /\ \A r \in KeptOf(c) : r # c => next.revisions[r] = entry.revisions[r]
  BY <1>1, <1>4
<1>6. \A r \in KeptOf(c) : RecordHolds(next.revisions[r], r)
  BY <1>1, <1>2, <1>5
<1>7. \A r \in KeptOf(c) : r < c => r # c
  BY <1>1
<1>8. OldVoid(next)
  BY <1>1, <1>2, <1>4, <1>5, <1>7 DEF OldVoid
<1>9. EntryHolds(next)
  BY <1>1, <1>4, <1>5, <1>6, <1>8 DEF EntryHolds
<1> QED BY <1>4, <1>9 DEF next

(* ------------------------------ the invariant ---------------------------- *)

(* A request for an educational plan has facts and inputs the planner can     *)
(* count, and does not wait for a connection of its own.                      *)
Plans(job) == job.op \in {"EDUCATION", "REVISE"}

Prepared(job) ==
  /\ job.step # "VERIFY"
  /\ job.step \in {"CHECK", "LEASE", "FACTS"} => InputHolds(job.input) /\ job.at \in Int
  /\ job.step = "FACTS" =>
       IsFiniteSet(DOMAIN job.facts) /\ \A i \in DOMAIN job.facts : job.facts[i] \in Int

PreparedInv == \A j \in 1..MaxJobs : Plans(jobs[j]) => Prepared(jobs[j])

(* An entry is of the session of the request that made it.                    *)
PlannedIn(id, t) ==
  id \in 1..MaxJobs /\ jobs[id].op = "EDUCATION" /\ jobs[id].step = "DONE" /\ jobs[id].session = t

EntriesHold(entries) ==
  /\ IsSeq(entries) /\ \A i \in DOMAIN entries : EntryHolds(entries[i])
  /\ \A i, k \in DOMAIN entries : entries[i].id = entries[k].id => i = k

EntriesInv ==
  \A t \in 1..MaxSessions :
    /\ EntriesHold(Entries(t)) /\ Len(Entries(t)) <= MaxEducational
    /\ \A i \in DOMAIN Entries(t) : PlannedIn(Entries(t)[i].id, t)

(* A revision that was replaced is behind the current one.                    *)
HasRevised(job) == job.op = "REVISE" /\ job.result = "OK"

Behind(id, revision, t) ==
  \A i \in DOMAIN Entries(t) : Entries(t)[i].id = id => Entries(t)[i].current > revision

RevisedInv ==
  \A j \in 1..MaxJobs : HasRevised(jobs[j]) =>
    /\ PlannedIn(jobs[j].plan, jobs[j].session)
    /\ jobs[j].revision \in Nat /\ Behind(jobs[j].plan, jobs[j].revision, jobs[j].session)

EducationInv == PreparedInv /\ EntriesInv /\ RevisedInv /\ RevisionReplacedOnce

(* What a session's entries become.                                           *)
LEMMA EntryReplaced ==
  ASSUME NEW entries, EntriesHold(entries), NEW i \in DOMAIN entries, NEW entry,
         EntryHolds(entry), entry.id = entries[i].id
  PROVE  LET next == [entries EXCEPT ![i] = entry]
         IN /\ EntriesHold(next) /\ DOMAIN next = DOMAIN entries /\ Len(next) = Len(entries)
            /\ next[i] = entry /\ \A k \in DOMAIN entries : k # i => next[k] = entries[k]
<1> DEFINE next == [entries EXCEPT ![i] = entry]
<1>1. /\ DOMAIN next = DOMAIN entries /\ next[i] = entry
      /\ \A k \in DOMAIN entries : k # i => next[k] = entries[k]
  OBVIOUS
<1>2. PICK n \in Nat : entries = [k \in 1..n |-> entries[k]]
  BY DEF EntriesHold, IsSeq
<1>3. next = [k \in 1..n |-> next[k]]
  BY <1>2
<1> HIDE DEF next
<1>4. IsSeq(next)
  BY <1>3 DEF IsSeq
<1>5. Len(next) = Len(entries)
  <2>1. DOMAIN entries = 1..n /\ IsSeq(entries)
    BY <1>2 DEF EntriesHold
  <2> QED BY <1>1, <1>4, <2>1, SeqLength
<1>6. EntriesHold(next)
  BY <1>1, <1>4 DEF EntriesHold
<1> QED BY <1>1, <1>5, <1>6 DEF next

LEMMA EntryAdded ==
  ASSUME NEW entries, EntriesHold(entries), NEW id, \A i \in DOMAIN entries : entries[i].id # id,
         NEW plan, DOMAIN plan = PlanFields, plan.revision = 1, plan.invalidated = <<>>,
         DatesHold(plan.snapshot), LegsHold(plan)
  PROVE  LET next == WithPlan(entries, id, plan)
         IN /\ EntriesHold(next) /\ Len(next) <= MaxEducational
            /\ \A i \in DOMAIN next :
                 next[i].id = id \/ \E k \in DOMAIN entries : next[i] = entries[k]
<1> DEFINE entry == [id |-> id, current |-> 1, revisions |-> [r \in {1} |-> Record(plan)],
                     tombs |-> {}]
           room == Room(entries)
           next == WithPlan(entries, id, plan)
<1>1. EntryHolds(entry) /\ entry.id = id
  BY NewEntryHolds
<1>2. next = Append(room, entry)
  BY DEF WithPlan
<1> HIDE DEF entry, next
<1>3. PICK n \in Nat : n = MaxEducational - 1
  BY EducationBounds
<1>4. IsSeq(entries) /\ Len(entries) \in Nat /\ DOMAIN entries = 1..Len(entries)
  BY SeqDomain DEF EntriesHold
<1>5. /\ IsSeq(room) /\ Len(room) = IF Len(entries) > n THEN n ELSE Len(entries)
      /\ \A i \in DOMAIN room : /\ room[i] = entries[Len(entries) - Len(room) + i]
                                /\ Len(entries) - Len(room) + i \in DOMAIN entries
  <2>1. room = Recent(entries, n)
    BY <1>3 DEF Room
  <2> HIDE DEF room
  <2> QED BY <1>4, <2>1, RecentShape
<1> HIDE DEF room
<1>6. /\ IsSeq(next) /\ DOMAIN next = DOMAIN room \cup {Len(room) + 1}
      /\ next[Len(room) + 1] = entry /\ \A i \in DOMAIN room : next[i] = room[i]
      /\ DOMAIN room = 1..Len(room) /\ Len(room) \in Nat
  BY <1>2, <1>5, AppendShape
<1>7. Len(next) <= MaxEducational
  <2>1. Len(next) = Len(room) + 1
    BY <1>2, <1>5, AppendLen
  <2> QED BY <1>3, <1>4, <1>5, <2>1, EducationBounds
<1>8. \A i \in DOMAIN next : next[i].id = id \/ \E k \in DOMAIN entries : next[i] = entries[k]
  BY <1>1, <1>5, <1>6
<1>9. \A i \in DOMAIN next : EntryHolds(next[i])
  BY <1>1, <1>5, <1>6 DEF EntriesHold
<1>10. ASSUME NEW i \in DOMAIN next, NEW k \in DOMAIN next, next[i].id = next[k].id
       PROVE  i = k
  <2>1. CASE i \in DOMAIN room /\ k \in DOMAIN room
    <3> DEFINE a == Len(entries) - Len(room) + i
               b == Len(entries) - Len(room) + k
    <3>1. a \in DOMAIN entries /\ b \in DOMAIN entries /\ next[i] = entries[a] /\ next[k] = entries[b]
      BY <1>5, <1>6, <2>1
    <3>2. a = b
      BY <1>10, <3>1 DEF EntriesHold
    <3> QED BY <1>4, <1>6, <2>1, <3>2
  <2>2. CASE ~(i \in DOMAIN room /\ k \in DOMAIN room)
    <3>1. \A l \in DOMAIN room : next[l].id # id
      BY <1>5, <1>6
    <3>2. next[Len(room) + 1].id = id
      BY <1>1, <1>6
    <3> QED BY <1>6, <1>10, <2>2, <3>1, <3>2
  <2> QED BY <2>1, <2>2
<1>11. EntriesHold(next)
  BY <1>6, <1>9, <1>10 DEF EntriesHold
<1> QED BY <1>7, <1>8, <1>11 DEF next

(* ------------------------------- the steps ------------------------------- *)

(* Requests go on, and none of them revises a plan.                           *)
JobsGo ==
  /\ \A j \in 1..MaxJobs : jobs[j].step = "DONE" => jobs'[j] = jobs[j]
  /\ PreparedInv'
  /\ \A j \in 1..MaxJobs : HasRevised(jobs'[j]) => jobs'[j] = jobs[j]

SessionsForget ==
  \A t \in 1..MaxSessions : sessions'[t].education \in {sessions[t].education, <<>>}

LEMMA PlannedKept ==
  ASSUME \A j \in 1..MaxJobs : jobs[j].step = "DONE" => jobs'[j] = jobs[j], NEW id, NEW t,
         PlannedIn(id, t)
  PROVE  PlannedIn(id, t)'
  BY DEF PlannedIn

LEMMA NoEntries ==
  EntriesHold(<<>>) /\ Len(<<>>) <= MaxEducational /\ DOMAIN <<>> = {}
<1>1. DOMAIN <<>> = {}
  OBVIOUS
<1> QED BY <1>1, EmptyIsSeq, EducationBounds DEF EntriesHold

LEMMA OnceKept ==
  ASSUME ShapeInv, DOMAIN jobs' = 1..MaxJobs, JobsGo, RevisionReplacedOnce
  PROVE  RevisionReplacedOnce'
  BY DEF ShapeInv, JobsGo, HasRevised, RevisionReplacedOnce

LEMMA ForgetKeeps ==
  ASSUME ShapeInv, DOMAIN jobs' = 1..MaxJobs, EducationInv, JobsGo, SessionsForget
  PROVE  EducationInv'
<1>1. \A t \in 1..MaxSessions : \/ sessions'[t].education = sessions[t].education
                                \/ sessions'[t].education = <<>>
  BY DEF SessionsForget
<1>2. \A id, t : PlannedIn(id, t) => PlannedIn(id, t)'
  BY PlannedKept DEF JobsGo
<1>3. EntriesInv'
  <2> SUFFICES ASSUME NEW t \in 1..MaxSessions
               PROVE  /\ EntriesHold(Entries(t)') /\ Len(Entries(t)') <= MaxEducational
                      /\ \A i \in DOMAIN Entries(t)' : PlannedIn(Entries(t)[i].id, t)'
    BY DEF EntriesInv
  <2>1. CASE Entries(t)' = <<>>
    BY <2>1, NoEntries
  <2>2. CASE Entries(t)' = Entries(t)
    <3>1. ASSUME NEW i \in DOMAIN Entries(t) PROVE PlannedIn(Entries(t)[i].id, t)'
      <4> PICK id : id = Entries(t)[i].id
        OBVIOUS
      <4>1. PlannedIn(id, t)'
        BY <1>2 DEF EducationInv, EntriesInv
      <4> QED BY <2>2, <4>1
    <3> QED BY <2>2, <3>1 DEF EducationInv, EntriesInv
  <2> QED BY <1>1, <2>1, <2>2 DEF Entries
<1>4. RevisedInv'
  <2> SUFFICES ASSUME NEW j \in 1..MaxJobs, HasRevised(jobs'[j])
               PROVE  /\ PlannedIn(jobs[j].plan, jobs[j].session)'
                      /\ jobs'[j].revision \in Nat
                      /\ Behind(jobs[j].plan, jobs[j].revision, jobs[j].session)'
    BY DEF RevisedInv, HasRevised
  <2>1. jobs'[j] = jobs[j] /\ HasRevised(jobs[j])
    BY DEF JobsGo
  <2> PICK id, t, r : id = jobs[j].plan /\ t = jobs[j].session /\ r = jobs[j].revision
    OBVIOUS
  <2>2. PlannedIn(id, t) /\ r \in Nat /\ Behind(id, r, t)
    BY <2>1 DEF EducationInv, RevisedInv
  <2>3. PlannedIn(id, t)'
    BY <1>2, <2>2
  <2>4. Behind(id, r, t)'
    <3>1. t \in 1..MaxSessions
      BY <2>1 DEF HasRevised, ShapeInv, JobShape
    <3> QED BY <1>1, <2>2, <3>1, NoEntries DEF Behind, Entries
  <2> QED BY <2>1, <2>2, <2>3, <2>4
<1>5. RevisionReplacedOnce'
  BY OnceKept DEF EducationInv
<1> QED BY <1>3, <1>4, <1>5 DEF EducationInv, JobsGo

(* One request goes on, ...                                                   *)
LEMMA OneGoes ==
  ASSUME ShapeInv, PreparedInv, NEW j \in 1..MaxJobs, NEW job, jobs' = [jobs EXCEPT ![j] = job],
         jobs[j].step # "DONE", Plans(job) => Prepared(job), ~HasRevised(job)
  PROVE  JobsGo /\ DOMAIN jobs' = 1..MaxJobs
<1>1. /\ DOMAIN jobs' = 1..MaxJobs /\ jobs'[j] = job
      /\ \A k \in 1..MaxJobs : k # j => jobs'[k] = jobs[k]
  BY DEF ShapeInv
<1>2. PreparedInv'
  BY <1>1 DEF PreparedInv, Plans, Prepared
<1> QED BY <1>1, <1>2 DEF JobsGo

(* ... is answered, ...                                                       *)
LEMMA OneAnswered ==
  ASSUME ShapeInv, PreparedInv, NEW j \in 1..MaxJobs, NEW answer, Answered(j, answer),
         jobs[j].step # "DONE", answer = "OK" => jobs[j].op # "REVISE"
  PROVE  JobsGo /\ DOMAIN jobs' = 1..MaxJobs
<1> DEFINE job == Done(jobs[j], answer)
<1>1. jobs' = [jobs EXCEPT ![j] = job]
  BY DEF Answered
<1>2. job.op = jobs[j].op /\ job.step = "DONE" /\ job.result = answer
  BY DEF Done, NoJob
<1> HIDE DEF job
<1> QED BY <1>1, <1>2, OneGoes DEF Prepared, HasRevised

(* ... or is left without a connection.                                       *)
LEMMA WithoutPrepared ==
  ASSUME NEW job, DOMAIN job = JobFields, Plans(job), job.at \in Int, InputHolds(job.input)
  PROVE  Prepared(Without(job))
<1>1. job.op \notin Checks
  BY DEF Plans, Checks
<1>2. /\ Without(job).step = "FACTS" /\ Without(job).input = job.input
      /\ Without(job).at = job.at /\ Without(job).facts = <<>>
  BY <1>1 DEF Without, JobFields
<1>3. DOMAIN <<>> = {} /\ IsFiniteSet({})
  BY FS_EmptySet
<1> QED BY <1>2, <1>3 DEF Prepared

LEMMA OneWithout ==
  ASSUME ShapeInv, ResultInv, PreparedInv, NEW j \in 1..MaxJobs,
         jobs' = [jobs EXCEPT ![j] = Without(jobs[j])], jobs[j].step \in {"CHECK", "LEASE"}
  PROVE  JobsGo /\ DOMAIN jobs' = 1..MaxJobs
<1> DEFINE job == Without(jobs[j])
<1>1. DOMAIN jobs[j] = JobFields /\ jobs[j].result = "NONE" /\ jobs[j].step # "DONE"
  BY DEF ShapeInv, JobShape, ResultInv
<1>2. job.op = jobs[j].op /\ job.result = "NONE"
  BY <1>1, WithoutFields
<1>3. Plans(job) => Prepared(job)
  BY <1>1, <1>2, WithoutPrepared DEF PreparedInv, Prepared, Plans
<1>4. jobs' = [jobs EXCEPT ![j] = job]
  OBVIOUS
<1> HIDE DEF job
<1> QED BY <1>1, <1>2, <1>3, <1>4, OneGoes DEF HasRevised

LEMMA SessionsAsBefore == ASSUME UNCHANGED sessions PROVE SessionsForget
  BY DEF SessionsForget

LEMMA DisposedForget ==
  ASSUME ShapeInv, NEW gone, NEW kept, kept = Disposed(sessions, gone)
  PROVE  /\ DOMAIN kept = 1..MaxSessions
         /\ \A t \in 1..MaxSessions : kept[t].education \in {sessions[t].education, <<>>}
  BY DEF ShapeInv, Disposed, NoSession

LEMMA RequestsPlan ==
  ASSUME ShapeInv, ResultInv, PreparedInv, NEW j \in 1..MaxJobs,
         Refuse(j) \/ AskOpen(j) \/ Ask(j) \/ BodyFails(j) \/ ServeOpen(j)
  PROVE  JobsGo /\ DOMAIN jobs' = 1..MaxJobs /\ SessionsForget
<1>1. ASSUME NEW r \in Request(j), NEW job, jobs' = [jobs EXCEPT ![j] = job],
             \/ \E answer \in {"BUSY", "UNKNOWN"} : job = Done(r, answer)
             \/ job = [r EXCEPT !.step = "BODY"]
             \/ job = [r EXCEPT !.step = "BODY", !.session = 0]
      PROVE  JobsGo /\ DOMAIN jobs' = 1..MaxJobs
  <2>1. jobs[j] = NoJob /\ DOMAIN r = JobFields /\ r.result = "NONE" /\ jobs[j].step # "DONE"
    BY RequestFields, NoJobFields
  <2>2. job.step \in {"BODY", "DONE"} /\ job.result \in {"NONE", "BUSY", "UNKNOWN"}
    BY <1>1, <2>1 DEF Done, NoJob, JobFields
  <2> QED BY <1>1, <2>1, <2>2, OneGoes DEF Prepared, HasRevised
<1>2. CASE Refuse(j)
  <2>1. PICK r \in Request(j) : jobs' = [jobs EXCEPT ![j] = Done(r, "BUSY")]
    BY <1>2 DEF Refuse
  <2> QED BY <1>1, <1>2, <2>1, SessionsAsBefore DEF Refuse
<1>3. CASE AskOpen(j)
  <2>1. PICK r \in Request(j) : jobs' = [jobs EXCEPT ![j] = [r EXCEPT !.step = "BODY", !.session = 0]]
    BY <1>3 DEF AskOpen
  <2> QED BY <1>1, <1>3, <2>1, SessionsAsBefore DEF AskOpen
<1>4. CASE Ask(j)
  <2> DEFINE kept == Disposed(sessions, Ended(sessions, Wall))
  <2>1. PICK r \in Request(j) :
          \/ /\ sessions' = Touched(kept, r.session, Wall)
             /\ jobs' = [jobs EXCEPT ![j] = [r EXCEPT !.step = "BODY"]]
          \/ /\ sessions' = kept
             /\ jobs' = [jobs EXCEPT ![j] = Done(r, "UNKNOWN")]
    BY <1>4 DEF Ask
  <2>2. JobsGo /\ DOMAIN jobs' = 1..MaxJobs
    BY <1>1, <2>1
  <2>3. /\ DOMAIN kept = 1..MaxSessions
        /\ \A t \in 1..MaxSessions : /\ kept[t].education \in {sessions[t].education, <<>>}
                                     /\ DOMAIN kept[t] = SessionFields
    BY DisposedForget, DisposedQuiet
  <2> HIDE DEF kept
  <2>4. SessionsForget
    BY ZenonT(30), <2>1, <2>3 DEF SessionsForget, Touched, SessionFields
  <2> QED BY <2>2, <2>4
<1>5. CASE BodyFails(j)
  BY <1>5, OneAnswered, SessionsAsBefore DEF BodyFails
<1>6. CASE ServeOpen(j)
  <2> DEFINE ended == Ended(sessions, Wall)
             kept == Disposed(sessions, ended \cup Evicted(Disposed(sessions, ended)))
  <2>1. PICK t : sessions' = [kept EXCEPT ![t] = NewSession(Wall)]
    BY <1>6 DEF ServeOpen
  <2>2. JobsGo /\ DOMAIN jobs' = 1..MaxJobs
    BY <1>6, OneAnswered DEF ServeOpen, Serves
  <2>3. /\ DOMAIN kept = 1..MaxSessions
        /\ \A u \in 1..MaxSessions : kept[u].education \in {sessions[u].education, <<>>}
    BY DisposedForget
  <2>4. NewSession(Wall).education = <<>>
    BY DEF NewSession, NoSession
  <2> HIDE DEF kept
  <2>5. SessionsForget
    BY <2>1, <2>3, <2>4 DEF SessionsForget
  <2> QED BY <2>2, <2>5
<1> QED BY <1>2, <1>3, <1>4, <1>5, <1>6

(* Sessions that change, but not their educational plans.                     *)
LEMMA PlansElsewhere ==
  ASSUME ShapeInv, NEW t, NEW x,
         \/ sessions' = [sessions EXCEPT ![t].provider = x]
         \/ sessions' = Settled(t, x, "RUNNING")
         \/ sessions' = Settled(t, x, "COMPLETED")
         \/ sessions' = Settled(t, x, "STOPPED_SAFE")
         \/ sessions' = [sessions EXCEPT ![t] = Remember(@, x)]
  PROVE  SessionsForget
<1>1. CASE sessions' = [sessions EXCEPT ![t].provider = x]
  BY <1>1 DEF SessionsForget, ShapeInv, SessionFields
<1>2. ASSUME NEW state, sessions' = Settled(t, x, state) PROVE SessionsForget
  BY <1>2 DEF SessionsForget, ShapeInv, SessionFields, Settled
<1>3. CASE sessions' = [sessions EXCEPT ![t] = Remember(@, x)]
  <2>1. \A u \in 1..MaxSessions : Remember(sessions[u], x).education = sessions[u].education
    BY DEF Remember, ShapeInv, SessionFields
  <2> QED BY <1>3, <2>1 DEF SessionsForget, ShapeInv
<1> QED BY <1>1, <1>2, <1>3

LEMMA ConnectionsPlan ==
  ASSUME ShapeInv, ResultInv, PreparedInv, NEW j \in 1..MaxJobs,
         \/ ServeConnection(j) \/ ServeConnect(j) \/ ConnectVerified(j) \/ ConnectFails(j)
         \/ ServeDisconnect(j)
  PROVE  JobsGo /\ DOMAIN jobs' = 1..MaxJobs /\ SessionsForget
<1>1. CASE ServeConnection(j) \/ ServeDisconnect(j) \/ ConnectFails(j)
  BY <1>1, OneAnswered, SessionsAsBefore DEF ServeConnection, ServeDisconnect, ConnectFails, Serves
<1>2. CASE ConnectVerified(j)
  <2>1. jobs[j].step = "VERIFY" /\ UNCHANGED sessions /\ \E answer : Answered(j, answer)
    BY <1>2 DEF ConnectVerified
  <2>2. jobs[j].op # "REVISE"
    BY <2>1 DEF PreparedInv, Plans, Prepared
  <2> QED BY <2>1, <2>2, OneAnswered, SessionsAsBefore
<1>3. CASE ServeConnect(j)
  <2>1. PICK p, gen :
          /\ jobs[j].step = "BODY" /\ jobs[j].op = "CONNECT"
          /\ sessions' = [sessions EXCEPT ![jobs[j].session].provider = p]
          /\ jobs' = [jobs EXCEPT ![j] = [@ EXCEPT !.step = "VERIFY", !.provider = p, !.gen = gen]]
    BY <1>3 DEF ServeConnect, Serves
  <2> DEFINE job == [jobs[j] EXCEPT !.step = "VERIFY", !.provider = p, !.gen = gen]
  <2>2. jobs' = [jobs EXCEPT ![j] = job] /\ job.op = "CONNECT"
    BY <2>1 DEF ShapeInv, JobShape, JobFields
  <2> HIDE DEF job
  <2>3. JobsGo /\ DOMAIN jobs' = 1..MaxJobs
    BY <2>1, <2>2, OneGoes DEF Plans, HasRevised
  <2> QED BY <2>1, <2>3, PlansElsewhere
<1> QED BY <1>1, <1>2, <1>3

LEMMA LeasesPlan ==
  ASSUME ShapeInv, ResultInv, PreparedInv, NEW j \in 1..MaxJobs,
         LeaseOpens(j) \/ CheckFails(j) \/ LeaseChecks(j) \/ LeaseFails(j)
  PROVE  JobsGo /\ DOMAIN jobs' = 1..MaxJobs /\ SessionsForget
<1>1. SessionsForget
  BY SessionsAsBefore DEF LeaseOpens, CheckFails, LeaseChecks, LeaseFails
<1>2. CASE LeaseOpens(j)
  <2>1. PICK by :
          /\ jobs[j].step = "CHECK"
          /\ \/ jobs' = [jobs EXCEPT ![j] = [jobs[j] EXCEPT !.step = "LEASE", !.by = by]]
             \/ jobs' = [jobs EXCEPT ![j] = Without(jobs[j])]
    BY <1>2 DEF LeaseOpens
  <2>2. CASE jobs' = [jobs EXCEPT ![j] = [jobs[j] EXCEPT !.step = "LEASE", !.by = by]]
    <3> DEFINE job == [jobs[j] EXCEPT !.step = "LEASE", !.by = by]
    <3>1. /\ jobs' = [jobs EXCEPT ![j] = job] /\ job.op = jobs[j].op /\ job.step = "LEASE"
          /\ job.input = jobs[j].input /\ job.at = jobs[j].at /\ job.result = jobs[j].result
      BY <2>2 DEF ShapeInv, JobShape, JobFields
    <3> HIDE DEF job
    <3>2. Plans(job) => Prepared(job)
      BY <2>1, <3>1 DEF PreparedInv, Plans, Prepared
    <3> QED BY <1>1, <2>1, <3>1, <3>2, OneGoes DEF ResultInv, HasRevised
  <2>3. CASE jobs' = [jobs EXCEPT ![j] = Without(jobs[j])]
    BY <1>1, <2>1, <2>3, OneWithout
  <2> QED BY <2>1, <2>2, <2>3
<1>3. CASE CheckFails(j)
  BY <1>1, <1>3, OneWithout DEF CheckFails
<1>4. CASE LeaseChecks(j)
  <2>1. /\ jobs[j].step = "LEASE"
        /\ \/ jobs' = [jobs EXCEPT ![j] = jobs[j]]
           \/ jobs' = [jobs EXCEPT ![j] = Without(jobs[j])]
    BY <1>4 DEF LeaseChecks
  <2>2. CASE jobs' = [jobs EXCEPT ![j] = jobs[j]]
    BY <1>1, <2>1, <2>2, OneGoes DEF PreparedInv, ResultInv, HasRevised
  <2> QED BY <1>1, <2>1, <2>2, OneWithout
<1>5. CASE LeaseFails(j)
  BY <1>1, <1>5, OneWithout DEF LeaseFails
<1> QED BY <1>2, <1>3, <1>4, <1>5

LEMMA MandatesPlan ==
  ASSUME ShapeInv, ResultInv, PreparedInv, NEW j \in 1..MaxJobs,
         \/ ServePlan(j) \/ PlanCompiled(j) \/ PlanRefused(j) \/ RefuseCheck(j)
         \/ ServeDryRun(j) \/ RunEnds(j) \/ RunFails(j)
  PROVE  JobsGo /\ DOMAIN jobs' = 1..MaxJobs /\ SessionsForget
<1>1. CASE ServePlan(j)
  <2> DEFINE job == [jobs[j] EXCEPT !.step = "COMPILE"]
  <2>1. jobs[j].step = "BODY" /\ jobs[j].op = "PLAN" /\ UNCHANGED sessions
    BY <1>1 DEF ServePlan, Serves
  <2>2. jobs' = [jobs EXCEPT ![j] = job] /\ job.op = "PLAN"
    BY <1>1, <2>1 DEF ServePlan, ShapeInv, JobShape, JobFields
  <2> HIDE DEF job
  <2> QED BY <2>1, <2>2, OneGoes, SessionsAsBefore DEF Plans, HasRevised
<1>2. CASE PlanCompiled(j)
  <2>1. PICK x : /\ jobs[j].step = "COMPILE" /\ Answered(j, "OK")
                 /\ sessions' = [sessions EXCEPT ![jobs[j].session] = Remember(@, x)]
    BY <1>2 DEF PlanCompiled
  <2>2. jobs[j].op = "PLAN"
    BY <2>1 DEF ShapeInv, JobShape
  <2> QED BY <2>1, <2>2, OneAnswered, PlansElsewhere
<1>3. CASE PlanRefused(j) \/ RefuseCheck(j)
  BY <1>3, OneAnswered, SessionsAsBefore DEF PlanRefused, RefuseCheck, Serves
<1>4. CASE ServeDryRun(j)
  <2>1. PICK id : /\ jobs[j].step = "BODY" /\ jobs[j].op = "DRY_RUN"
                  /\ sessions' = Settled(jobs[j].session, id, "RUNNING")
                  /\ jobs' = [jobs EXCEPT ![j] = [jobs[j] EXCEPT !.step = "RUN", !.plan = id]]
    BY <1>4 DEF ServeDryRun, Serves
  <2> DEFINE job == [jobs[j] EXCEPT !.step = "RUN", !.plan = id]
  <2>2. jobs' = [jobs EXCEPT ![j] = job] /\ job.op = "DRY_RUN"
    BY <2>1 DEF ShapeInv, JobShape, JobFields
  <2> HIDE DEF job
  <2> QED BY <2>1, <2>2, OneGoes, PlansElsewhere DEF Plans, HasRevised
<1>5. CASE RunEnds(j) \/ RunFails(j)
  <2>1. PICK answer \in {"DRY", "REVIEW", "STOPPED"} : jobs[j].step = "RUN" /\ Answered(j, answer)
    BY <1>5 DEF RunEnds, RunFails
  <2>2. SessionsForget
    BY <1>5, PlansElsewhere DEF RunEnds, RunFails
  <2> QED BY <2>1, <2>2, OneAnswered
<1> QED BY <1>1, <1>2, <1>3, <1>4, <1>5

LEMMA ViewOnlyPlan ==
  ASSUME ShapeInv, ResultInv, PreparedInv, NEW j \in 1..MaxJobs, ServeViewOnly(j) \/ LeaseEnds(j)
  PROVE  JobsGo /\ DOMAIN jobs' = 1..MaxJobs /\ SessionsForget
<1>1. CASE ServeViewOnly(j)
  <2> DEFINE t == jobs[j].session
             p == ProviderFor(t)
             q == Current(Provided(t)[p], Wall)
             good == ClockHolds(Provided(t)[p], Wall)
             state == IF good THEN "RUNNING" ELSE "STOPPED_SAFE"
  <2>1. PICK id \in Mandates :
          /\ jobs[j].step = "BODY" /\ jobs[j].op = "VIEW_ONLY"
          /\ sessions' = [Settled(t, id, state) EXCEPT ![t].provider = p]
          /\ jobs' = [jobs EXCEPT ![j] = IF good THEN Borrowing([jobs[j] EXCEPT !.plan = id], p, q)
                                         ELSE Done([jobs[j] EXCEPT !.plan = id], "STOPPED")]
    BY <1>1 DEF ServeViewOnly, Serves
  <2> HIDE DEF p, q, good, state
  <2> DEFINE base == [jobs[j] EXCEPT !.plan = id]
             job == IF good THEN Borrowing(base, p, q) ELSE Done(base, "STOPPED")
  <2>2. DOMAIN base = JobFields /\ base.op = "VIEW_ONLY"
    BY <2>1 DEF ShapeInv, JobShape, JobFields
  <2>3. jobs' = [jobs EXCEPT ![j] = job]
    BY <2>1
  <2> HIDE DEF base
  <2>4. job.op = "VIEW_ONLY"
    BY <2>2, BorrowingFields, DoneFields
  <2> HIDE DEF job
  <2>5. JobsGo /\ DOMAIN jobs' = 1..MaxJobs
    BY <2>1, <2>3, <2>4, OneGoes DEF Plans, HasRevised
  <2>6. SessionsForget
    <3> DEFINE settled == Settled(t, id, state)
    <3>1. \A u \in 1..MaxSessions : /\ settled[u].education = sessions[u].education
                                    /\ DOMAIN settled[u] = SessionFields
      BY DEF ShapeInv, Settled, SessionFields
    <3>2. DOMAIN settled = 1..MaxSessions /\ sessions' = [settled EXCEPT ![t].provider = p]
      BY <2>1 DEF ShapeInv, Settled
    <3> HIDE DEF settled
    <3> QED BY <3>1, <3>2 DEF SessionsForget, SessionFields
  <2> QED BY <2>5, <2>6
<1>2. CASE LeaseEnds(j)
  <2>1. /\ jobs[j].step = "LEASE"
        /\ \/ Answered(j, "LIVE") /\ sessions' = Settled(jobs[j].session, jobs[j].plan, "COMPLETED")
           \/ jobs' = [jobs EXCEPT ![j] = Without(jobs[j])] /\ UNCHANGED sessions
    BY <1>2 DEF LeaseEnds
  <2> QED BY <2>1, OneAnswered, OneWithout, PlansElsewhere, SessionsAsBefore
<1> QED BY <1>1, <1>2

LEMMA TimePlans ==
  ASSUME ShapeInv, PreparedInv, TimerFires \/ Tick \/ ClockBack \/ Stop \/ UNCHANGED vars
  PROVE  JobsGo /\ DOMAIN jobs' = 1..MaxJobs /\ SessionsForget
<1>1. UNCHANGED jobs
  BY DEF TimerFires, Tick, ClockBack, Stop, vars
<1>2. JobsGo /\ DOMAIN jobs' = 1..MaxJobs
  <2>1. PreparedInv'
    BY <1>1 DEF PreparedInv
  <2> QED BY <1>1, <2>1 DEF JobsGo, ShapeInv
<1>3. CASE TimerFires \/ Tick \/ ClockBack \/ UNCHANGED vars
  <2>1. UNCHANGED sessions
    BY <1>3 DEF TimerFires, Tick, ClockBack, vars
  <2> QED BY <1>2, <2>1, SessionsAsBefore
<1>4. CASE Stop
  <2> DEFINE kept == Disposed(sessions, Live(sessions))
  <2>1. \A t \in 1..MaxSessions : kept[t].education \in {sessions[t].education, <<>>}
    BY DisposedForget
  <2>2. sessions' = kept
    BY <1>4 DEF Stop
  <2> HIDE DEF kept
  <2> QED BY <1>2, <2>1, <2>2 DEF SessionsForget
<1> QED BY <1>3, <1>4

(* A plan is asked for: its facts are there at once, or asked for.            *)
LEMMA SnapshotsPlan ==
  ASSUME ShapeInv, PreparedInv, NEW j \in 1..MaxJobs, jobs[j].step = "BODY",
         NEW job, DOMAIN job = JobFields, Plans(job), job.result = "NONE", job.at \in Int,
         InputHolds(job.input), Snapshots(j, job)
  PROVE  JobsGo /\ DOMAIN jobs' = 1..MaxJobs
<1>1. PICK p, q : jobs' = [jobs EXCEPT ![j] = Snapshotting(job, p, q)]
  BY DEF Snapshots
<1> DEFINE next == Snapshotting(job, p, q)
<1>2. Prepared(Without(job)) /\ Without(job).result = "NONE"
  BY WithoutPrepared, WithoutFields
<1>3. CASE job.source = "fixture"
  <2>1. next = [job EXCEPT !.step = "FACTS", !.facts = FixtureFacts(job)]
    BY <1>3 DEF Snapshotting
  <2>2. DOMAIN FixtureFacts(job) = DOMAIN job.input.rows /\ IsFiniteSet(DOMAIN job.input.rows)
        /\ \A i \in DOMAIN FixtureFacts(job) : FixtureFacts(job)[i] = job.at
    BY InputIsFinite DEF FixtureFacts
  <2> HIDE DEF next
  <2>3. /\ next.step = "FACTS" /\ next.facts = FixtureFacts(job) /\ next.input = job.input
        /\ next.at = job.at /\ next.result = "NONE"
    BY <2>1 DEF JobFields
  <2>4. Prepared(next)
    BY <2>2, <2>3 DEF Prepared
  <2> QED BY <1>1, <2>3, <2>4, OneGoes DEF next, HasRevised
<1>4. CASE job.source # "fixture"
  <2>1. next = Without(job) \/ next = [job EXCEPT !.step = "CHECK", !.provider = p, !.gen = q.gen]
    BY <1>4 DEF Snapshotting, Borrowing
  <2> HIDE DEF next
  <2>2. CASE next = Without(job)
    BY <1>1, <1>2, <2>2, OneGoes DEF next, HasRevised
  <2>3. CASE next = [job EXCEPT !.step = "CHECK", !.provider = p, !.gen = q.gen]
    <3>1. /\ next.step = "CHECK" /\ next.input = job.input /\ next.at = job.at
          /\ next.result = "NONE"
      BY <2>3 DEF JobFields
    <3>2. Prepared(next)
      BY <3>1 DEF Prepared
    <3> QED BY <1>1, <3>1, <3>2, OneGoes DEF next, HasRevised
  <2> QED BY <2>1, <2>2, <2>3
<1> QED BY <1>3, <1>4

LEMMA EducationAsked ==
  ASSUME ShapeInv, ResultInv, ClockInv, PreparedInv, NEW j \in 1..MaxJobs,
         ServeEducation(j) \/ ServeRevise(j)
  PROVE  JobsGo /\ DOMAIN jobs' = 1..MaxJobs /\ SessionsForget
<1>1. /\ jobs[j].step = "BODY" /\ jobs[j].op \in {"EDUCATION", "REVISE"} /\ UNCHANGED sessions
      /\ jobs[j].result = "NONE" /\ DOMAIN jobs[j] = JobFields
  BY DEF ServeEducation, ServeRevise, Serves, ResultInv, ShapeInv, JobShape
<1>2. \A input \in visit.inputs : InputHolds(input)
  BY VisitAssumption DEF ShapeInv, InputHolds
<1>3. PICK now \in Int : now = Wall
  BY WallIsTime
<1>4. CASE ServeEducation(j)
  <2>1. PICK input \in visit.inputs, source \in visit.sources :
          Snapshots(j, [jobs[j] EXCEPT !.input = input, !.source = source, !.at = now])
    BY <1>3, <1>4 DEF ServeEducation
  <2> DEFINE job == [jobs[j] EXCEPT !.input = input, !.source = source, !.at = now]
  <2>2. /\ DOMAIN job = JobFields /\ job.op = jobs[j].op /\ job.result = jobs[j].result
        /\ job.input = input /\ job.at = now
    BY <1>1 DEF JobFields
  <2>3. Snapshots(j, job)
    BY <2>1
  <2> HIDE DEF job
  <2> QED BY <1>1, <1>2, <1>3, <2>2, <2>3, SnapshotsPlan, SessionsAsBefore DEF Plans
<1>5. CASE ServeRevise(j)
  <2>0. PICK input \in visit.inputs : \E id, revision, source :
          Snapshots(j, [jobs[j] EXCEPT !.input = input, !.plan = id, !.revision = revision,
                                       !.at = now, !.source = source])
    BY <1>3, <1>5 DEF ServeRevise
  <2>1. PICK id, revision, source :
          Snapshots(j, [jobs[j] EXCEPT !.input = input, !.plan = id, !.revision = revision,
                                       !.at = now, !.source = source])
    BY <2>0
  <2> DEFINE job == [jobs[j] EXCEPT !.input = input, !.plan = id, !.revision = revision,
                                    !.at = now, !.source = source]
  <2>2. /\ DOMAIN job = JobFields /\ job.op = jobs[j].op /\ job.result = jobs[j].result
        /\ job.input = input /\ job.at = now
    BY <1>1 DEF JobFields
  <2>3. Snapshots(j, job)
    BY <2>1
  <2> HIDE DEF job
  <2> QED BY <1>1, <1>2, <1>3, <2>2, <2>3, SnapshotsPlan, SessionsAsBefore DEF Plans
<1> QED BY <1>4, <1>5

LEMMA FactsCome ==
  ASSUME ShapeInv, ResultInv, PreparedInv, NEW j \in 1..MaxJobs, FactsEnd(j)
  PROVE  JobsGo /\ DOMAIN jobs' = 1..MaxJobs /\ SessionsForget
<1>1. /\ jobs[j].step = "LEASE" /\ jobs[j].op \notin Checks /\ UNCHANGED sessions
      /\ \/ jobs' = [jobs EXCEPT ![j] = Without(jobs[j])]
         \/ \E facts \in [DOMAIN jobs[j].input.rows -> visit.observed] :
              jobs' = [jobs EXCEPT ![j] = [Without(jobs[j]) EXCEPT !.facts = facts]]
  BY DEF FactsEnd
<1>2. SessionsForget
  BY <1>1, SessionsAsBefore
<1>3. CASE jobs' = [jobs EXCEPT ![j] = Without(jobs[j])]
  BY <1>1, <1>2, <1>3, OneWithout
<1>4. ASSUME NEW facts \in [DOMAIN jobs[j].input.rows -> visit.observed],
             jobs' = [jobs EXCEPT ![j] = [Without(jobs[j]) EXCEPT !.facts = facts]]
      PROVE  JobsGo /\ DOMAIN jobs' = 1..MaxJobs
  <2> DEFINE bare == Without(jobs[j])
             job == [bare EXCEPT !.facts = facts]
  <2>1. DOMAIN jobs[j] = JobFields /\ jobs[j].result = "NONE"
    BY <1>1 DEF ShapeInv, JobShape, ResultInv
  <2>2. DOMAIN bare = JobFields /\ bare.op = jobs[j].op /\ bare.result = "NONE" /\ bare.step = "FACTS"
    BY <1>1, <2>1, WithoutFields
  <2>3. bare.input = jobs[j].input /\ bare.at = jobs[j].at
    BY <2>1 DEF Without, JobFields
  <2> HIDE DEF bare
  <2>4. /\ job.op = jobs[j].op /\ job.result = "NONE" /\ job.step = "FACTS" /\ job.facts = facts
        /\ job.input = jobs[j].input /\ job.at = jobs[j].at
    BY <2>2, <2>3 DEF JobFields
  <2>5. jobs' = [jobs EXCEPT ![j] = job]
    BY <1>4 DEF bare
  <2> HIDE DEF job
  <2>6. visit.observed \subseteq Int
    BY VisitAssumption DEF ShapeInv
  <2>7. Plans(job) => Prepared(job)
    <3> SUFFICES ASSUME Plans(job) PROVE Prepared(job)
      OBVIOUS
    <3>1. InputHolds(jobs[j].input) /\ jobs[j].at \in Int
      BY <1>1, <2>4 DEF PreparedInv, Plans, Prepared
    <3>2. /\ DOMAIN facts = DOMAIN jobs[j].input.rows /\ IsFiniteSet(DOMAIN facts)
          /\ \A i \in DOMAIN facts : facts[i] \in Int
      BY <2>6, <3>1, InputIsFinite
    <3> QED BY <2>4, <3>1, <3>2 DEF Prepared
  <2> QED BY <1>1, <2>4, <2>5, <2>7, OneGoes DEF HasRevised
<1> QED BY <1>1, <1>2, <1>3, <1>4

(* The facts of a snapshot are dated by the request.                          *)
LEMMA SnapshotOfDates ==
  ASSUME NEW job, Prepared(job), job.step = "FACTS"
  PROVE  DatesHold(SnapshotOf(job))
<1> DEFINE request == [source |-> job.source, evaluated |-> job.at, marketAge |-> MarketAge,
                       educationAge |-> EducationAge, products |-> Products(job.input),
                       facts |-> [i \in DOMAIN job.facts |-> Fact(job, i)]]
<1>1. SnapshotOf(job) = Snapshot(request)
  BY DEF SnapshotOf
<1>2. /\ request.marketAge = MarketAge /\ request.educationAge = EducationAge
      /\ DOMAIN request.facts = DOMAIN job.facts /\ DOMAIN request.products = DOMAIN job.input.rows
      /\ \A i \in DOMAIN job.facts : request.facts[i].observed = job.facts[i]
  BY DEF Products, Fact
<1> HIDE DEF request
<1>3. /\ IsFiniteSet(DOMAIN job.facts) /\ IsFiniteSet(DOMAIN job.input.rows)
      /\ \A i \in DOMAIN job.facts : job.facts[i] \in Int
  BY InputIsFinite DEF Prepared
<1>4. DatesHold(Snapshot(request))
  BY <1>2, <1>3, SnapshotDates
<1> QED BY <1>1, <1>4

(* One entry of a session changes, and does not go back.                      *)
Replacing(t, i, entry) ==
  /\ t \in 1..MaxSessions /\ i \in DOMAIN Entries(t) /\ EntryHolds(entry)
  /\ entry.id = Entries(t)[i].id /\ entry.current >= Entries(t)[i].current
  /\ sessions' = [sessions EXCEPT ![t].education = [Entries(t) EXCEPT ![i] = entry]]

NothingForgotten ==
  \A id : \A r \in Nat : \A u \in 1..MaxSessions : Behind(id, r, u) => Behind(id, r, u)'

LEMMA ReplaceKeeps ==
  ASSUME ShapeInv, EntriesInv, \A k \in 1..MaxJobs : jobs[k].step = "DONE" => jobs'[k] = jobs[k],
         NEW t, NEW i, NEW entry, Replacing(t, i, entry)
  PROVE  /\ EntriesInv' /\ NothingForgotten
         /\ DOMAIN sessions'[t].education = DOMAIN Entries(t) /\ sessions'[t].education[i] = entry
<1> DEFINE old == Entries(t)
           next == [old EXCEPT ![i] = entry]
<1>0. /\ t \in 1..MaxSessions /\ i \in DOMAIN old /\ EntryHolds(entry)
      /\ entry.id = old[i].id /\ entry.current >= old[i].current
      /\ sessions' = [sessions EXCEPT ![t].education = next]
  BY DEF Replacing
<1>1. /\ EntriesHold(old) /\ Len(old) <= MaxEducational
      /\ \A k \in DOMAIN old : PlannedIn(old[k].id, t) /\ old[k].current \in Nat
  BY <1>0 DEF EntriesInv, EntriesHold, EntryHolds
<1>2. /\ EntriesHold(next) /\ DOMAIN next = DOMAIN old /\ Len(next) = Len(old)
      /\ next[i] = entry /\ \A k \in DOMAIN old : k # i => next[k] = old[k]
  <2> HIDE DEF old
  <2> QED BY <1>0, <1>1, EntryReplaced DEF old
<1>3. sessions'[t].education = next
      /\ \A u \in 1..MaxSessions : u # t => sessions'[u].education = sessions[u].education
  BY <1>0 DEF ShapeInv, SessionFields
<1> HIDE DEF next
<1>4. \A k \in DOMAIN old : /\ next[k].id = old[k].id /\ next[k].current >= old[k].current
                            /\ next[k].current \in Nat
  BY <1>0, <1>1, <1>2 DEF EntryHolds
<1>5. \A id, u : PlannedIn(id, u) => PlannedIn(id, u)'
  BY PlannedKept
<1>6. EntriesInv'
  <2> SUFFICES ASSUME NEW u \in 1..MaxSessions
               PROVE  /\ EntriesHold(sessions'[u].education) /\ Len(sessions'[u].education) <= MaxEducational
                      /\ \A k \in DOMAIN sessions'[u].education :
                           PlannedIn(sessions[u].education[k].id, u)'
    BY DEF EntriesInv, Entries
  <2>1. CASE u = t
    <3>1. ASSUME NEW k \in DOMAIN old PROVE PlannedIn(sessions[u].education[k].id, u)'
      <4> PICK id : id = old[k].id
        OBVIOUS
      <4>1. PlannedIn(id, u)'
        BY <1>1, <1>5, <2>1
      <4>2. sessions'[u].education[k].id = id
        BY <1>3, <1>4, <2>1
      <4> QED BY <4>1, <4>2
    <3> QED BY <1>1, <1>2, <1>3, <2>1, <3>1
  <2>2. CASE u # t
    <3>1. ASSUME NEW k \in DOMAIN Entries(u) PROVE PlannedIn(sessions[u].education[k].id, u)'
      <4> PICK id : id = Entries(u)[k].id
        OBVIOUS
      <4>1. PlannedIn(id, u)'
        BY <1>5 DEF EntriesInv
      <4> QED BY <1>3, <2>2, <4>1 DEF Entries
    <3> QED BY <1>3, <2>2, <3>1 DEF EntriesInv, Entries
  <2> QED BY <2>1, <2>2
<1>7. ASSUME NEW id, NEW r \in Nat, NEW u \in 1..MaxSessions, Behind(id, r, u)
      PROVE  Behind(id, r, u)'
  <2>1. CASE u = t
    <3>1. \A k \in DOMAIN old : old[k].id = id => old[k].current > r
      BY <1>7, <2>1 DEF Behind
    <3>2. \A k \in DOMAIN next : next[k].id = id => next[k].current > r
      BY <1>1, <1>2, <1>4, <3>1
    <3> QED BY <1>3, <2>1, <3>2 DEF Behind, Entries
  <2>2. CASE u # t
    BY <1>3, <1>7, <2>2 DEF Behind, Entries
  <2> QED BY <2>1, <2>2
<1> QED BY <1>2, <1>3, <1>6, <1>7 DEF NothingForgotten

(* What was revised stays so.                                                 *)
LEMMA RevisedKept ==
  ASSUME ShapeInv, RevisedInv, \A k \in 1..MaxJobs : jobs[k].step = "DONE" => jobs'[k] = jobs[k],
         NEW k \in 1..MaxJobs, HasRevised(jobs[k]), jobs'[k] = jobs[k],
         \A id : \A r \in Nat : \A u \in 1..MaxSessions :
           PlannedIn(id, u) /\ Behind(id, r, u) => Behind(id, r, u)'
  PROVE  /\ PlannedIn(jobs[k].plan, jobs[k].session)'
         /\ jobs'[k].revision \in Nat
         /\ Behind(jobs[k].plan, jobs[k].revision, jobs[k].session)'
<1> PICK id, u, r : id = jobs[k].plan /\ u = jobs[k].session /\ r = jobs[k].revision
  OBVIOUS
<1>1. PlannedIn(id, u) /\ r \in Nat /\ Behind(id, r, u)
  BY DEF RevisedInv
<1>2. u \in 1..MaxSessions
  BY DEF HasRevised, ShapeInv, JobShape
<1>3. PlannedIn(id, u)' /\ Behind(id, r, u)'
  BY <1>1, <1>2, PlannedKept
<1> QED BY <1>1, <1>3

LEMMA EducationSaved ==
  ASSUME ShapeInv, ResultInv, EducationInv, NEW j \in 1..MaxJobs, SaveEducation(j)
  PROVE  EducationInv'
<1> DEFINE t == jobs[j].session
           snapshot == SnapshotOf(jobs[j])
           plan == Plan(jobs[j].input, snapshot, 1, jobs[j].at, jobs[j].at)
           old == Entries(t)
           next == WithPlan(old, j, plan)
<1>1. /\ jobs[j].step = "FACTS" /\ jobs[j].op = "EDUCATION" /\ Answered(j, "OK")
      /\ sessions' = [sessions EXCEPT ![t].education = next]
  BY DEF SaveEducation, Entries
<1>2. t \in 1..MaxSessions
  BY <1>1 DEF ShapeInv, JobShape
<1>3. DatesHold(snapshot) /\ InputHolds(jobs[j].input)
  BY <1>1, SnapshotOfDates DEF EducationInv, PreparedInv, Plans, Prepared
<1>4. /\ DOMAIN plan = PlanFields /\ plan.revision = 1 /\ plan.snapshot = snapshot
      /\ plan.invalidated = <<>> /\ LegsHold(plan)
  <2> PICK input, facts, at : input = jobs[j].input /\ facts = snapshot /\ at = jobs[j].at
    OBVIOUS
  <2> QED BY <1>3, PlanMade
<1>5. /\ EntriesHold(old) /\ \A i \in DOMAIN old : PlannedIn(old[i].id, t) /\ old[i].id # j
  BY <1>1, <1>2 DEF EducationInv, EntriesInv, PlannedIn
<1> HIDE DEF plan, snapshot
<1>6. /\ EntriesHold(next) /\ Len(next) <= MaxEducational
      /\ \A i \in DOMAIN next : next[i].id = j \/ \E k \in DOMAIN old : next[i] = old[k]
  <2> HIDE DEF old
  <2> QED BY <1>3, <1>4, <1>5, EntryAdded
<1>7. sessions'[t].education = next
      /\ \A u \in 1..MaxSessions : u # t => sessions'[u].education = sessions[u].education
  BY <1>1, <1>2 DEF ShapeInv, SessionFields
<1> HIDE DEF next
<1>8. JobsGo /\ DOMAIN jobs' = 1..MaxJobs
  BY <1>1, OneAnswered DEF EducationInv
<1>9. jobs'[j].op = "EDUCATION" /\ jobs'[j].step = "DONE" /\ jobs'[j].session = t
  BY <1>1, DoneFields DEF Answered, ShapeInv
<1>10. \A id, u : PlannedIn(id, u) => PlannedIn(id, u)' /\ id # j
  BY <1>1, <1>8, PlannedKept DEF JobsGo, PlannedIn
<1>11. EntriesInv'
  <2> SUFFICES ASSUME NEW u \in 1..MaxSessions
               PROVE  /\ EntriesHold(sessions'[u].education) /\ Len(sessions'[u].education) <= MaxEducational
                      /\ \A i \in DOMAIN sessions'[u].education :
                           PlannedIn(sessions[u].education[i].id, u)'
    BY DEF EntriesInv, Entries
  <2>1. CASE u = t
    <3>1. ASSUME NEW i \in DOMAIN next PROVE PlannedIn(sessions[u].education[i].id, u)'
      <4>1. CASE next[i].id = j
        BY <1>7, <1>9, <2>1, <4>1 DEF PlannedIn
      <4>2. ASSUME NEW k \in DOMAIN old, next[i] = old[k]
            PROVE  PlannedIn(sessions[u].education[i].id, u)'
        <5> PICK id : id = old[k].id
          OBVIOUS
        <5>1. PlannedIn(id, u)'
          BY <1>5, <1>10, <2>1
        <5> QED BY <1>7, <2>1, <4>2, <5>1
      <4> QED BY <1>6, <4>1, <4>2
    <3> QED BY <1>6, <1>7, <2>1, <3>1
  <2>2. CASE u # t
    <3>1. ASSUME NEW i \in DOMAIN Entries(u) PROVE PlannedIn(sessions[u].education[i].id, u)'
      <4> PICK id : id = Entries(u)[i].id
        OBVIOUS
      <4>1. PlannedIn(id, u)'
        BY <1>10 DEF EducationInv, EntriesInv
      <4> QED BY <1>7, <2>2, <4>1 DEF Entries
    <3> QED BY <1>7, <2>2, <3>1 DEF EducationInv, EntriesInv, Entries
  <2> QED BY <2>1, <2>2
<1>12. \A id : \A r \in Nat : \A u \in 1..MaxSessions :
         PlannedIn(id, u) /\ Behind(id, r, u) => Behind(id, r, u)'
  <2> SUFFICES ASSUME NEW id, NEW r \in Nat, NEW u \in 1..MaxSessions,
                      PlannedIn(id, u), Behind(id, r, u)
               PROVE  Behind(id, r, u)'
    OBVIOUS
  <2>1. CASE u = t
    <3>1. \A i \in DOMAIN next : next[i].id = id => next[i].current > r
      BY <1>6, <1>10, <2>1 DEF Behind
    <3> QED BY <1>7, <2>1, <3>1 DEF Behind, Entries
  <2>2. CASE u # t
    BY <1>7, <2>2 DEF Behind, Entries
  <2> QED BY <2>1, <2>2
<1>13. RevisedInv'
  <2> SUFFICES ASSUME NEW k \in 1..MaxJobs, HasRevised(jobs'[k])
               PROVE  /\ PlannedIn(jobs[k].plan, jobs[k].session)'
                      /\ jobs'[k].revision \in Nat
                      /\ Behind(jobs[k].plan, jobs[k].revision, jobs[k].session)'
    BY DEF RevisedInv, HasRevised
  <2>1. jobs'[k] = jobs[k] /\ HasRevised(jobs[k])
    BY <1>8 DEF JobsGo
  <2> QED BY <1>8, <1>12, <2>1, RevisedKept DEF EducationInv, JobsGo
<1>14. RevisionReplacedOnce'
  BY <1>8, OnceKept DEF EducationInv
<1> QED BY <1>8, <1>11, <1>13, <1>14 DEF EducationInv, JobsGo

LEMMA RevisionSaved ==
  ASSUME ShapeInv, ResultInv, EducationInv, NEW j \in 1..MaxJobs, SaveRevision(j)
  PROVE  EducationInv'
<1> DEFINE t == jobs[j].session
           id == jobs[j].plan
           revision == jobs[j].revision
           snapshot == SnapshotOf(jobs[j])
           old == Entries(t)
           found == StillRevised(old, id, revision)
<1>1. jobs[j].step = "FACTS" /\ jobs[j].op = "REVISE"
      /\ t \in 1..MaxSessions /\ DOMAIN jobs = 1..MaxJobs
  BY DEF SaveRevision, ShapeInv, JobShape
<1>2. CASE found = {}
  <2>1. Answered(j, "STALE") /\ UNCHANGED sessions
    BY <1>2 DEF SaveRevision
  <2>2. JobsGo /\ DOMAIN jobs' = 1..MaxJobs
    BY <1>1, <2>1, OneAnswered DEF EducationInv
  <2> QED BY <2>1, <2>2, ForgetKeeps, SessionsAsBefore
<1>3. CASE found # {}
  <2>1. PICK i \in found :
          sessions' = [sessions EXCEPT ![t].education =
                         Revised(old, i, jobs[j].input, snapshot, jobs[j].at)]
    BY <1>3 DEF SaveRevision, Entries
  <2>2. i \in DOMAIN old /\ old[i].id = id /\ old[i].current = revision
    BY DEF StillRevised, CurrentAt, EntryAt
  <2>3. jobs' = [jobs EXCEPT ![j] = Done(jobs[j], "OK")]
    BY <1>3 DEF SaveRevision, Answered
  <2> DEFINE plan == Edited(old[i].revisions[old[i].current].plan, jobs[j].input, snapshot, jobs[j].at)
             entry == RevisedEntry(old[i], plan)
  <2>4. Revised(old, i, jobs[j].input, snapshot, jobs[j].at) = [old EXCEPT ![i] = entry]
    BY DEF Revised, RevisedEntry, CurrentPlan
  <2>5. DatesHold(snapshot) /\ InputHolds(jobs[j].input)
    BY <1>1, SnapshotOfDates DEF EducationInv, PreparedInv, Plans, Prepared
  <2>6. /\ EntriesHold(old) /\ EntryHolds(old[i]) /\ PlannedIn(id, t)
        /\ old[i].current \in Nat
    BY <1>1, <2>2 DEF EducationInv, EntriesInv, EntriesHold, EntryHolds
  <2>7. EntryHolds(entry) /\ entry.id = id /\ entry.current = revision + 1
    <3> HIDE DEF snapshot
    <3> PICK was : was = old[i]
      OBVIOUS
    <3> PICK input, at : input = jobs[j].input /\ at = jobs[j].at
      OBVIOUS
    <3>1. EntryHolds(was) /\ was.id = id /\ was.current = revision /\ DatesHold(snapshot) /\ InputHolds(input)
      BY <2>2, <2>5, <2>6
    <3>2. entry = EditedEntry(was, input, snapshot, at)
      BY DEF EditedEntry
    <3> HIDE DEF entry
    <3>3. EntryHolds(was) /\ InputHolds(input) /\ DatesHold(snapshot)
      BY <3>1
    <3>4. EntryHolds(EditedEntry(was, input, snapshot, at))
      BY Zenon, <3>3, EditedEntryHolds
    <3>5. EditedEntry(was, input, snapshot, at).id = was.id
      BY <3>3, EditedEntryHolds
    <3>6. EditedEntry(was, input, snapshot, at).current = was.current + 1
      BY <3>3, EditedEntryHolds
    <3> QED BY <3>1, <3>2, <3>4, <3>5, <3>6
  <2> HIDE DEF entry, snapshot
  <2>8. jobs'[j] = Done(jobs[j], "OK") /\ \A k \in 1..MaxJobs : k # j => jobs'[k] = jobs[k]
    BY <1>1, <2>3
  <2>9. /\ jobs'[j].op = "REVISE" /\ jobs'[j].step = "DONE" /\ jobs'[j].result = "OK"
        /\ jobs'[j].plan = id /\ jobs'[j].revision = revision /\ jobs'[j].session = t
    BY <1>1, <2>8 DEF Done, NoJob
  <2>10. DOMAIN jobs' = 1..MaxJobs /\ \A k \in 1..MaxJobs : jobs[k].step = "DONE" => jobs'[k] = jobs[k]
    BY <1>1, <2>3, <2>8
  <2>11. /\ EntriesInv'
         /\ \A o : \A r \in Nat : \A u \in 1..MaxSessions : Behind(o, r, u) => Behind(o, r, u)'
         /\ DOMAIN sessions'[t].education = DOMAIN old /\ sessions'[t].education[i] = entry
    <3> PICK u \in 1..MaxSessions : u = t
      BY <1>1
    <3> PICK e : e = entry
      OBVIOUS
    <3>1. sessions' = [sessions EXCEPT ![u].education = [Entries(u) EXCEPT ![i] = e]]
      BY <2>1, <2>4
    <3>2. /\ i \in DOMAIN Entries(u) /\ e.id = Entries(u)[i].id /\ EntryHolds(e)
          /\ e.current >= Entries(u)[i].current
      BY <2>2, <2>6, <2>7
    <3>3. EntriesInv
      BY DEF EducationInv
    <3>4. old = Entries(u) /\ t = u
      OBVIOUS
    <3> HIDE DEF old, id, revision, t
    <3>5. Replacing(u, i, e)
      BY <3>1, <3>2 DEF Replacing
    <3>6. /\ EntriesInv' /\ NothingForgotten
          /\ DOMAIN sessions'[u].education = DOMAIN Entries(u) /\ sessions'[u].education[i] = e
      BY <2>10, <3>3, <3>5, ReplaceKeeps
    <3> QED BY <3>4, <3>6 DEF NothingForgotten
  <2>12. PreparedInv'
    BY <2>8, <2>9, <2>10 DEF EducationInv, PreparedInv, Plans, Prepared
  <2>13. PlannedIn(id, t)'
    <3> PICK o, u : o = id /\ u = t
      OBVIOUS
    <3>1. PlannedIn(o, u)'
      BY <2>6, <2>10, PlannedKept
    <3>2. o = jobs'[j].plan /\ u = jobs'[j].session
      BY <2>9
    <3> QED BY <3>1, <3>2
  <2>14. \A k \in DOMAIN sessions'[t].education :
            sessions'[t].education[k].id = id => sessions'[t].education[k].current > revision
    <3>1. EntriesHold(sessions'[t].education) /\ revision \in Nat
      BY <1>1, <2>2, <2>6, <2>11 DEF EntriesInv, Entries
    <3>2. \A k \in DOMAIN sessions'[t].education : sessions'[t].education[k].id = id => k = i
      BY <2>2, <2>7, <2>11, <3>1 DEF EntriesHold
    <3> QED BY <2>7, <2>11, <3>1, <3>2
  <2>15. RevisedInv'
    <3> SUFFICES ASSUME NEW k \in 1..MaxJobs, HasRevised(jobs'[k])
                 PROVE  /\ PlannedIn(jobs[k].plan, jobs[k].session)'
                        /\ jobs'[k].revision \in Nat
                        /\ Behind(jobs[k].plan, jobs[k].revision, jobs[k].session)'
      BY DEF RevisedInv, HasRevised
    <3>1. CASE k = j
      BY <2>2, <2>6, <2>9, <2>13, <2>14, <3>1 DEF Behind, Entries
    <3>2. CASE k # j
      BY <2>8, <2>10, <2>11, <3>2, RevisedKept DEF EducationInv
    <3> QED BY <3>1, <3>2
  <2>16. ASSUME NEW k \in 1..MaxJobs, HasRevised(jobs[k]), jobs[k].plan = id, jobs[k].revision = revision
         PROVE  FALSE
    <3>1. /\ PlannedIn(id, jobs[k].session) /\ revision \in Nat
          /\ Behind(id, revision, jobs[k].session)
      BY <2>16 DEF EducationInv, RevisedInv
    <3>2. jobs[k].session = t
      BY <2>6, <3>1 DEF PlannedIn
    <3> QED BY <2>2, <3>1, <3>2 DEF Behind
  <2>17. RevisionReplacedOnce'
    <3> SUFFICES ASSUME NEW k \in 1..MaxJobs, NEW l \in 1..MaxJobs,
                        HasRevised(jobs'[k]), HasRevised(jobs'[l]),
                        jobs'[k].plan = jobs'[l].plan, jobs'[k].revision = jobs'[l].revision
                 PROVE  k = l
      BY <2>10 DEF RevisionReplacedOnce, HasRevised
    <3>1. CASE k = j /\ l # j
      BY <2>8, <2>9, <2>16, <3>1
    <3>2. CASE k # j /\ l = j
      BY <2>8, <2>9, <2>16, <3>2
    <3>3. CASE k # j /\ l # j
      BY <1>1, <2>8, <3>3 DEF EducationInv, RevisionReplacedOnce, HasRevised
    <3> QED BY <3>1, <3>2, <3>3
  <2> QED BY <2>11, <2>12, <2>15, <2>17 DEF EducationInv
<1> QED BY <1>2, <1>3

(* A hand-off changes the current revision's record, and no number.           *)
LEMMA HandoffServed ==
  ASSUME ShapeInv, ResultInv, ClockInv, EducationInv, NEW j \in 1..MaxJobs, ServeHandoff(j)
  PROVE  EducationInv'
<1> DEFINE t == jobs[j].session
           old == Entries(t)
<1>1. jobs[j].step = "BODY" /\ jobs[j].op = "HANDOFF" /\ Answered(j, "OK")
      /\ t \in 1..MaxSessions
  BY DEF ServeHandoff, Serves, ShapeInv, JobShape
<1>2. PICK id, revision, side, leg, i :
        /\ i \in CurrentAt(old, id, revision) /\ HandoffOpen(old, i, leg)
        /\ sessions' = [sessions EXCEPT ![t].education = HandedOver(old, i, j, leg, side, Wall)]
  <2>1. PICK id \in EducationalPlans, revision \in 1..MaxJobs, side \in visit.sides :
          \E i \in CurrentAt(old, id, revision) : \E leg \in At(CurrentPlan(old, i).legs) :
            /\ HandoffOpen(old, i, leg)
            /\ sessions' = [sessions EXCEPT ![t].education = HandedOver(@, i, j, leg, side, Wall)]
    BY DEF ServeHandoff
  <2>2. PICK i \in CurrentAt(old, id, revision) :
          \E leg \in At(CurrentPlan(old, i).legs) :
            /\ HandoffOpen(old, i, leg)
            /\ sessions' = [sessions EXCEPT ![t].education = HandedOver(@, i, j, leg, side, Wall)]
    BY <2>1
  <2>3. PICK leg \in At(CurrentPlan(old, i).legs) :
          /\ HandoffOpen(old, i, leg)
          /\ sessions' = [sessions EXCEPT ![t].education = HandedOver(@, i, j, leg, side, Wall)]
    BY <2>2
  <2>4. sessions' = [sessions EXCEPT ![t].education = HandedOver(old, i, j, leg, side, Wall)]
    BY <2>3 DEF Entries
  <2> HIDE DEF t, old
  <2>5. i \in CurrentAt(old, id, revision) /\ HandoffOpen(old, i, leg)
    BY <2>2, <2>3
  <2> QED BY <2>4, <2>5
<1>3. PICK now \in Int : now = Wall
  BY WallIsTime
<1>4. i \in DOMAIN old /\ old[i].revisions[old[i].current].draft = <<>>
  BY <1>2 DEF CurrentAt, EntryAt, HandoffOpen
<1> DEFINE entry == HandedEntry(old[i], j, leg, side, now)
<1>5. EntryHolds(old[i]) /\ old[i].current \in Nat /\ j \in Nat \ {0}
  BY <1>1, <1>4, Bounds DEF EducationInv, EntriesInv, EntriesHold, EntryHolds
<1>6. HandedOver(old, i, j, leg, side, now) = [old EXCEPT ![i] = entry]
  BY <1>4 DEF HandedOver, HandedEntry, HandedRecord, CurrentPlan
<1>7. EntryHolds(entry) /\ entry.id = old[i].id /\ entry.current = old[i].current
  <2> PICK was : was = old[i]
    OBVIOUS
  <2>1. EntryHolds(was) /\ was.revisions[was.current].draft = <<>> /\ entry = HandedEntry(was, j, leg, side, now)
    BY <1>4, <1>5
  <2> HIDE DEF entry
  <2> QED BY <1>5, <2>1, HandedEntryHolds
<1> HIDE DEF entry
<1>8. JobsGo /\ DOMAIN jobs' = 1..MaxJobs
  BY <1>1, OneAnswered DEF EducationInv
<1>9. /\ EntriesInv'
      /\ \A o : \A r \in Nat : \A u \in 1..MaxSessions : Behind(o, r, u) => Behind(o, r, u)'
  <2>1. sessions' = [sessions EXCEPT ![t].education = [Entries(t) EXCEPT ![i] = entry]]
    BY <1>2, <1>3, <1>6
  <2>2. entry.current >= Entries(t)[i].current /\ entry.id = Entries(t)[i].id /\ i \in DOMAIN Entries(t)
    BY <1>4, <1>5, <1>7
  <2>3. Replacing(t, i, entry)
    BY <1>1, <1>7, <2>1, <2>2 DEF Replacing
  <2> HIDE DEF t, old
  <2> QED BY <1>8, <2>3, ReplaceKeeps DEF EducationInv, JobsGo, NothingForgotten
<1>10. RevisedInv'
  <2> SUFFICES ASSUME NEW k \in 1..MaxJobs, HasRevised(jobs'[k])
               PROVE  /\ PlannedIn(jobs[k].plan, jobs[k].session)'
                      /\ jobs'[k].revision \in Nat
                      /\ Behind(jobs[k].plan, jobs[k].revision, jobs[k].session)'
    BY DEF RevisedInv, HasRevised
  <2>1. jobs'[k] = jobs[k] /\ HasRevised(jobs[k])
    BY <1>8 DEF JobsGo
  <2> QED BY <1>8, <1>9, <2>1, RevisedKept DEF EducationInv, JobsGo
<1>11. RevisionReplacedOnce'
  BY <1>8, OnceKept DEF EducationInv
<1> QED BY <1>8, <1>9, <1>10, <1>11 DEF EducationInv, JobsGo

LEMMA EducationInit == Init => EducationInv
<1> SUFFICES ASSUME Init PROVE EducationInv
  OBVIOUS
<1>1. MaxJobs \in Nat /\ MaxSessions \in Nat
  BY Bounds
<1>2. \A j \in 1..MaxJobs : jobs[j].op = "NONE"
  BY NoJobFields DEF Init
<1>3. \A t \in 1..MaxSessions : Entries(t) = <<>>
  <2> DEFINE plans == [i \in 1..visit.mandates |-> [id |-> 100 + i, state |-> "AWAITING"]]
  <2>1. NewSession(clock).education = <<>> /\ NoSession.education = <<>>
        /\ "education" \in DOMAIN NewSession(clock)
    BY DEF NewSession, NoSession
  <2>2. [NewSession(clock) EXCEPT !.plans = plans].education = <<>>
    BY <2>1
  <2>3. \A t \in 1..MaxSessions : sessions[t] \in {[NewSession(clock) EXCEPT !.plans = plans], NoSession}
    BY DEF Init
  <2> HIDE DEF plans
  <2> QED BY <2>1, <2>2, <2>3 DEF Entries
<1>4. EntriesInv
  BY <1>3, NoEntries DEF EntriesInv
<1>5. PreparedInv /\ RevisedInv
  BY <1>2 DEF PreparedInv, Plans, RevisedInv, HasRevised
<1>6. RevisionReplacedOnce
  BY <1>2 DEF Init, RevisionReplacedOnce
<1> QED BY <1>4, <1>5, <1>6 DEF EducationInv

LEMMA EducationStep ==
  IInv /\ ConnectionInv /\ LendInv /\ EducationInv /\ [Next]_vars => EducationInv'
<1> SUFFICES ASSUME IInv, ConnectionInv, LendInv, EducationInv, [Next]_vars PROVE EducationInv'
  OBVIOUS
<1>1. ShapeInv /\ ResultInv /\ ClockInv /\ PreparedInv /\ DOMAIN jobs = 1..MaxJobs
  BY DEF IInv, ConnectionInv, LendInv, EducationInv, ShapeInv
<1> DEFINE Quiet == JobsGo /\ DOMAIN jobs' = 1..MaxJobs /\ SessionsForget
<1>2. Quiet => EducationInv'
  BY <1>1, ForgetKeeps
<1>3. ASSUME NEW j \in 1..MaxJobs,
             \/ Refuse(j) \/ AskOpen(j) \/ Ask(j) \/ BodyFails(j) \/ ServeOpen(j)
      PROVE  Quiet
  BY <1>1, <1>3, RequestsPlan
<1>4. ASSUME NEW j \in 1..MaxJobs,
             \/ ServeConnection(j) \/ ServeConnect(j) \/ ConnectVerified(j) \/ ConnectFails(j)
             \/ ServeDisconnect(j)
      PROVE  Quiet
  BY <1>1, <1>4, ConnectionsPlan
<1>5. ASSUME NEW j \in 1..MaxJobs, LeaseOpens(j) \/ CheckFails(j) \/ LeaseChecks(j) \/ LeaseFails(j)
      PROVE  Quiet
  BY <1>1, <1>5, LeasesPlan
<1>6. ASSUME NEW j \in 1..MaxJobs,
             \/ ServePlan(j) \/ PlanCompiled(j) \/ PlanRefused(j) \/ RefuseCheck(j)
             \/ ServeDryRun(j) \/ RunEnds(j) \/ RunFails(j)
      PROVE  Quiet
  BY <1>1, <1>6, MandatesPlan
<1>7. ASSUME NEW j \in 1..MaxJobs, ServeViewOnly(j) \/ LeaseEnds(j) PROVE Quiet
  BY <1>1, <1>7, ViewOnlyPlan
<1>8. ASSUME NEW j \in 1..MaxJobs, ServeEducation(j) \/ ServeRevise(j) PROVE Quiet
  BY <1>1, <1>8, EducationAsked
<1>9. ASSUME NEW j \in 1..MaxJobs, FactsEnd(j) PROVE Quiet
  BY <1>1, <1>9, FactsCome
<1>10. CASE TimerFires \/ Tick \/ ClockBack \/ Stop \/ UNCHANGED vars
  BY <1>1, <1>2, <1>10, TimePlans
<1>11. ASSUME NEW j \in 1..MaxJobs, SaveEducation(j) PROVE EducationInv'
  BY <1>1, <1>11, EducationSaved
<1>12. ASSUME NEW j \in 1..MaxJobs, SaveRevision(j) PROVE EducationInv'
  BY <1>1, <1>12, RevisionSaved
<1>13. ASSUME NEW j \in 1..MaxJobs, ServeHandoff(j) PROVE EducationInv'
  BY <1>1, <1>13, HandoffServed
<1> HIDE DEF Quiet
<1> QED BY <1>1, <1>2, <1>3, <1>4, <1>5, <1>6, <1>7, <1>8, <1>9, <1>10, <1>11, <1>12, <1>13 DEF Next

LEMMA EducationInvariant == Spec => []EducationInv
<1>1. Init => EducationInv
  BY EducationInit
<1>2. IInv /\ ConnectionInv /\ LendInv /\ EducationInv /\ [Next]_vars => EducationInv'
  BY EducationStep
<1> QED BY <1>1, <1>2, Invariant, ConnectionInvariant, LendInvariant, PTL DEF Spec

(* ------------------------------- the theorems ---------------------------- *)

LEMMA KeptOfEntry ==
  ASSUME EducationInv, NEW t \in 1..MaxSessions, NEW i \in DOMAIN Entries(t)
  PROVE  EntryHolds(Entries(t)[i])
  BY DEF EducationInv, EntriesInv, EntriesHold

(* Kept and dropped revisions are the largest up to the current one.          *)
LEMMA KnownRevisions ==
  ASSUME NEW c \in Nat \ {0}
  PROVE  /\ KeptOf(c) \cap DroppedOf(c) = {}
         /\ KeptOf(c) \cup DroppedOf(c) = Largest(MaxEducationalRevisions + MaxEducationalTombstones, 1..c)
<1>1. PICK n \in Nat : n = MaxEducationalRevisions + MaxEducationalTombstones
  BY EducationBounds
<1>2. Largest(n, 1..c) = {x \in 1..c : x > c - n}
  BY LargestOfInterval
<1>3. KeptOf(c) \subseteq 1..c /\ DroppedOf(c) \subseteq 1..c
  BY DEF KeptOf, DroppedOf
<1>4. ASSUME NEW x \in 1..c
      PROVE  /\ x \in KeptOf(c) \/ x \in DroppedOf(c) <=> x > c - n
             /\ ~(x \in KeptOf(c) /\ x \in DroppedOf(c))
  BY <1>1, EducationBounds DEF KeptOf, DroppedOf
<1>5. KeptOf(c) \cap DroppedOf(c) = {}
  BY <1>3, <1>4
<1>6. KeptOf(c) \cup DroppedOf(c) = {x \in 1..c : x > c - n}
  BY <1>3, <1>4
<1> QED BY <1>1, <1>2, <1>5, <1>6

(* A plan's revisions form one line: none is replaced twice, by two edits     *)
(* that waited for their facts together, and each up to the current one is    *)
(* kept or remembered as dropped (reviseEducationalSessionPlan,               *)
(* compactEducationalRevisions).                                              *)
THEOREM RevisionsAreKept == Spec => []RevisionsHold
<1>1. IInv /\ EducationInv => RevisionsHold
  <2> SUFFICES ASSUME IInv, EducationInv PROVE RevisionsHold
    OBVIOUS
  <2>1. DOMAIN sessions = 1..MaxSessions
    BY DEF IInv, ShapeInv
  <2>2. ASSUME NEW t \in 1..MaxSessions, NEW i \in DOMAIN Entries(t)
        PROVE  LET entry == Entries(t)[i]
                   known == DOMAIN entry.revisions \cup entry.tombs
               IN /\ entry.current \in DOMAIN entry.revisions
                  /\ DOMAIN entry.revisions \cap entry.tombs = {}
                  /\ known = Largest(MaxEducationalRevisions + MaxEducationalTombstones, 1..entry.current)
    <3> PICK entry : entry = Entries(t)[i]
      OBVIOUS
    <3>1. EntryHolds(entry)
      BY <2>2, KeptOfEntry
    <3> PICK c \in Nat \ {0} : c = entry.current
      BY <3>1 DEF EntryHolds
    <3>2. DOMAIN entry.revisions = KeptOf(c) /\ entry.tombs = DroppedOf(c)
      BY <3>1 DEF EntryHolds
    <3> QED BY <3>2, CurrentIsKept, KnownRevisions
  <2>3. RevisionsAccountedFor
    BY <2>1, <2>2 DEF RevisionsAccountedFor
  <2> QED BY <2>3 DEF RevisionsHold, EducationInv
<1> QED BY <1>1, Invariant, EducationInvariant, PTL

(* A draft was made while every market fact it rests on was fresh, and the    *)
(* drafts of earlier revisions are among those the current one names as       *)
(* invalid, as far back as it remembers (earliestTimestamp,                   *)
(* planSnapshotExpired, editEducationalPortfolioPlan).                        *)
THEOREM DraftsAreSound == Spec => []DraftsHold
<1>1. IInv /\ EducationInv => DraftsHold
  <2> SUFFICES ASSUME IInv, EducationInv PROVE DraftsHold
    OBVIOUS
  <2>1. DOMAIN sessions = 1..MaxSessions
    BY DEF IInv, ShapeInv
  <2>2. ASSUME NEW t \in 1..MaxSessions, NEW i \in DOMAIN Entries(t),
               NEW r \in DOMAIN Entries(t)[i].revisions
        PROVE  /\ RecordHolds(Entries(t)[i].revisions[r], r) /\ OldVoid(Entries(t)[i])
               /\ r \in KeptOf(Entries(t)[i].current)
    BY <2>2, KeptOfEntry DEF EntryHolds
  <2>3. DraftsAreFresh
    BY <2>1, <2>2 DEF DraftsAreFresh, KeptRevisions, RecordHolds
  <2>4. OldDraftsInvalid
    BY <2>1, <2>2 DEF OldDraftsInvalid, KeptRevisions, OldVoid, CurrentPlan
  <2> QED BY <2>3, <2>4 DEF DraftsHold
<1> QED BY <1>1, Invariant, EducationInvariant, PTL

(* The legs of a plan that may be edited use up its amount to within one unit *)
(* each, and those of no plan ask for more: what calculatedAllocation cuts    *)
(* off of each leg, whatever the amount and the weights, never adds up to a   *)
(* unit a leg (normalizeAllocations, calculatedAllocation).                   *)
THEOREM LegsAddUp == Spec => []LegsSumUp
<1>1. IInv /\ EducationInv => LegsSumUp
  <2> SUFFICES ASSUME IInv, EducationInv PROVE LegsSumUp
    OBVIOUS
  <2>1. DOMAIN sessions = 1..MaxSessions
    BY DEF IInv, ShapeInv
  <2>2. ASSUME NEW t \in 1..MaxSessions, NEW k \in KeptRevisions(t)
        PROVE  LegsHold(Entries(t)[k[1]].revisions[k[2]].plan)
    <3>1. PICK i \in DOMAIN Entries(t) : \E r \in DOMAIN Entries(t)[i].revisions : k = <<i, r>>
      BY <2>2 DEF KeptRevisions
    <3>2. PICK r \in DOMAIN Entries(t)[i].revisions : k = <<i, r>>
      BY <3>1
    <3>3. EntryHolds(Entries(t)[i])
      BY KeptOfEntry
    <3>4. RecordHolds(Entries(t)[i].revisions[r], r)
      BY <3>3 DEF EntryHolds
    <3> QED BY <3>2, <3>4 DEF RecordHolds
  <2> QED BY <2>1, <2>2 DEF LegsSumUp, LegsHold
<1> QED BY <1>1, Invariant, EducationInvariant, PTL

(* ------------------- what the server holds, and how much ------------------ *)

JobSteps == {"NONE", "BODY", "VERIFY", "CHECK", "LEASE", "COMPILE", "RUN", "FACTS", "DONE"}
JobTyped(job) == job.op \in Ops \cup {"NONE"} /\ job.step \in JobSteps
JobsTyped == \A j \in 1..MaxJobs : JobTyped(jobs[j])

SessionTyped(session) ==
  /\ session.status \in {"UNUSED", "LIVE", "GONE"}
  /\ session.seen \in Int /\ session.created \in Int
  /\ Len(session.plans) <= PlanLimit
SessionsTyped ==
  /\ \A t \in 1..MaxSessions : SessionTyped(sessions[t])
  /\ Cardinality(Live(sessions)) <= SessionLimit

(* The wall clock is never set back to before the visit.                      *)
TimeTyped == back <= visit.back /\ clock > visit.back /\ stopped \in BOOLEAN

TypeInv == JobsTyped /\ SessionsTyped /\ TimeTyped

LEMMA OneTyped ==
  ASSUME ShapeInv, JobsTyped, NEW j \in 1..MaxJobs, NEW job, jobs' = [jobs EXCEPT ![j] = job],
         JobTyped(job)
  PROVE  JobsTyped'
  BY DEF ShapeInv, JobsTyped, JobTyped

LEMMA AnsweredTyped ==
  ASSUME ShapeInv, JobsTyped, NEW j \in 1..MaxJobs, NEW answer, Answered(j, answer)
  PROVE  JobsTyped'
<1>1. jobs' = [jobs EXCEPT ![j] = Done(jobs[j], answer)]
  BY DEF Answered
<1>2. JobTyped(Done(jobs[j], answer))
  BY DoneFields DEF JobsTyped, JobTyped, JobSteps
<1> QED BY <1>1, <1>2, OneTyped

LEMMA WithoutTyped ==
  ASSUME NEW job, DOMAIN job = JobFields, JobTyped(job)
  PROVE  JobTyped(Without(job))
  BY WithoutFields DEF JobTyped, JobSteps

LEMMA BorrowingTyped ==
  ASSUME NEW job, DOMAIN job = JobFields, JobTyped(job), NEW p, NEW q
  PROVE  JobTyped(Borrowing(job, p, q))
<1>1. CASE Borrows(q)
  BY <1>1 DEF Borrowing, JobTyped, JobSteps, JobFields
<1>2. CASE ~Borrows(q)
  BY <1>2, WithoutTyped DEF Borrowing
<1> QED BY <1>1, <1>2

(* Requests are of a known kind, at a step their handler has.                 *)
LEMMA RequestsTyped ==
  ASSUME ShapeInv, JobsTyped, NEW j \in 1..MaxJobs,
         Refuse(j) \/ AskOpen(j) \/ Ask(j) \/ BodyFails(j) \/ ServeOpen(j)
  PROVE  JobsTyped'
<1>1. ASSUME NEW r \in Request(j)
      PROVE  r.op \in Ops /\ DOMAIN r = JobFields
  <2>1. r \in Asks /\ visit.ops \subseteq Ops
    BY VisitAssumption DEF Request, ShapeInv
  <2>2. PICK op \in visit.ops, t \in 1..MaxSessions : r = NewJob(op, t)
    BY <2>1 DEF Asks
  <2> QED BY <2>1, <2>2 DEF NewJob, NoJob, JobFields
<1>2. CASE Refuse(j)
  <2>1. PICK r \in Request(j) : jobs' = [jobs EXCEPT ![j] = Done(r, "BUSY")]
    BY <1>2 DEF Refuse
  <2>2. JobTyped(Done(r, "BUSY"))
    BY <1>1, DoneFields DEF JobTyped, JobSteps
  <2> QED BY <2>1, <2>2, OneTyped
<1>3. CASE AskOpen(j)
  <2>1. PICK r \in Request(j) : jobs' = [jobs EXCEPT ![j] = [r EXCEPT !.step = "BODY", !.session = 0]]
    BY <1>3 DEF AskOpen
  <2> DEFINE job == [r EXCEPT !.step = "BODY", !.session = 0]
  <2>2. JobTyped(job)
    BY <1>1 DEF JobTyped, JobSteps, JobFields
  <2> HIDE DEF job
  <2>3. jobs' = [jobs EXCEPT ![j] = job]
    BY <2>1 DEF job
  <2> QED BY <2>2, <2>3, OneTyped
<1>4. CASE Ask(j)
  <2>1. PICK r \in Request(j) : \/ jobs' = [jobs EXCEPT ![j] = [r EXCEPT !.step = "BODY"]]
                                \/ jobs' = [jobs EXCEPT ![j] = Done(r, "UNKNOWN")]
    BY <1>4 DEF Ask
  <2> DEFINE job == [r EXCEPT !.step = "BODY"]
             lost == Done(r, "UNKNOWN")
  <2>2. JobTyped(job)
    BY <1>1 DEF JobTyped, JobSteps, JobFields
  <2>3. JobTyped(lost)
    BY <1>1, DoneFields DEF JobTyped, JobSteps
  <2>4. jobs' = [jobs EXCEPT ![j] = job] \/ jobs' = [jobs EXCEPT ![j] = lost]
    BY <2>1
  <2> HIDE DEF job, lost
  <2> QED BY <2>2, <2>3, <2>4, OneTyped
<1>5. CASE BodyFails(j) \/ ServeOpen(j)
  BY <1>5, AnsweredTyped DEF BodyFails, ServeOpen
<1> QED BY <1>2, <1>3, <1>4, <1>5

LEMMA ConnectionsTyped ==
  ASSUME ShapeInv, JobsTyped, NEW j \in 1..MaxJobs,
         \/ ServeConnection(j) \/ ServeConnect(j) \/ ConnectVerified(j) \/ ConnectFails(j)
         \/ ServeDisconnect(j) \/ LeaseOpens(j) \/ CheckFails(j) \/ LeaseChecks(j)
         \/ LeaseFails(j) \/ LeaseEnds(j) \/ FactsEnd(j)
  PROVE  JobsTyped'
<1>1. DOMAIN jobs[j] = JobFields /\ JobTyped(jobs[j])
  BY DEF ShapeInv, JobShape, JobsTyped
<1>2. JobTyped(Without(jobs[j]))
  BY <1>1, WithoutTyped
<1>3. \A facts : JobTyped([Without(jobs[j]) EXCEPT !.facts = facts])
  <2> DEFINE bare == Without(jobs[j])
  <2>1. DOMAIN bare = JobFields /\ JobTyped(bare)
    BY <1>1, <1>2, WithoutFields
  <2> HIDE DEF bare
  <2>2. \A facts : JobTyped([bare EXCEPT !.facts = facts])
    BY <2>1 DEF JobTyped, JobFields
  <2> QED BY <2>2 DEF bare
<1>4. \A p, gen : JobTyped([jobs[j] EXCEPT !.step = "VERIFY", !.provider = p, !.gen = gen])
  BY <1>1 DEF JobTyped, JobSteps, JobFields
<1>5. \A by : JobTyped([jobs[j] EXCEPT !.step = "LEASE", !.by = by])
  BY <1>1 DEF JobTyped, JobSteps, JobFields
<1>6. CASE ServeConnection(j) \/ ConnectFails(j) \/ ServeDisconnect(j)
  BY <1>6, AnsweredTyped DEF ServeConnection, ConnectFails, ServeDisconnect
<1>7. CASE ConnectVerified(j)
  <2>1. \E answer : Answered(j, answer)
    BY <1>7 DEF ConnectVerified
  <2> QED BY <2>1, AnsweredTyped
<1>8. CASE ServeConnect(j)
  <2>1. PICK p, gen :
          jobs' = [jobs EXCEPT ![j] = [jobs[j] EXCEPT !.step = "VERIFY", !.provider = p, !.gen = gen]]
    BY <1>8 DEF ServeConnect
  <2> DEFINE job == [jobs[j] EXCEPT !.step = "VERIFY", !.provider = p, !.gen = gen]
  <2>2. jobs' = [jobs EXCEPT ![j] = job] /\ JobTyped(job)
    BY <1>4, <2>1
  <2> HIDE DEF job
  <2> QED BY <2>2, OneTyped
<1>9. CASE LeaseOpens(j)
  <2>1. PICK by :
          \/ jobs' = [jobs EXCEPT ![j] = [jobs[j] EXCEPT !.step = "LEASE", !.by = by]]
          \/ jobs' = [jobs EXCEPT ![j] = Without(jobs[j])]
    BY <1>9 DEF LeaseOpens
  <2> DEFINE job == [jobs[j] EXCEPT !.step = "LEASE", !.by = by]
  <2>2. \/ jobs' = [jobs EXCEPT ![j] = job] /\ JobTyped(job)
        \/ jobs' = [jobs EXCEPT ![j] = Without(jobs[j])]
    BY <1>5, <2>1
  <2> HIDE DEF job
  <2> QED BY <1>2, <2>2, OneTyped
<1>10. CASE CheckFails(j) \/ LeaseFails(j)
  BY <1>2, <1>10, OneTyped DEF CheckFails, LeaseFails
<1>11. CASE LeaseChecks(j)
  <2>1. \/ jobs' = [jobs EXCEPT ![j] = jobs[j]]
        \/ jobs' = [jobs EXCEPT ![j] = Without(jobs[j])]
    BY <1>11 DEF LeaseChecks
  <2> QED BY <1>1, <1>2, <2>1, OneTyped
<1>12. CASE LeaseEnds(j)
  <2>1. \/ Answered(j, "LIVE")
        \/ jobs' = [jobs EXCEPT ![j] = Without(jobs[j])]
    BY <1>12 DEF LeaseEnds
  <2> QED BY <1>2, <2>1, OneTyped, AnsweredTyped
<1>13. CASE FactsEnd(j)
  <2>1. \/ jobs' = [jobs EXCEPT ![j] = Without(jobs[j])]
        \/ \E facts : jobs' = [jobs EXCEPT ![j] = [Without(jobs[j]) EXCEPT !.facts = facts]]
    BY <1>13 DEF FactsEnd
  <2>2. ASSUME NEW facts, jobs' = [jobs EXCEPT ![j] = [Without(jobs[j]) EXCEPT !.facts = facts]]
        PROVE  JobsTyped'
    <3> DEFINE job == [Without(jobs[j]) EXCEPT !.facts = facts]
    <3>1. jobs' = [jobs EXCEPT ![j] = job] /\ JobTyped(job)
      BY <1>3, <2>2
    <3> HIDE DEF job
    <3> QED BY <3>1, OneTyped
  <2> QED BY <1>2, <2>1, <2>2, OneTyped
<1> QED BY <1>6, <1>7, <1>8, <1>9, <1>10, <1>11, <1>12, <1>13

LEMMA SnapshotsTyped ==
  ASSUME ShapeInv, JobsTyped, NEW j \in 1..MaxJobs, NEW job, DOMAIN job = JobFields, JobTyped(job),
         Snapshots(j, job)
  PROVE  JobsTyped'
<1>1. PICK p, q : jobs' = [jobs EXCEPT ![j] = Snapshotting(job, p, q)]
  BY DEF Snapshots
<1>2. JobTyped(Snapshotting(job, p, q))
  <2>1. CASE job.source = "fixture"
    BY <2>1 DEF Snapshotting, JobTyped, JobSteps, JobFields
  <2>2. CASE job.source # "fixture"
    BY <2>2, WithoutTyped, BorrowingTyped DEF Snapshotting
  <2> QED BY <2>1, <2>2
<1> QED BY <1>1, <1>2, OneTyped

LEMMA HandlersTyped ==
  ASSUME ShapeInv, JobsTyped, NEW j \in 1..MaxJobs,
         \/ ServePlan(j) \/ PlanCompiled(j) \/ PlanRefused(j) \/ RefuseCheck(j)
         \/ ServeDryRun(j) \/ ServeViewOnly(j) \/ RunEnds(j) \/ RunFails(j)
         \/ ServeEducation(j) \/ ServeRevise(j)
         \/ SaveEducation(j) \/ SaveRevision(j) \/ ServeHandoff(j)
  PROVE  JobsTyped'
<1>1. DOMAIN jobs[j] = JobFields /\ JobTyped(jobs[j])
  BY DEF ShapeInv, JobShape, JobsTyped
<1>2. CASE PlanCompiled(j) \/ PlanRefused(j) \/ RefuseCheck(j) \/ RunFails(j)
  BY <1>2, AnsweredTyped DEF PlanCompiled, PlanRefused, RefuseCheck, RunFails
<1>3. CASE RunEnds(j) \/ SaveEducation(j) \/ SaveRevision(j) \/ ServeHandoff(j)
  <2>1. \E answer : Answered(j, answer)
    BY <1>3 DEF RunEnds, SaveEducation, SaveRevision, ServeHandoff
  <2> QED BY <2>1, AnsweredTyped
<1>4. CASE ServePlan(j)
  <2> DEFINE job == [jobs[j] EXCEPT !.step = "COMPILE"]
  <2>1. JobTyped(job)
    BY <1>1 DEF JobTyped, JobSteps, JobFields
  <2>2. jobs' = [jobs EXCEPT ![j] = job]
    BY <1>4 DEF ServePlan
  <2> HIDE DEF job
  <2> QED BY <2>1, <2>2, OneTyped
<1>5. CASE ServeDryRun(j)
  <2>1. PICK id : jobs' = [jobs EXCEPT ![j] = [jobs[j] EXCEPT !.step = "RUN", !.plan = id]]
    BY <1>5 DEF ServeDryRun
  <2> DEFINE job == [jobs[j] EXCEPT !.step = "RUN", !.plan = id]
  <2>2. JobTyped(job)
    BY <1>1 DEF JobTyped, JobSteps, JobFields
  <2>3. jobs' = [jobs EXCEPT ![j] = job]
    BY <2>1
  <2> HIDE DEF job
  <2> QED BY <2>2, <2>3, OneTyped
<1>6. CASE ServeViewOnly(j)
  <2> DEFINE p == ProviderFor(jobs[j].session)
             q == Current(Provided(jobs[j].session)[p], Wall)
             good == ClockHolds(Provided(jobs[j].session)[p], Wall)
  <2>1. PICK id : jobs' = [jobs EXCEPT ![j] =
                             IF good THEN Borrowing([jobs[j] EXCEPT !.plan = id], p, q)
                             ELSE Done([jobs[j] EXCEPT !.plan = id], "STOPPED")]
    BY <1>6 DEF ServeViewOnly
  <2> HIDE DEF p, q, good
  <2> DEFINE job == [jobs[j] EXCEPT !.plan = id]
  <2>2. DOMAIN job = JobFields /\ JobTyped(job)
    BY <1>1 DEF JobTyped, JobFields
  <2>3. \/ jobs' = [jobs EXCEPT ![j] = Borrowing(job, p, q)]
        \/ jobs' = [jobs EXCEPT ![j] = Done(job, "STOPPED")]
    BY <2>1
  <2> HIDE DEF job
  <2>4. JobTyped(Borrowing(job, p, q)) /\ JobTyped(Done(job, "STOPPED"))
    BY <2>2, BorrowingTyped, DoneFields DEF JobTyped, JobSteps
  <2> QED BY <2>3, <2>4, OneTyped
<1>7. CASE ServeEducation(j)
  <2>1. PICK input, source, at :
          Snapshots(j, [jobs[j] EXCEPT !.input = input, !.source = source, !.at = at])
    BY <1>7 DEF ServeEducation
  <2> DEFINE job == [jobs[j] EXCEPT !.input = input, !.source = source, !.at = at]
  <2>2. DOMAIN job = JobFields /\ JobTyped(job)
    BY <1>1 DEF JobTyped, JobFields
  <2>3. Snapshots(j, job)
    BY <2>1
  <2> HIDE DEF job
  <2> QED BY <2>2, <2>3, SnapshotsTyped
<1>8. CASE ServeRevise(j)
  <2>1. PICK input, id, revision, at, source :
          Snapshots(j, [jobs[j] EXCEPT !.input = input, !.plan = id, !.revision = revision,
                                       !.at = at, !.source = source])
    BY <1>8 DEF ServeRevise
  <2> DEFINE job == [jobs[j] EXCEPT !.input = input, !.plan = id, !.revision = revision,
                                    !.at = at, !.source = source]
  <2>2. DOMAIN job = JobFields /\ JobTyped(job)
    BY <1>1 DEF JobTyped, JobFields
  <2>3. Snapshots(j, job)
    BY <2>1
  <2> HIDE DEF job
  <2> QED BY <2>2, <2>3, SnapshotsTyped
<1> QED BY <1>2, <1>3, <1>4, <1>5, <1>6, <1>7, <1>8

(* Sessions but for the one opened: each stays what it is or is gone.         *)
SessionsStay ==
  /\ DOMAIN sessions' = 1..MaxSessions
  /\ \A t \in 1..MaxSessions :
       /\ SessionTyped(sessions'[t])
       /\ sessions'[t].status = "LIVE" => sessions[t].status = "LIVE"

LEMMA LiveFinite ==
  ASSUME NEW S, DOMAIN S = 1..MaxSessions
  PROVE  IsFiniteSet(Live(S)) /\ Cardinality(Live(S)) \in Nat
<1>1. 1 \in Int /\ MaxSessions \in Int
  BY Bounds
<1>2. IsFiniteSet(1..MaxSessions)
  BY <1>1, FS_Interval
<1>3. Live(S) \subseteq 1..MaxSessions
  BY DEF Live
<1>4. IsFiniteSet(Live(S))
  BY <1>2, <1>3, FS_Subset
<1> QED BY <1>4, FS_CardinalityType

LEMMA StayTyped == ASSUME ShapeInv, SessionsTyped, SessionsStay PROVE SessionsTyped'
<1>1. DOMAIN sessions = 1..MaxSessions /\ DOMAIN sessions' = 1..MaxSessions
  BY DEF ShapeInv, SessionsStay
<1>2. Live(sessions') \in SUBSET Live(sessions)
  BY <1>1 DEF Live, SessionsStay
<1>3. /\ IsFiniteSet(Live(sessions)) /\ Cardinality(Live(sessions)) \in Nat
      /\ Cardinality(Live(sessions')) \in Nat
  BY <1>1, LiveFinite
<1>4. Cardinality(Live(sessions')) <= Cardinality(Live(sessions))
  BY <1>2, <1>3, FS_Subset
<1>5. SessionLimit \in Nat
  BY SessionAssumption
<1>6. Cardinality(Live(sessions')) <= SessionLimit
  BY <1>3, <1>4, <1>5 DEF SessionsTyped
<1> QED BY <1>6 DEF SessionsTyped, SessionsStay

LEMMA SameStay == ASSUME ShapeInv, SessionsTyped, UNCHANGED sessions PROVE SessionsStay
  BY DEF ShapeInv, SessionsTyped, SessionsStay

LEMMA DisposedStay ==
  ASSUME ShapeInv, SessionsTyped, NEW gone, NEW kept, kept = Disposed(sessions, gone)
  PROVE  /\ DOMAIN kept = 1..MaxSessions
         /\ \A t \in 1..MaxSessions :
              /\ DOMAIN kept[t] = SessionFields /\ SessionTyped(kept[t])
              /\ kept[t].status = "LIVE" <=> sessions[t].status = "LIVE" /\ t \notin gone
<1> DEFINE none == [NoSession EXCEPT !.status = "GONE"]
<1>1. /\ none.status = "GONE" /\ none.seen = 0 /\ none.created = 0 /\ none.plans = <<>>
      /\ DOMAIN none = SessionFields
  BY DEF NoSession, SessionFields
<1>2. SessionTyped(none)
  BY <1>1, EmptyIsSeq, Bounds DEF SessionTyped
<1>3. kept = [t \in 1..MaxSessions |-> IF t \in gone THEN none ELSE sessions[t]]
  BY DEF Disposed, ShapeInv
<1> HIDE DEF none
<1> QED BY <1>1, <1>2, <1>3 DEF ShapeInv, SessionsTyped

(* One session changes, and is neither opened nor closed.                      *)
LEMMA OneStays ==
  ASSUME ShapeInv, SessionsTyped, NEW t, NEW session, sessions' = [sessions EXCEPT ![t] = session],
         t \in 1..MaxSessions => SessionTyped(session) /\ session.status = sessions[t].status
  PROVE  SessionsStay
  BY DEF ShapeInv, SessionsTyped, SessionsStay

LEMMA SettledStays ==
  ASSUME ShapeInv, SessionsTyped, NEW t, NEW id, NEW state \in States
  PROVE  LET next == Settled(t, id, state)
         IN /\ DOMAIN next = 1..MaxSessions
            /\ \A u \in 1..MaxSessions :
                 /\ DOMAIN next[u] = SessionFields /\ SessionTyped(next[u])
                 /\ next[u].status = sessions[u].status
<1> DEFINE next == Settled(t, id, state)
<1>1. /\ DOMAIN next = 1..MaxSessions
      /\ \A u \in 1..MaxSessions :
           /\ DOMAIN next[u] = SessionFields /\ next[u].plans \in Seq(Mandate)
           /\ DOMAIN next[u].plans = DOMAIN sessions[u].plans
  BY SettledPlans
<1>2. \A u \in 1..MaxSessions : /\ next[u].status = sessions[u].status
                                /\ next[u].seen = sessions[u].seen
                                /\ next[u].created = sessions[u].created
  BY DEF Settled, ShapeInv, SessionFields
<1> HIDE DEF next
<1>3. ASSUME NEW u \in 1..MaxSessions PROVE Len(next[u].plans) = Len(sessions[u].plans)
  <2>1. sessions[u].plans \in Seq(Mandate)
    BY DEF ShapeInv
  <2> PICK a, b \in Seq(Mandate) : a = next[u].plans /\ b = sessions[u].plans
    BY <1>1, <2>1
  <2>2. DOMAIN a = DOMAIN b /\ DOMAIN b = 1..Len(b) /\ Len(b) \in Nat /\ IsSeq(a)
    BY <1>1, SeqIsSeq
  <2>3. Len(a) = Len(b)
    BY <2>2, SeqLength
  <2> QED BY <2>3
<1>4. \A u \in 1..MaxSessions : SessionTyped(next[u])
  BY <1>2, <1>3 DEF SessionsTyped, SessionTyped
<1> QED BY <1>1, <1>2, <1>4 DEF next

(* rememberPlan keeps to the limit.                                           *)
LEMMA RememberIsBounded ==
  ASSUME NEW session, DOMAIN session = SessionFields, session.plans \in Seq(Mandate),
         Len(session.plans) <= PlanLimit, NEW plan \in Mandate
  PROVE  LET next == Remember(session, plan)
         IN /\ Len(next.plans) <= PlanLimit /\ next.status = session.status
            /\ next.seen = session.seen /\ next.created = session.created
<1> DEFINE old == session.plans
           from == Len(old) - PlanLimit + 2
           kept == IF Len(old) >= PlanLimit THEN SubSeq(old, from, Len(old)) ELSE old
           next == Remember(session, plan)
<1>1. /\ next.plans = Append(kept, plan) /\ next.status = session.status
      /\ next.seen = session.seen /\ next.created = session.created
  BY DEF Remember, SessionFields
<1>2. Len(old) \in Nat /\ old \in Seq(Mandate) /\ PlanLimit \in Nat \ {0}
  BY Bounds
<1> HIDE DEF old, next
<1>3. kept \in Seq(Mandate) /\ Len(kept) <= PlanLimit - 1
  <2>1. CASE Len(old) >= PlanLimit
    <3>1. from \in 1..(Len(old) + 1) /\ kept = SubSeq(old, from, Len(old)) /\ Len(old) = PlanLimit
      BY <1>2, <2>1 DEF old
    <3> HIDE DEF kept
    <3>2. kept \in Seq(Mandate) /\ Len(kept) = IF from <= Len(old) THEN Len(old) - from + 1 ELSE 0
      BY SMTT(20), <1>2, <3>1, SubSeqProperties
    <3> QED BY <1>2, <3>1, <3>2
  <2>2. CASE Len(old) < PlanLimit
    BY <1>2, <2>2
  <2> QED BY <1>2, <2>1, <2>2
<1> HIDE DEF kept
<1>4. Len(Append(kept, plan)) = Len(kept) + 1 /\ Len(kept) \in Nat
  BY <1>3, AppendProperties
<1>5. Len(next.plans) <= PlanLimit
  BY <1>1, <1>2, <1>3, <1>4
<1> QED BY <1>1, <1>5 DEF next

LEMMA SessionsStaySteps ==
  ASSUME ShapeInv, SessionsTyped, ClockInv, NEW j \in 1..MaxJobs,
         \/ Refuse(j) \/ AskOpen(j) \/ Ask(j) \/ BodyFails(j) \/ ServeConnection(j)
         \/ ServeConnect(j) \/ ConnectVerified(j) \/ ConnectFails(j) \/ ServeDisconnect(j)
         \/ LeaseOpens(j) \/ CheckFails(j) \/ LeaseChecks(j) \/ LeaseFails(j) \/ LeaseEnds(j)
         \/ ServePlan(j) \/ PlanCompiled(j) \/ PlanRefused(j)
         \/ RefuseCheck(j) \/ ServeDryRun(j) \/ ServeViewOnly(j) \/ RunEnds(j) \/ RunFails(j)
         \/ ServeEducation(j) \/ ServeRevise(j) \/ FactsEnd(j) \/ SaveEducation(j)
         \/ SaveRevision(j) \/ ServeHandoff(j)
  PROVE  SessionsStay
<1>0. /\ \A t \in 1..MaxSessions : DOMAIN sessions[t] = SessionFields /\ SessionTyped(sessions[t])
      /\ DOMAIN sessions = 1..MaxSessions
  BY DEF ShapeInv, SessionsTyped
<1>1. ASSUME UNCHANGED sessions PROVE SessionsStay
  BY <1>1, SameStay
<1>2. ASSUME NEW t, NEW x, \/ sessions' = [sessions EXCEPT ![t].education = x]
                           \/ sessions' = [sessions EXCEPT ![t].provider = x]
      PROVE  SessionsStay
  <2>1. PICK session : /\ sessions' = [sessions EXCEPT ![t] = session]
                       /\ \/ session = [sessions[t] EXCEPT !.education = x]
                          \/ session = [sessions[t] EXCEPT !.provider = x]
    BY <1>2
  <2>2. t \in 1..MaxSessions => SessionTyped(session) /\ session.status = sessions[t].status
    BY <1>0, <2>1 DEF SessionTyped, SessionFields
  <2> QED BY <2>1, <2>2, OneStays
<1>3. ASSUME NEW t, NEW id, NEW state \in States, sessions' = Settled(t, id, state)
      PROVE  SessionsStay
  <2>1. /\ DOMAIN sessions' = 1..MaxSessions
        /\ \A u \in 1..MaxSessions : /\ SessionTyped(sessions'[u])
                                     /\ sessions'[u].status = sessions[u].status
    BY <1>3, SettledStays
  <2> QED BY <2>1 DEF SessionsStay
<1>4. CASE \/ Refuse(j) \/ AskOpen(j) \/ BodyFails(j) \/ ServeConnection(j)
           \/ ConnectVerified(j) \/ ConnectFails(j) \/ ServeDisconnect(j)
           \/ LeaseOpens(j) \/ CheckFails(j) \/ LeaseChecks(j) \/ LeaseFails(j)
           \/ ServePlan(j) \/ PlanRefused(j) \/ RefuseCheck(j)
           \/ ServeEducation(j) \/ ServeRevise(j) \/ FactsEnd(j)
  <2>1. UNCHANGED sessions
    BY <1>4 DEF Refuse, AskOpen, BodyFails, ServeConnection, ConnectVerified, ConnectFails,
       ServeDisconnect, LeaseOpens, CheckFails, LeaseChecks, LeaseFails, ServePlan, PlanRefused,
       RefuseCheck, ServeEducation, ServeRevise, FactsEnd
  <2> QED BY <1>1, <2>1
<1>5. CASE ServeConnect(j) \/ SaveEducation(j) \/ SaveRevision(j) \/ ServeHandoff(j)
  <2>1. \/ UNCHANGED sessions
        \/ \E t, x : \/ sessions' = [sessions EXCEPT ![t].education = x]
                     \/ sessions' = [sessions EXCEPT ![t].provider = x]
    BY <1>5 DEF ServeConnect, SaveEducation, SaveRevision, ServeHandoff
  <2> QED BY <1>1, <1>2, <2>1
<1>6. CASE LeaseEnds(j) \/ ServeDryRun(j) \/ RunEnds(j) \/ RunFails(j)
  <2>1. \/ UNCHANGED sessions
        \/ \E t, id : \E state \in States : sessions' = Settled(t, id, state)
    BY <1>6 DEF LeaseEnds, ServeDryRun, RunEnds, RunFails, States
  <2> QED BY <1>1, <1>3, <2>1
<1>7. CASE ServeViewOnly(j)
  <2> DEFINE t == jobs[j].session
             p == ProviderFor(t)
             state == IF ClockHolds(Provided(t)[p], Wall) THEN "RUNNING" ELSE "STOPPED_SAFE"
  <2>1. PICK id : sessions' = [Settled(t, id, state) EXCEPT ![t].provider = p]
    BY <1>7 DEF ServeViewOnly
  <2>2. state \in States
    BY DEF States
  <2> HIDE DEF state, p
  <2> DEFINE after == Settled(t, id, state)
  <2>3. /\ DOMAIN after = 1..MaxSessions
        /\ \A u \in 1..MaxSessions : /\ DOMAIN after[u] = SessionFields /\ SessionTyped(after[u])
                                     /\ after[u].status = sessions[u].status
    BY <2>2, SettledStays
  <2>4. sessions' = [after EXCEPT ![t].provider = p]
    BY <2>1
  <2> HIDE DEF after
  <2>5. ASSUME NEW u \in 1..MaxSessions
        PROVE  SessionTyped(sessions'[u]) /\ sessions'[u].status = sessions[u].status
    BY <2>3, <2>4 DEF SessionTyped, SessionFields
  <2>6. DOMAIN sessions' = 1..MaxSessions
    BY <2>3, <2>4
  <2> QED BY <2>5, <2>6 DEF SessionsStay
<1>8. CASE PlanCompiled(j)
  <2>1. PICK state \in {"AWAITING", "NOT_AUTHORIZABLE"} :
          sessions' = [sessions EXCEPT ![jobs[j].session] =
                         Remember(sessions[jobs[j].session], [id |-> j, state |-> state])]
    BY <1>8 DEF PlanCompiled
  <2> PICK t, plan : t = jobs[j].session /\ plan = [id |-> j, state |-> state]
    OBVIOUS
  <2>2. plan \in Mandate
    BY Bounds DEF Mandate, States
  <2> DEFINE session == Remember(sessions[t], plan)
  <2>3. sessions' = [sessions EXCEPT ![t] = session]
    BY <2>1
  <2>4. ASSUME t \in 1..MaxSessions
        PROVE  SessionTyped(session) /\ session.status = sessions[t].status
    <3> PICK was : was = sessions[t]
      OBVIOUS
    <3>1. /\ DOMAIN was = SessionFields /\ was.plans \in Seq(Mandate) /\ Len(was.plans) <= PlanLimit
          /\ SessionTyped(was)
      BY <1>0, <2>4 DEF ShapeInv, SessionTyped
    <3>2. session = Remember(was, plan)
      OBVIOUS
    <3> HIDE DEF session
    <3> QED BY <2>2, <3>1, <3>2, RememberIsBounded DEF SessionTyped
  <2> HIDE DEF session
  <2> QED BY <2>3, <2>4, OneStays
<1>9. CASE Ask(j)
  <2> DEFINE kept == Disposed(sessions, Ended(sessions, Wall))
  <2>1. PICK t : sessions' = Touched(kept, t, Wall) \/ sessions' = kept
    BY <1>9 DEF Ask
  <2>2. /\ DOMAIN kept = 1..MaxSessions
        /\ \A u \in 1..MaxSessions :
             /\ DOMAIN kept[u] = SessionFields /\ SessionTyped(kept[u])
             /\ kept[u].status = "LIVE" => sessions[u].status = "LIVE"
    BY DisposedStay
  <2> HIDE DEF kept
  <2>3. PICK now \in Int : now = Wall
    BY WallIsTime
  <2>4. CASE sessions' = kept
    BY <2>2, <2>4 DEF SessionsStay
  <2>5. CASE sessions' = Touched(kept, t, Wall)
    <3>1. sessions' = [kept EXCEPT ![t].seen = now]
      BY <2>3, <2>5 DEF Touched
    <3>2. ASSUME NEW u \in 1..MaxSessions
          PROVE  SessionTyped(sessions'[u]) /\ sessions'[u].status = kept[u].status
      BY <2>2, <2>3, <3>1 DEF SessionTyped, SessionFields
    <3>3. DOMAIN sessions' = 1..MaxSessions
      BY <2>2, <3>1
    <3> QED BY <2>2, <3>2, <3>3 DEF SessionsStay
  <2> QED BY <2>1, <2>4, <2>5
<1> QED BY <1>4, <1>5, <1>6, <1>7, <1>8, <1>9

(* The session evicted is one of the live ones: of those seen least recently,  *)
(* one made first exists.                                                      *)
LEMMA StalestExists ==
  ASSUME NEW S, IsFiniteSet(Live(S)), Live(S) # {},
         \A t \in Live(S) : S[t].seen \in Int /\ S[t].created \in Int
  PROVE  \E t \in Live(S) : \A u \in Live(S) : Staler(S, t, u)
<1> PICK L : L = Live(S)
  OBVIOUS
<1> DEFINE seen == [t \in L |-> S[t].seen]
           made == [t \in L |-> S[t].created]
<1>1. \A t \in L : seen[t] \in Int /\ made[t] \in Int /\ seen[t] = S[t].seen /\ made[t] = S[t].created
  OBVIOUS
<1> HIDE DEF seen, made
<1>2. PICK m \in L : \A u \in L : seen[m] <= seen[u]
  BY <1>1, FiniteHasLeast DEF HasLeast
<1> DEFINE M == {t \in L : seen[t] = seen[m]}
<1>3. IsFiniteSet(M) /\ M # {} /\ M \subseteq L
  BY FS_Subset
<1> HIDE DEF M
<1>4. PICK t \in M : \A u \in M : made[t] <= made[u]
  <2>1. \A x \in M : made[x] \in Int
    BY <1>1, <1>3
  <2> QED BY <1>3, <2>1, FiniteHasLeast DEF HasLeast
<1>5. ASSUME NEW u \in L PROVE Staler(S, t, u)
  <2>1. t \in L /\ seen[t] = seen[m] /\ (u \in M <=> seen[u] = seen[m])
    BY <1>4 DEF M
  <2>2. seen[t] <= seen[u] /\ (seen[u] = seen[t] => made[t] <= made[u])
    BY <1>2, <1>4, <2>1
  <2> QED BY <1>1, <2>1, <2>2 DEF Staler
<1> QED BY <1>3, <1>4, <1>5

(* A session is opened only below the limit, or in the place of another.       *)
LEMMA OpenTyped ==
  ASSUME ShapeInv, SessionsTyped, ClockInv, NEW j \in 1..MaxJobs, ServeOpen(j)
  PROVE  SessionsTyped'
<1> DEFINE ended == Ended(sessions, Wall)
           left == Disposed(sessions, ended)
           out == Evicted(left)
           kept == Disposed(sessions, ended \cup out)
           fresh == NewSession(Wall)
<1>1. PICK s : sessions' = [kept EXCEPT ![s] = fresh]
  BY DEF ServeOpen
<1>2. /\ DOMAIN left = 1..MaxSessions
      /\ \A t \in 1..MaxSessions :
           /\ SessionTyped(left[t])
           /\ left[t].status = "LIVE" <=> sessions[t].status = "LIVE" /\ t \notin ended
  BY DisposedStay
<1>3. /\ DOMAIN kept = 1..MaxSessions
      /\ \A t \in 1..MaxSessions :
           /\ SessionTyped(kept[t])
           /\ kept[t].status = "LIVE" <=> sessions[t].status = "LIVE" /\ t \notin ended \cup out
  BY DisposedStay
<1>4. SessionTyped(fresh)
  <2>1. /\ fresh.status = "LIVE" /\ fresh.seen = Wall /\ fresh.created = Wall
        /\ fresh.plans = <<>>
    BY DEF NewSession, NoSession
  <2> HIDE DEF fresh
  <2> QED BY <2>1, WallIsTime, EmptyIsSeq, Bounds DEF SessionTyped
<1> HIDE DEF ended, left, kept, fresh
<1>5. /\ IsFiniteSet(Live(sessions)) /\ Cardinality(Live(sessions)) \in Nat
      /\ IsFiniteSet(Live(left)) /\ Cardinality(Live(left)) \in Nat
      /\ IsFiniteSet(Live(kept)) /\ Cardinality(Live(kept)) \in Nat
      /\ DOMAIN sessions' = 1..MaxSessions
      /\ Cardinality(Live(sessions')) \in Nat
  <2>1. DOMAIN sessions = 1..MaxSessions /\ DOMAIN sessions' = 1..MaxSessions
    BY <1>1, <1>3 DEF ShapeInv
  <2> QED BY <1>2, <1>3, <2>1, LiveFinite
<1>6. SessionLimit \in Nat \ {0} /\ Cardinality(Live(sessions)) <= SessionLimit
  BY SessionAssumption DEF SessionsTyped
<1>7. Live(left) \in SUBSET Live(sessions) /\ Live(kept) = Live(left) \ out
  BY <1>2, <1>3 DEF Live, ShapeInv
<1>8. Cardinality(Live(left)) <= SessionLimit
  BY <1>5, <1>6, <1>7, FS_Subset
<1>9. Cardinality(Live(kept)) < SessionLimit
  <2>1. CASE Cardinality(Live(left)) < SessionLimit
    <3>1. Live(kept) = Live(left)
      BY <1>7, <2>1 DEF Evicted
    <3> QED BY <2>1, <3>1
  <2>2. CASE Cardinality(Live(left)) >= SessionLimit
    <3> DEFINE m == CHOOSE t \in Live(left) : \A u \in Live(left) : Staler(left, t, u)
    <3>1. out = {m}
      BY <1>5, <1>6, <2>2 DEF Evicted
    <3>2. Live(left) # {}
      BY <1>6, <2>2, FS_EmptySet
    <3>3. \A t \in Live(left) : left[t].seen \in Int /\ left[t].created \in Int
      BY <1>2 DEF Live, SessionTyped
    <3>4. m \in Live(left)
      BY <1>5, <3>2, <3>3, StalestExists
    <3> HIDE DEF m, out
    <3>5. Cardinality(Live(left) \ {m}) = Cardinality(Live(left)) - 1
      BY <1>5, <3>4, FS_RemoveElement
    <3> QED BY <1>5, <1>6, <1>7, <1>8, <3>1, <3>5
  <2> QED BY <1>5, <1>6, <2>1, <2>2
<1>10. Cardinality(Live(sessions')) <= SessionLimit
  <2>1. Live(sessions') \in SUBSET (Live(kept) \cup {s})
    BY <1>1, <1>3, <1>5 DEF Live
  <2>2. /\ IsFiniteSet(Live(kept) \cup {s})
        /\ Cardinality(Live(kept) \cup {s}) \in {Cardinality(Live(kept)), Cardinality(Live(kept)) + 1}
    BY <1>5, FS_AddElement
  <2>3. Cardinality(Live(sessions')) <= Cardinality(Live(kept) \cup {s})
    BY <2>1, <2>2, FS_Subset
  <2> QED BY <1>5, <1>6, <1>9, <2>2, <2>3
<1>11. \A t \in 1..MaxSessions : SessionTyped(sessions'[t])
  BY <1>1, <1>3, <1>4
<1> QED BY <1>10, <1>11 DEF SessionsTyped

LEMMA TypeInit == Init => TypeInv
<1> SUFFICES ASSUME Init PROVE TypeInv
  OBVIOUS
<1> DEFINE waiting == [i \in 1..visit.mandates |-> [id |-> 100 + i, state |-> "AWAITING"]]
           first == [NewSession(clock) EXCEPT !.plans = waiting]
<1>1. visit.mandates \in 0..PlanLimit /\ visit.back \in Nat
  BY VisitAssumption DEF Init
<1>2. JobsTyped
  BY NoJobFields DEF Init, JobsTyped, JobTyped, JobSteps
<1>3. TimeTyped /\ clock \in Int
  <2>1. stopped \in BOOLEAN
    BY DEF Init
  <2>2. clock = visit.back + 1 /\ back = 0
    BY DEF Init
  <2> QED BY <1>1, <2>1, <2>2 DEF TimeTyped
<1>4. Len(waiting) = visit.mandates /\ Len(waiting) <= PlanLimit
  <2>1. IsSeq(waiting) /\ DOMAIN waiting = 1..visit.mandates /\ visit.mandates \in Nat
    BY <1>1, Bounds DEF IsSeq
  <2> HIDE DEF waiting
  <2> QED BY <1>1, <2>1, SeqLength, Bounds
<1>5. /\ first.status = "LIVE" /\ first.seen = clock /\ first.created = clock
      /\ first.plans = waiting
  BY DEF NewSession, NoSession
<1>6. NoSession.status = "UNUSED" /\ SessionTyped(NoSession)
  <2>1. /\ NoSession.status = "UNUSED" /\ NoSession.seen = 0 /\ NoSession.created = 0
        /\ NoSession.plans = <<>>
    BY DEF NoSession
  <2> QED BY <2>1, EmptyIsSeq, Bounds DEF SessionTyped
<1>7. SessionTyped(first)
  <2> HIDE DEF first, waiting
  <2> QED BY <1>3, <1>4, <1>5 DEF SessionTyped
<1>8. sessions = [t \in 1..MaxSessions |-> IF t = 1 THEN first ELSE NoSession]
  BY DEF Init
<1> HIDE DEF first
<1>9. Cardinality(Live(sessions)) <= SessionLimit
  <2>1. Live(sessions) \in SUBSET {1}
    BY <1>6, <1>8 DEF Live
  <2>2. IsFiniteSet({1}) /\ Cardinality({1}) = 1
    BY FS_Singleton
  <2>3. Cardinality(Live(sessions)) <= 1 /\ Cardinality(Live(sessions)) \in Nat
    BY <2>1, <2>2, FS_Subset, FS_CardinalityType
  <2> QED BY <2>3, SessionAssumption
<1>10. SessionsTyped
  BY <1>6, <1>7, <1>8, <1>9 DEF SessionsTyped
<1> QED BY <1>2, <1>3, <1>10 DEF TypeInv

LEMMA TypeStep == IInv /\ LendInv /\ TypeInv /\ [Next]_vars => TypeInv'
<1> SUFFICES ASSUME IInv, LendInv, TypeInv, [Next]_vars PROVE TypeInv'
  OBVIOUS
<1>0. /\ ShapeInv /\ ClockInv /\ JobsTyped /\ SessionsTyped /\ TimeTyped
      /\ DOMAIN jobs = 1..MaxJobs /\ visit.back \in Nat
  BY VisitAssumption DEF IInv, LendInv, TypeInv, ShapeInv
<1>1. ASSUME NEW j \in 1..MaxJobs,
             Refuse(j) \/ AskOpen(j) \/ Ask(j) \/ BodyFails(j) \/ ServeOpen(j)
      PROVE  TypeInv'
  <2>1. UNCHANGED <<visit, clock, back, stopped>>
    BY <1>1 DEF Refuse, AskOpen, Ask, BodyFails, ServeOpen
  <2>2. JobsTyped'
    BY <1>0, <1>1, RequestsTyped
  <2>3. SessionsTyped'
    BY <1>0, <1>1, OpenTyped, SessionsStaySteps, StayTyped
  <2> QED BY <1>0, <2>1, <2>2, <2>3 DEF TypeInv, TimeTyped
<1>2. ASSUME NEW j \in 1..MaxJobs,
             \/ ServeConnection(j) \/ ServeConnect(j) \/ ConnectVerified(j) \/ ConnectFails(j)
             \/ ServeDisconnect(j) \/ LeaseOpens(j) \/ CheckFails(j) \/ LeaseChecks(j)
             \/ LeaseFails(j) \/ LeaseEnds(j) \/ FactsEnd(j)
      PROVE  TypeInv'
  <2>1. UNCHANGED <<visit, clock, back, stopped>>
    BY <1>2 DEF ServeConnection, ServeConnect, ConnectVerified, ConnectFails, ServeDisconnect,
       LeaseOpens, CheckFails, LeaseChecks, LeaseFails, LeaseEnds, FactsEnd
  <2>2. JobsTyped'
    BY <1>0, <1>2, ConnectionsTyped
  <2>3. SessionsTyped'
    BY <1>0, <1>2, SessionsStaySteps, StayTyped
  <2> QED BY <1>0, <2>1, <2>2, <2>3 DEF TypeInv, TimeTyped
<1>3. ASSUME NEW j \in 1..MaxJobs,
             \/ ServePlan(j) \/ PlanCompiled(j) \/ PlanRefused(j) \/ RefuseCheck(j)
             \/ ServeDryRun(j) \/ ServeViewOnly(j) \/ RunEnds(j) \/ RunFails(j)
             \/ ServeEducation(j) \/ ServeRevise(j)
             \/ SaveEducation(j) \/ SaveRevision(j) \/ ServeHandoff(j)
      PROVE  TypeInv'
  <2>1. UNCHANGED <<visit, clock, back, stopped>>
    BY <1>3 DEF ServePlan, PlanCompiled, PlanRefused, RefuseCheck, ServeDryRun, ServeViewOnly,
       RunEnds, RunFails, ServeEducation, ServeRevise, SaveEducation, SaveRevision, ServeHandoff
  <2>2. JobsTyped'
    BY <1>0, <1>3, HandlersTyped
  <2>3. SessionsTyped'
    BY <1>0, <1>3, SessionsStaySteps, StayTyped
  <2> QED BY <1>0, <2>1, <2>2, <2>3 DEF TypeInv, TimeTyped
<1>4. CASE TimerFires \/ Tick \/ ClockBack \/ Stop \/ UNCHANGED vars
  <2>1. UNCHANGED jobs /\ UNCHANGED visit
    BY <1>4 DEF TimerFires, Tick, ClockBack, Stop, vars
  <2>2. JobsTyped'
    BY <1>0, <2>1 DEF JobsTyped
  <2>3. SessionsTyped'
    <3>1. UNCHANGED sessions \/ sessions' = Disposed(sessions, Live(sessions))
      BY <1>4 DEF TimerFires, Tick, ClockBack, Stop, vars
    <3>2. SessionsStay
      BY <1>0, <3>1, SameStay, DisposedStay DEF SessionsStay
    <3> QED BY <1>0, <3>2, StayTyped
  <2>4. TimeTyped'
    <3>1. back \in Int /\ clock \in Int
      BY <1>0 DEF ClockInv
    <3>2. stopped' \in BOOLEAN
      BY <1>0, <1>4 DEF TimeTyped, TimerFires, Tick, ClockBack, Stop, vars
    <3>3. \/ clock' = clock /\ (back' = back \/ (back < visit.back /\ back' = back + 1))
          \/ clock' = clock + 1 /\ back' = back
      BY <1>4 DEF TimerFires, Tick, ClockBack, Stop, vars
    <3>4. back' <= visit.back /\ clock' > visit.back
      BY <1>0, <3>1, <3>3 DEF TimeTyped
    <3> QED BY <2>1, <3>2, <3>4 DEF TimeTyped
  <2> QED BY <2>2, <2>3, <2>4 DEF TypeInv
<1> QED BY <1>0, <1>1, <1>2, <1>3, <1>4 DEF Next

(* The server never holds more than it may: sessions, mandates, educational    *)
(* plans, whatever expires, is evicted and is opened at once; and its parts    *)
(* fit together (AdvisorSessionStore.open, rememberPlan).                      *)
THEOREM ServerTypeCorrect == Spec => []TypeOK
<1>1. Init => TypeInv
  BY TypeInit
<1>2. IInv /\ LendInv /\ TypeInv /\ [Next]_vars => TypeInv'
  BY TypeStep
<1>3. Spec => []TypeInv
  BY <1>1, <1>2, Invariant, LendInvariant, PTL DEF Spec
<1>4. IInv /\ ConnectionInv /\ LendInv /\ EducationInv /\ TypeInv => TypeOK
  <2> SUFFICES ASSUME IInv, ConnectionInv, LendInv, EducationInv, TypeInv PROVE TypeOK
    OBVIOUS
  <2>1. /\ DOMAIN sessions = 1..MaxSessions /\ DOMAIN jobs = 1..MaxJobs /\ visit.back \in Nat
    BY VisitAssumption DEF IInv, ShapeInv
  <2>2. clock \in Nat /\ back \in 0..visit.back /\ Wall >= 1 /\ stopped \in BOOLEAN
    BY <2>1 DEF TypeInv, TimeTyped, LendInv, ClockInv, Wall
  <2>3. Len(latest) = Len(providers) /\ DOMAIN providers = 1..Len(providers) /\ Len(providers) \in Nat
    <3>1. IsSeq(providers) /\ IsSeq(latest) /\ DOMAIN latest = DOMAIN providers
      BY DEF ConnectionInv, ProvidersInv
    <3>2. DOMAIN providers = 1..Len(providers) /\ Len(providers) \in Nat
      BY <3>1, SeqDomain
    <3> QED BY <3>1, <3>2, SeqLength
  <2>4. ASSUME NEW t \in 1..MaxSessions
        PROVE  /\ sessions[t].status \in {"UNUSED", "LIVE", "GONE"}
               /\ sessions[t].provider \in 0..Len(providers)
               /\ Len(sessions[t].plans) <= PlanLimit /\ Len(sessions[t].education) <= MaxEducational
               /\ \A i \in DOMAIN sessions[t].plans : sessions[t].plans[i].state \in States
    <3>1. sessions[t].provider \in {0} \cup DOMAIN providers
      BY DEF ConnectionInv, SessionsInv
    <3>2. Len(sessions[t].education) <= MaxEducational
      BY DEF EducationInv, EntriesInv, Entries
    <3>3. \A i \in DOMAIN sessions[t].plans : sessions[t].plans[i].state \in States
      <4>1. PICK plans \in Seq(Mandate) : plans = sessions[t].plans
        BY DEF IInv, ShapeInv
      <4>2. \A i \in DOMAIN plans : plans[i] \in Mandate
        OBVIOUS
      <4> QED BY <4>1, <4>2 DEF Mandate
    <3> QED BY <2>3, <3>1, <3>2, <3>3 DEF TypeInv, SessionsTyped, SessionTyped
  <2>5. \A j \in 1..MaxJobs : jobs[j].op \in Ops \cup {"NONE"} /\ jobs[j].step \in JobSteps
    BY DEF TypeInv, JobsTyped, JobTyped
  <2>6. Cardinality(Live(sessions)) <= SessionLimit
    BY DEF TypeInv, SessionsTyped
  <2> QED BY <2>1, <2>2, <2>3, <2>4, <2>5, <2>6 DEF TypeOK, States, JobSteps
<1> QED BY <1>3, <1>4, Invariant, ConnectionInvariant, LendInvariant, EducationInvariant, PTL

================================================================================

-------------------------- MODULE BatchStartProofs --------------------------
(* The inductive invariant of BatchStart, and what follows from it. *)
EXTENDS BatchStart, MailFileProofs, MxLookupProofs, SequenceTheorems, WellFoundedInduction

-----------------------------------------------------------------------------
(* Lists *)

\* RemoveAt takes one element out and moves up those behind it.
LEMMA Removed ==
  ASSUME NEW S, NEW s \in Seq(S), NEW i \in 1 .. Len(s)
  PROVE  /\ RemoveAt(s, i) \in Seq(S)
         /\ Len(RemoveAt(s, i)) = Len(s) - 1
         /\ \A k \in 1 .. i - 1 : RemoveAt(s, i)[k] = s[k]
         /\ \A k \in i .. Len(s) - 1 : RemoveAt(s, i)[k] = s[k + 1]
<1> DEFINE before == SubSeq(s, 1, i - 1)
           after == SubSeq(s, i + 1, Len(s))
<1>1. before \in Seq(S) /\ Len(before) = i - 1 /\ \A k \in 1 .. i - 1 : before[k] = s[k]
  OBVIOUS
<1>2. /\ after \in Seq(S) /\ Len(after) = Len(s) - i
      /\ \A k \in 1 .. Len(s) - i : after[k] = s[i + k]
  OBVIOUS
<1>3. RemoveAt(s, i) = before \o after
  BY DEF RemoveAt
<1> HIDE DEF before, after
<1> DEFINE b == i - 1
<1>6. /\ b \in Nat /\ Len(before) = b
      /\ \A k \in 1 .. b : (before \o after)[k] = before[k]
      /\ \A k \in 1 .. Len(after) : (before \o after)[b + k] = after[k]
      /\ Len(before \o after) = b + Len(after)
  <2>1. /\ Len(before \o after) = Len(before) + Len(after)
        /\ \A k \in 1 .. Len(before) + Len(after) :
             (before \o after)[k] = IF k <= Len(before) THEN before[k] ELSE after[k - Len(before)]
    BY <1>1, <1>2, ConcatProperties
  <2>2. b \in Nat /\ Len(before) = b /\ Len(after) \in Nat
    BY <1>1, <1>2
  <2>3. ASSUME NEW k \in 1 .. Len(after) PROVE (before \o after)[b + k] = after[k]
    BY <2>1, <2>2
  <2>. QED BY <2>1, <2>2, <2>3
<1>4. /\ before \o after \in Seq(S)
      /\ Len(before \o after) = Len(s) - 1
      /\ \A k \in 1 .. i - 1 : (before \o after)[k] = before[k]
      /\ \A k \in i .. Len(s) - 1 : (before \o after)[k] = after[k - (i - 1)]
  <2>1. before \o after \in Seq(S)
    BY <1>1, <1>2
  <2>2. Len(before \o after) = Len(s) - 1
    BY <1>2, <1>6
  <2>3. ASSUME NEW k \in i .. Len(s) - 1
        PROVE  (before \o after)[k] = after[k - (i - 1)]
    <3>1. k - b \in 1 .. Len(after) /\ b + (k - b) = k
      BY <1>2
    <3>. QED BY <1>6, <3>1
  <2>. QED BY <1>6, <2>1, <2>2, <2>3
<1>5. \A k \in i .. Len(s) - 1 : after[k - (i - 1)] = s[k + 1]
  <2> SUFFICES ASSUME NEW k \in i .. Len(s) - 1 PROVE after[k - (i - 1)] = s[k + 1]
    OBVIOUS
  <2>1. k - (i - 1) \in 1 .. Len(s) - i /\ i + (k - (i - 1)) = k + 1
    OBVIOUS
  <2>. QED BY <1>2, <2>1
<1>. QED BY <1>1, <1>3, <1>4, <1>5

\* What is not taken out is still there.
LEMMA RestStays ==
  ASSUME NEW S, NEW s \in Seq(S), NEW i \in 1 .. Len(s)
  PROVE  ToSet(s) = ToSet(RemoveAt(s, i)) \cup {s[i]}
<1> DEFINE t == RemoveAt(s, i)
<1>1. /\ t \in Seq(S) /\ Len(t) = Len(s) - 1
      /\ \A k \in 1 .. i - 1 : t[k] = s[k]
      /\ \A k \in i .. Len(s) - 1 : t[k] = s[k + 1]
  BY Removed
<1> HIDE DEF t
<1>2. ASSUME NEW j \in DOMAIN s
      PROVE  s[j] \in ToSet(t) \cup {s[i]}
  <2>1. CASE j < i
    <3>1. j \in DOMAIN t /\ t[j] = s[j]
      BY <1>1, <2>1
    <3>. QED BY <3>1 DEF ToSet
  <2>2. CASE j > i
    <3>1. j - 1 \in DOMAIN t /\ j - 1 \in i .. Len(s) - 1
      BY <1>1, <2>2
    <3>2. t[j - 1] = s[(j - 1) + 1] /\ (j - 1) + 1 = j
      BY <1>1, <3>1
    <3>. QED BY <3>1, <3>2 DEF ToSet
  <2>3. CASE j = i
    BY <2>3
  <2>. QED BY <2>1, <2>2, <2>3
<1>3. ASSUME NEW j \in DOMAIN t
      PROVE  t[j] \in ToSet(s)
  <2>1. CASE j < i
    <3>1. j \in DOMAIN s /\ t[j] = s[j]
      BY <1>1, <2>1
    <3>. QED BY <3>1 DEF ToSet
  <2>2. CASE j >= i
    <3>1. j + 1 \in DOMAIN s /\ t[j] = s[j + 1]
      BY <1>1, <2>2
    <3>. QED BY <3>1 DEF ToSet
  <2>. QED BY <1>1, <2>1, <2>2
<1>4. s[i] \in ToSet(s)
  BY DEF ToSet
<1>5. ToSet(s) \subseteq ToSet(t) \cup {s[i]}
  BY <1>2 DEF ToSet
<1>6. ToSet(t) \subseteq ToSet(s)
  BY <1>3 DEF ToSet
<1>. QED BY <1>4, <1>5, <1>6 DEF t

\* A list with one more element has it, and is without duplicates if it is new.
LEMMA AddedOne ==
  ASSUME NEW S, NEW s \in Seq(S), NEW e \in S
  PROVE  /\ ToSet(Append(s, e)) = ToSet(s) \cup {e}
         /\ Contains(s, e) <=> e \in ToSet(s)
         /\ IsInjective(s) /\ ~Contains(s, e) => IsInjective(Append(s, e))
<1>1. /\ DOMAIN s = 1 .. Len(s) /\ DOMAIN Append(s, e) = 1 .. Len(s) + 1
      /\ \A k \in 1 .. Len(s) : Append(s, e)[k] = s[k]
      /\ Append(s, e)[Len(s) + 1] = e
  BY Longer
<1>2. ToSet(Append(s, e)) = ToSet(s) \cup {e}
  BY <1>1 DEF ToSet
<1>3. Contains(s, e) <=> e \in ToSet(s)
  BY <1>1 DEF Contains, ToSet
<1>4. ASSUME IsInjective(s), ~Contains(s, e) PROVE IsInjective(Append(s, e))
  <2> SUFFICES ASSUME NEW a \in 1 .. Len(s) + 1, NEW b \in 1 .. Len(s) + 1,
                      Append(s, e)[a] = Append(s, e)[b]
               PROVE  a = b
    BY <1>1 DEF IsInjective
  <2>1. CASE a \in 1 .. Len(s) /\ b \in 1 .. Len(s)
    BY <1>1, <1>4, <2>1 DEF IsInjective
  <2>2. CASE a = Len(s) + 1 \/ b = Len(s) + 1
    BY <1>1, <1>4, <2>2 DEF Contains
  <2>. QED BY <2>1, <2>2
<1>. QED BY <1>2, <1>3, <1>4

-----------------------------------------------------------------------------
(* Lists of mails *)

\* The domains of a list of mails are those of the mails in it.
LEMMA DomainsOfAll ==
  ASSUME NEW ms \in Seq(Seq(Name))
  PROVE  RcptDomains(ms) = {d \in Name : \E x \in ToSet(ms) : d \in ToSet(x)}
BY DEF RcptDomains, ToSet

\* A recipient taken off concerns no other domain.
LEMMA RcptRemoved ==
  ASSUME NEW ms \in Seq(Seq(Name)), NEW i \in DOMAIN ms, NEW j \in DOMAIN ms[i],
         ms[i][j] = Local
  PROVE  RcptDomains([ms EXCEPT ![i] = RemoveAt(@, j)]) \ {Local} = RcptDomains(ms) \ {Local}
<1> DEFINE t == RemoveAt(ms[i], j)
           ns == [ms EXCEPT ![i] = t]
<1>1. DOMAIN ns = DOMAIN ms /\ ns[i] = t /\ \A k \in DOMAIN ms \ {i} : ns[k] = ms[k]
  OBVIOUS
<1>2. ToSet(ms[i]) = ToSet(t) \cup {Local}
  <2>1. ms[i] \in Seq(Name) /\ j \in 1 .. Len(ms[i])
    OBVIOUS
  <2>. QED BY <2>1, RestStays
<1> HIDE DEF t, ns
<1>3. ASSUME NEW ls, NEW d
      PROVE  d \in RcptDomains(ls) <=> d \in Name /\ \E k \in DOMAIN ls : d \in ToSet(ls[k])
  BY DEF RcptDomains, ToSet
<1>4. ASSUME NEW d \in Name, d # Local
      PROVE  d \in RcptDomains(ns) <=> d \in RcptDomains(ms)
  <2>1. ASSUME NEW k \in DOMAIN ms
        PROVE  d \in ToSet(ms[k]) <=> d \in ToSet(ns[k])
    <3>1. CASE k = i
      BY <1>1, <1>2, <1>4, <3>1
    <3>2. CASE k # i
      BY <1>1, <3>2
    <3>. QED BY <3>1, <3>2
  <2>. QED BY <1>1, <1>3, <2>1
<1>5. RcptDomains(ns) \subseteq Name /\ RcptDomains(ms) \subseteq Name
  BY DEF RcptDomains
<1>6. RcptDomains(ns) \ {Local} = RcptDomains(ms) \ {Local}
  BY <1>4, <1>5
<1>. QED BY <1>6 DEF ns, t

\* A mail for nobody can go.
LEMMA MailRemoved ==
  ASSUME NEW ms \in Seq(Seq(Name)), NEW i \in DOMAIN ms, ms[i] = <<>>
  PROVE  RcptDomains(RemoveAt(ms, i)) = RcptDomains(ms)
<1> DEFINE ns == RemoveAt(ms, i)
           Mail == Seq(Name)
<1>1. ms \in Seq(Mail) /\ i \in 1 .. Len(ms)
  OBVIOUS
<1>2. ns \in Seq(Mail) /\ ToSet(ms) = ToSet(ns) \cup {ms[i]}
  <2> HIDE DEF Mail
  <2>. QED BY <1>1, Removed, RestStays
<1>3. ToSet(<<>>) = {}
  BY DEF ToSet
<1> HIDE DEF ns
<1>4. /\ RcptDomains(ms) = {d \in Name : \E x \in ToSet(ms) : d \in ToSet(x)}
      /\ RcptDomains(ns) = {d \in Name : \E x \in ToSet(ns) : d \in ToSet(x)}
  BY <1>2, DomainsOfAll
<1>5. RcptDomains(ns) = RcptDomains(ms)
  BY <1>2, <1>3, <1>4
<1>. QED BY <1>5 DEF ns

-----------------------------------------------------------------------------
(* What is left of a list: the recursion *)

LessThan == {p \in Nat \X Nat : p[1] < p[2]}

\* The order of the naturals is well-founded.
LEMMA LessThanWellFounded == IsWellFoundedOn(LessThan, Nat)
<1>1. OpToRel(<, Nat) = LessThan
  BY Zenon DEF OpToRel, LessThan
<1>2. QED
  BY NatLessThanWellFounded, <1>1, Zenon

\* Induction for a set instead of a predicate
LEMMA Climb ==
  ASSUME NEW N \in Nat, NEW P, 0 \in P,
         \A n \in Nat : n < N /\ n \in P => n + 1 \in P
  PROVE  \A n \in 0 .. N : n \in P
<1> DEFINE Bad == {n \in 0 .. N : n \notin P}
<1> SUFFICES ASSUME Bad # {} PROVE FALSE
  OBVIOUS
<1>1. PICK x \in Bad : \A y \in Bad : ~ (<<y, x>> \in LessThan)
  <2>1. Bad \in SUBSET Nat
    OBVIOUS
  <2>. QED BY <2>1, LessThanWellFounded, WFMin, Zenon
<1>2. x \in Nat /\ x # 0 /\ x <= N /\ x \notin P
  OBVIOUS
<1>3. x - 1 \in Nat /\ x - 1 < N /\ (x - 1) + 1 = x
  BY <1>2
<1>4. x - 1 \notin Bad
  <2>1. <<x - 1, x>> \in LessThan
    BY <1>2, <1>3 DEF LessThan
  <2>. QED BY <1>1, <2>1, Zenon
<1>5. x - 1 \in P
  BY <1>2, <1>3, <1>4
<1>. QED BY <1>2, <1>3, <1>5

\* Rest does what its definition says.
LEMMA RestSteps ==
  ASSUME NEW T, NEW s \in Seq(T), NEW S
  PROVE  /\ Rest(s, S)[0] = <<>>
         /\ \A n \in 1 .. Len(s) :
              Rest(s, S)[n] = IF s[n] \in S THEN Rest(s, S)[n - 1]
                              ELSE Append(Rest(s, S)[n - 1], s[n])
<1> DEFINE Step(g, j) == IF j = 0 THEN <<>>
                         ELSE IF s[j] \in S THEN g[j - 1] ELSE Append(g[j - 1], s[j])
           Known(n) == \E g : g = [j \in 0 .. n |-> Step(g, j)]
           P == {n \in Nat : Known(n)}
<1>1. 0 \in P
  <2> DEFINE g == [j \in {0} |-> <<>>]
  <2>1. 0 .. 0 = {0}
    OBVIOUS
  <2>2. g = [j \in 0 .. 0 |-> Step(g, j)]
    BY <2>1
  <2>. QED BY <2>2
<1>2. ASSUME NEW n \in Nat, n \in P PROVE n + 1 \in P
  <2>1. PICK g : g = [j \in 0 .. n |-> Step(g, j)]
    BY <1>2
  <2> DEFINE h == [j \in 0 .. n + 1 |-> IF j <= n THEN g[j] ELSE Step(g, j)]
  <2>2. ASSUME NEW j \in 0 .. n + 1 PROVE h[j] = Step(h, j)
    <3>1. CASE j = 0
      BY <2>1, <3>1
    <3>2. CASE j > 0
      <4>1. j - 1 \in 0 .. n /\ h[j - 1] = g[j - 1]
        BY <3>2
      <4>2. Step(h, j) = Step(g, j)
        BY <3>2, <4>1
      <4>3. h[j] = Step(g, j)
        <5>1. h[j] = IF j <= n THEN g[j] ELSE Step(g, j)
          OBVIOUS
        <5>2. ASSUME j <= n PROVE g[j] = Step(g, j)
          <6>1. j \in 0 .. n
            BY <5>2
          <6>. QED BY ONLY <2>1, <6>1
        <5>. QED BY ONLY <5>1, <5>2
      <4>. QED BY <4>2, <4>3
    <3>. QED BY <3>1, <3>2
  <2>3. h = [j \in 0 .. n + 1 |-> Step(h, j)]
    BY <2>2
  <2>4. Known(n + 1)
    BY ONLY <2>3
  <2> HIDE DEF Known
  <2>. QED BY <2>4
<1>3. Len(s) \in P
  <2> HIDE DEF P
  <2>1. Len(s) \in Nat
    OBVIOUS
  <2>2. \A n \in 0 .. Len(s) : n \in P
    BY <1>1, <1>2, <2>1, Climb
  <2>. QED BY <2>1, <2>2
<1>4. PICK g : g = [j \in 0 .. Len(s) |-> Step(g, j)]
  BY <1>3
<1>5. Rest(s, S) = [j \in 0 .. Len(s) |-> Step(Rest(s, S), j)]
  BY <1>4 DEF Rest
<1>6. \A n \in 0 .. Len(s) : Rest(s, S)[n] = Step(Rest(s, S), n)
  <2> HIDE DEF Step
  <2>. QED BY ONLY <1>5
<1>. QED BY <1>6

\* A list without elements of S is left as it is.
LEMMA NothingPassedOver ==
  ASSUME NEW T, NEW s \in Seq(T), NEW S, \A j \in 1 .. Len(s) : s[j] \notin S
  PROVE  Without(s, S) = s
<1> DEFINE f == Rest(s, S)
           Same(n) == f[n] \in Seq(T) /\ Len(f[n]) = n /\ \A j \in 1 .. n : f[n][j] = s[j]
           P == {n \in Nat : Same(n)}
<1>1. /\ f[0] = <<>>
      /\ \A n \in 1 .. Len(s) : f[n] = IF s[n] \in S THEN f[n - 1] ELSE Append(f[n - 1], s[n])
  BY RestSteps
<1> HIDE DEF f
<1>2. 0 \in P
  <2>1. Same(0)
    BY <1>1
  <2> HIDE DEF Same
  <2>. QED BY <2>1
<1>3. ASSUME NEW n \in Nat, n < Len(s), n \in P PROVE n + 1 \in P
  <2>1. n + 1 \in 1 .. Len(s) /\ (n + 1) - 1 = n /\ s[n + 1] \in T
    BY <1>3
  <2>2. f[n + 1] = Append(f[n], s[n + 1])
    BY <1>1, <2>1
  <2>3. f[n] \in Seq(T) /\ Len(f[n]) = n /\ \A j \in 1 .. n : f[n][j] = s[j]
    BY <1>3
  <2>4. Same(n + 1)
    BY <2>1, <2>2, <2>3
  <2> HIDE DEF Same
  <2>. QED BY <2>4
<1>4. Same(Len(s))
  <2>1. \A n \in 0 .. Len(s) : n \in P
    <3> HIDE DEF P
    <3>. QED BY <1>2, <1>3, Climb, LenProperties
  <2>2. Len(s) \in 0 .. Len(s)
    OBVIOUS
  <2> HIDE DEF Same
  <2>. QED BY <2>1, <2>2
<1>. QED BY <1>4 DEF f, Without

\* It makes no difference when an element of S is taken out before.
LEMMA PassedOver ==
  ASSUME NEW T, NEW s \in Seq(T), NEW S, NEW i \in 1 .. Len(s), s[i] \in S
  PROVE  Without(RemoveAt(s, i), S) = Without(s, S)
<1> DEFINE t == RemoveAt(s, i)
           f == Rest(s, S)
           g == Rest(t, S)
           P == {n \in Nat : f[n] = IF n < i THEN g[n] ELSE g[n - 1]}
<1>1. /\ t \in Seq(T) /\ Len(t) = Len(s) - 1
      /\ \A k \in 1 .. i - 1 : t[k] = s[k]
      /\ \A k \in i .. Len(s) - 1 : t[k] = s[k + 1]
  BY Removed
<1> HIDE DEF t
<1>2. /\ f[0] = <<>>
      /\ \A n \in 1 .. Len(s) : f[n] = IF s[n] \in S THEN f[n - 1] ELSE Append(f[n - 1], s[n])
  BY RestSteps
<1>3. /\ g[0] = <<>>
      /\ \A n \in 1 .. Len(t) : g[n] = IF t[n] \in S THEN g[n - 1] ELSE Append(g[n - 1], t[n])
  BY <1>1, RestSteps
<1> HIDE DEF f, g
<1>4. 0 \in P
  BY <1>2, <1>3
<1>5. ASSUME NEW n \in Nat, n < Len(s), n \in P PROVE n + 1 \in P
  <2>1. n + 1 \in 1 .. Len(s) /\ (n + 1) - 1 = n
    BY <1>5
  <2>2. f[n + 1] = IF s[n + 1] \in S THEN f[n] ELSE Append(f[n], s[n + 1])
    BY <1>2, <2>1
  <2>3. f[n] = IF n < i THEN g[n] ELSE g[n - 1]
    BY <1>5
  <2>4. CASE n + 1 < i
    <3>1. n + 1 \in 1 .. Len(t) /\ t[n + 1] = s[n + 1]
      BY <1>1, <2>1, <2>4
    <3>2. g[n + 1] = IF s[n + 1] \in S THEN g[n] ELSE Append(g[n], s[n + 1])
      BY <1>3, <2>1, <3>1
    <3>. QED BY <2>2, <2>3, <2>4, <3>2
  <2>5. CASE n + 1 = i
    BY <2>1, <2>2, <2>3, <2>5
  <2>6. CASE n + 1 > i
    <3>1. n \in 1 .. Len(t) /\ t[n] = s[n + 1]
      BY <1>1, <2>1, <2>6
    <3>2. g[n] = IF s[n + 1] \in S THEN g[n - 1] ELSE Append(g[n - 1], s[n + 1])
      BY <1>3, <3>1
    <3>. QED BY <2>1, <2>2, <2>3, <2>6, <3>2
  <2>. QED BY <2>4, <2>5, <2>6
<1>6. f[Len(s)] = g[Len(t)]
  <2>1. \A n \in 0 .. Len(s) : n \in P
    <3> HIDE DEF P
    <3>. QED BY <1>4, <1>5, Climb, LenProperties
  <2>2. Len(s) \in 0 .. Len(s) /\ ~ (Len(s) < i) /\ Len(s) - 1 = Len(t)
    BY <1>1
  <2>. QED BY <2>1, <2>2
<1>. QED BY <1>6 DEF f, g, t, Without

-----------------------------------------------------------------------------
(* What is left of the mails *)

\* A local recipient taken off makes no difference to it ...
LEMMA ForOthersRcpt ==
  ASSUME NEW ms \in Seq(Seq(Name)), NEW i \in DOMAIN ms, NEW j \in DOMAIN ms[i],
         ms[i][j] = Local
  PROVE  ForOthers([ms EXCEPT ![i] = RemoveAt(@, j)]) = ForOthers(ms)
<1> DEFINE t == RemoveAt(ms[i], j)
           ns == [ms EXCEPT ![i] = t]
<1>1. DOMAIN ns = DOMAIN ms /\ ns[i] = t /\ \A k \in DOMAIN ms \ {i} : ns[k] = ms[k]
  OBVIOUS
<1>2. Others(t) = Others(ms[i])
  <2>1. ms[i] \in Seq(Name) /\ j \in 1 .. Len(ms[i]) /\ ms[i][j] \in {Local}
    OBVIOUS
  <2>. QED BY <2>1, PassedOver DEF Others
<1> HIDE DEF t, ns
<1>3. [k \in DOMAIN ns |-> Others(ns[k])] = [k \in DOMAIN ms |-> Others(ms[k])]
  BY <1>1, <1>2
<1>4. ForOthers(ns) = ForOthers(ms)
  BY <1>3 DEF ForOthers
<1>. QED BY <1>4 DEF ns, t

\* ... nor does a mail for nobody.
LEMMA ForOthersMail ==
  ASSUME NEW ms \in Seq(Seq(Name)), NEW i \in DOMAIN ms, ms[i] = <<>>
  PROVE  ForOthers(RemoveAt(ms, i)) = ForOthers(ms)
<1> DEFINE Mail == Seq(Name)
           ns == RemoveAt(ms, i)
           os == [k \in DOMAIN ms |-> Others(ms[k])]
           ps == [k \in DOMAIN ns |-> Others(ns[k])]
           T == {Others(ms[k]) : k \in DOMAIN ms}
<1>1. ms \in Seq(Mail) /\ i \in 1 .. Len(ms)
  OBVIOUS
<1>2. /\ ns \in Seq(Mail) /\ Len(ns) = Len(ms) - 1
      /\ \A k \in 1 .. i - 1 : ns[k] = ms[k]
      /\ \A k \in i .. Len(ms) - 1 : ns[k] = ms[k + 1]
  <2> HIDE DEF Mail
  <2>. QED BY <1>1, Removed
<1> HIDE DEF ns
<1>3. Others(<<>>) = <<>>
  <2>1. <<>> \in Seq(Name) /\ Len(<<>>) = 0
    OBVIOUS
  <2>. QED BY <2>1, NothingPassedOver DEF Others
<1>4. os \in Seq(T) /\ Len(os) = Len(ms) /\ os[i] \in {<<>>}
  <2>1. os[i] = Others(<<>>)
    OBVIOUS
  <2>2. DOMAIN os = 1 .. Len(ms) /\ \A k \in 1 .. Len(ms) : os[k] \in T
    OBVIOUS
  <2>3. Len(ms) \in Nat
    OBVIOUS
  <2>. QED BY <1>3, <2>1, <2>2, <2>3
<1>5. RemoveAt(os, i) = ps
  <2> DEFINE qs == RemoveAt(os, i)
  <2>1. /\ \A k \in DOMAIN ms : os[k] = Others(ms[k])
        /\ \A k \in DOMAIN ns : ps[k] = Others(ns[k])
        /\ DOMAIN ps = DOMAIN ns /\ ps = [k \in DOMAIN ps |-> ps[k]]
    OBVIOUS
  <2> HIDE DEF os, T, ps
  <2>2. i \in 1 .. Len(os) /\ os \in Seq(T)
    BY <1>1, <1>4
  <2>3. /\ qs \in Seq(T) /\ Len(qs) = Len(os) - 1
        /\ \A k \in 1 .. i - 1 : qs[k] = os[k]
        /\ \A k \in i .. Len(os) - 1 : qs[k] = os[k + 1]
    BY <2>2, Removed
  <2> HIDE DEF qs
  <2>4. qs = [k \in DOMAIN qs |-> qs[k]] /\ DOMAIN qs = 1 .. Len(ms) - 1
    BY <1>4, <2>3
  <2>5. DOMAIN ps = 1 .. Len(ms) - 1
    BY <1>2, <2>1
  <2>6. ASSUME NEW k \in 1 .. Len(ms) - 1 PROVE qs[k] = ps[k]
    <3>1. k \in DOMAIN ns /\ ps[k] = Others(ns[k])
      BY <2>1, <2>5
    <3>2. CASE k < i
      <4>1. k \in 1 .. i - 1 /\ k \in DOMAIN ms
        BY <1>1, <3>2
      <4>. QED BY <1>2, <2>1, <2>3, <3>1, <4>1
    <3>3. CASE k >= i
      <4>1. k \in i .. Len(ms) - 1 /\ k + 1 \in DOMAIN ms
        BY <1>1, <3>3
      <4>. QED BY <1>2, <1>4, <2>1, <2>3, <3>1, <4>1
    <3>. QED BY <1>1, <3>2, <3>3
  <2>7. qs = ps
    BY <2>1, <2>4, <2>5, <2>6, Zenon
  <2>. QED BY <2>7 DEF qs
<1>6. Without(RemoveAt(os, i), {<<>>}) = Without(os, {<<>>})
  <2> HIDE DEF os, T
  <2>. QED BY <1>1, <1>4, PassedOver
<1>. QED BY <1>5, <1>6 DEF ForOthers, ns

\* Mails that are for others only are left as they are.
LEMMA ForOthersAll ==
  ASSUME NEW ms \in Seq(Seq(Name)),
         \A k \in DOMAIN ms : ms[k] # <<>> /\ \A j \in DOMAIN ms[k] : ms[k][j] # Local
  PROVE  ForOthers(ms) = ms
<1>1. ASSUME NEW k \in DOMAIN ms PROVE Others(ms[k]) = ms[k]
  <2>1. ms[k] \in Seq(Name) /\ \A j \in 1 .. Len(ms[k]) : ms[k][j] \notin {Local}
    OBVIOUS
  <2>. QED BY <2>1, NothingPassedOver DEF Others
<1>2. [k \in DOMAIN ms |-> Others(ms[k])] = ms
  <2>1. ms = [k \in DOMAIN ms |-> ms[k]]
    OBVIOUS
  <2>. QED BY <1>1, <2>1
<1>3. Without(ms, {<<>>}) = ms
  <2> DEFINE Mail == Seq(Name)
  <2>1. ms \in Seq(Mail) /\ \A k \in 1 .. Len(ms) : ms[k] \notin {<<>>}
    OBVIOUS
  <2> HIDE DEF Mail
  <2>. QED BY <2>1, NothingPassedOver
<1>. QED BY <1>2, <1>3 DEF ForOthers

-----------------------------------------------------------------------------
(* What every step leaves alone *)

\* Before create_connection is called there is no connection, and none comes.
LEMMA NothingAsked ==
  ASSUME IInv, phase \notin {"connect", "done"}, UNCHANGED <<mxVars, asked>>
  PROVE  /\ asked = 0 /\ asked' = 0 /\ step' = "idle"
         /\ MxInv' /\ OnePerDomain' /\ Asked'
<1>1. asked = 0 /\ step = "idle"
  BY DEF IInv, Phases
<1>2. \A k \in DOMAIN conns : FALSE
  BY <1>1 DEF IInv, Asked, Through
<1>3. asked' = 0 /\ step' = "idle" /\ conns' = conns
  BY <1>1 DEF mxVars
<1>4. MxInv'
  BY MxFrame DEF IInv
<1>5. OnePerDomain' /\ Asked'
  BY <1>2, <1>3 DEF OnePerDomain, Asked
<1>. QED BY <1>1, <1>3, <1>4, <1>5

\* The list of mails may be all that changes of MailFile's variables.
LEMMA MailsChange ==
  ASSUME IInv, UNCHANGED bufferVars, mails' \in Seq(Seq(Name))
  PROVE  FileInv'
BY FileFrame DEF IInv

-----------------------------------------------------------------------------
(* read_all_mail *)

LEMMA InitInv == Init => IInv
<1> SUFFICES ASSUME Init PROVE IInv
  OBVIOUS
<1>1. FileInv /\ MxInv
  BY FileInitInv, MxInitInv DEF Init
<1>2. /\ phase = "read" /\ files = 0 /\ m = 1 /\ r = 1
      /\ accepted = <<>> /\ domains = <<>> /\ asked = 0
      /\ step = "idle" /\ conns = <<>>
  BY DEF Init, MxInit
<1>3. TypeOK
  <2>1. accepted \in Seq(Seq(Name)) /\ domains \in Seq(Domain) /\ Len(domains) = 0
    BY <1>2
  <2>. QED BY <1>1, <1>2, <2>1, BatchAssumption DEF TypeOK, FileInv, MxInv
<1>4. DomainsOfMails /\ OthersOnly
  BY <1>2 DEF DomainsOfMails, OthersOnly
<1>5. OnePerDomain /\ Asked
  BY <1>2 DEF OnePerDomain, Asked
<1>6. Phases
  BY <1>2 DEF Phases
<1>. QED BY <1>1, <1>3, <1>4, <1>5, <1>6 DEF IInv

\* A file is found, or a piece of it read.
LEMMA ReadKeeps ==
  ASSUME IInv, FindFile \/ ReadFile
  PROVE  IInv'
<1>1. /\ phase = "read" /\ files' \in 0 .. MaxFiles
      /\ UNCHANGED <<phase, m, r, accepted, domains, asked>>
      /\ UNCHANGED mxVars
  BY BatchAssumption DEF IInv, TypeOK, FindFile, ReadFile, cursors, domainVars
<1>2. FileInv'
  BY OpenFileKeeps, ReadMailFileKeeps DEF IInv, FindFile, ReadFile
<1>3. asked' = 0 /\ step' = "idle" /\ MxInv' /\ OnePerDomain' /\ Asked'
  BY <1>1, NothingAsked
<1>4. TypeOK'
  BY <1>1, <1>2, <1>3 DEF IInv, TypeOK, FileInv, MxInv
<1>5. DomainsOfMails' /\ OthersOnly' /\ Phases'
  BY <1>1, <1>3 DEF IInv, DomainsOfMails, OthersOnly, Phases
<1>. QED BY <1>2, <1>3, <1>4, <1>5 DEF IInv

\* conn_init fails.
LEMMA NothingReadKeeps ==
  ASSUME IInv, NothingRead
  PROVE  IInv'
<1>1. /\ phase = "read" /\ phase' = "failed"
      /\ UNCHANGED <<files, m, r, accepted, domains, asked>>
      /\ UNCHANGED mxVars /\ UNCHANGED bufferVars /\ UNCHANGED mails
  BY DEF NothingRead, cursors, domainVars, fileVars
<1>2. FileInv'
  BY <1>1, MailsChange DEF IInv, TypeOK, FileTypeOK
<1>3. asked' = 0 /\ step' = "idle" /\ MxInv' /\ OnePerDomain' /\ Asked'
  BY <1>1, NothingAsked
<1>4. TypeOK'
  BY <1>1, <1>2, <1>3 DEF IInv, TypeOK, FileInv, MxInv
<1>5. DomainsOfMails' /\ OthersOnly' /\ Phases'
  BY <1>1, <1>3 DEF IInv, DomainsOfMails, OthersOnly, Phases
<1>. QED BY <1>2, <1>3, <1>4, <1>5 DEF IInv

\* What the filter begins with is what was read.
LEMMA AllReadKeeps ==
  ASSUME IInv, AllRead
  PROVE  IInv'
<1>1. /\ phase = "read" /\ phase' = "filter" /\ accepted' = mails
      /\ UNCHANGED <<files, m, r, domains, asked>>
      /\ UNCHANGED mxVars /\ UNCHANGED bufferVars /\ UNCHANGED mails
  BY DEF AllRead, cursors, domainVars, fileVars
<1>2. FileInv'
  BY <1>1, MailsChange DEF IInv, TypeOK, FileTypeOK
<1>3. asked' = 0 /\ step' = "idle" /\ MxInv' /\ OnePerDomain' /\ Asked'
  BY <1>1, NothingAsked
<1>4. mails \in Seq(Seq(Name))
  BY DEF IInv, TypeOK, FileTypeOK
<1>5. TypeOK'
  BY <1>1, <1>2, <1>3, <1>4 DEF IInv, TypeOK, FileInv, MxInv
<1>6. DomainsOfMails' /\ OthersOnly'
  BY <1>1 DEF DomainsOfMails, OthersOnly
<1>7. m = 1 /\ r = 1 /\ domains = <<>>
  BY <1>1 DEF IInv, Phases
<1>8. CursorsOK' /\ RemoteKept' /\ LocalGone' /\ ForOthersKept'
  <2>1. CursorsOK'
    <3>1. Len(mails) \in Nat /\ \A k \in 1 .. Len(mails) : Len(mails[k]) \in Nat
      BY <1>4
    <3>. QED BY <1>1, <1>7, <3>1 DEF CursorsOK
  <2>2. RemoteKept'
    BY <1>1 DEF RemoteKept
  <2>3. ~ \E k \in DOMAIN mails : \E j \in DOMAIN mails[k] : k < 1 \/ (k = 1 /\ j < 1)
    BY <1>4
  <2>4. LocalGone'
    BY <1>1, <1>7, <2>3 DEF LocalGone, Visited
  <2>5. ForOthersKept'
    <3>1. ~ \E k \in DOMAIN mails : k < 1
      BY <1>4
    <3>. QED BY <1>1, <1>7, <3>1 DEF ForOthersKept
  <2>. QED BY <2>1, <2>2, <2>4, <2>5
<1>9. Phases'
  BY <1>1, <1>3, <1>7, <1>8 DEF Phases
<1>. QED BY <1>2, <1>3, <1>5, <1>6, <1>9 DEF IInv

-----------------------------------------------------------------------------
(* filter_my_mail *)

\* A step of the loop keeps the invariant, given that it keeps its own part.
LEMMA FilterFrame ==
  ASSUME IInv, FilterStep, mails' \in Seq(Seq(Name)), m' \in Nat \ {0}, r' \in Nat \ {0},
         CursorsOK', RemoteKept', LocalGone', ForOthersKept'
  PROVE  IInv'
<1>1. /\ phase = "filter" /\ UNCHANGED <<phase, files, accepted, domains, asked>>
      /\ UNCHANGED mxVars /\ UNCHANGED bufferVars
  BY DEF FilterStep, domainVars
<1>2. FileInv'
  BY <1>1, MailsChange
<1>3. asked' = 0 /\ step' = "idle" /\ MxInv' /\ OnePerDomain' /\ Asked'
  BY <1>1, NothingAsked
<1>4. TypeOK'
  BY <1>1, <1>2, <1>3 DEF IInv, TypeOK, FileInv, MxInv
<1>5. DomainsOfMails' /\ OthersOnly'
  BY <1>1 DEF DomainsOfMails, OthersOnly
<1>6. Phases'
  BY <1>1, <1>3 DEF IInv, Phases
<1>. QED BY <1>2, <1>3, <1>4, <1>5, <1>6 DEF IInv

\* What the loop knows at its start.
LEMMA FilterKnows ==
  ASSUME IInv, FilterStep
  PROVE  /\ mails \in Seq(Seq(Name)) /\ m \in Nat \ {0} /\ r \in Nat \ {0}
         /\ m \in DOMAIN mails /\ mails[m] \in Seq(Name) /\ Len(mails[m]) \in Nat
         /\ r \in 1 .. Len(mails[m]) + 1
         /\ RemoteKept /\ LocalGone /\ ForOthersKept /\ accepted' = accepted
<1>1. phase = "filter" /\ m <= Len(mails) /\ accepted' = accepted
  BY DEF FilterStep, MoreMails
<1>2. CursorsOK /\ RemoteKept /\ LocalGone /\ ForOthersKept
  BY <1>1 DEF IInv, Phases
<1>3. mails \in Seq(Seq(Name)) /\ m \in Nat \ {0} /\ r \in Nat \ {0}
  BY DEF IInv, TypeOK, FileTypeOK
<1>4. m \in DOMAIN mails /\ r \in 1 .. Len(mails[m]) + 1
  BY <1>1, <1>2, <1>3 DEF CursorsOK
<1>5. mails[m] \in Seq(Name)
  BY <1>3, <1>4
<1>6. Len(mails[m]) \in Nat
  BY <1>5
<1>. QED BY <1>1, <1>2, <1>3, <1>4, <1>5, <1>6

\* A local recipient leaves its mail.
LEMMA RemoveLocalKeeps ==
  ASSUME IInv, RemoveLocal
  PROVE  IInv'
<1> DEFINE t == RemoveAt(mails[m], r)
<1>1. /\ FilterStep /\ r <= Len(mails[m]) /\ mails[m][r] = Local
      /\ mails' = [mails EXCEPT ![m] = RemoveAt(@, r)] /\ mails' = [mails EXCEPT ![m] = t]
      /\ m' = m /\ r' = r
  BY DEF RemoveLocal, MoreRcpts, AfterRemoval, cursors
<1>2. /\ mails \in Seq(Seq(Name)) /\ m \in Nat \ {0} /\ r \in Nat \ {0}
      /\ m \in DOMAIN mails /\ mails[m] \in Seq(Name) /\ Len(mails[m]) \in Nat
      /\ r \in 1 .. Len(mails[m])
      /\ RemoteKept /\ LocalGone /\ ForOthersKept /\ accepted' = accepted
  BY <1>1, FilterKnows
<1>3. /\ t \in Seq(Name) /\ Len(t) = Len(mails[m]) - 1
      /\ \A k \in 1 .. r - 1 : t[k] = mails[m][k]
  BY <1>2, Removed
<1> HIDE DEF t
<1>4. /\ mails' \in Seq(Seq(Name)) /\ Len(mails') = Len(mails) /\ DOMAIN mails' = DOMAIN mails
      /\ mails'[m] = t
      /\ \A k \in DOMAIN mails : k # m => mails'[k] = mails[k]
  BY <1>1, <1>2, <1>3
<1>5. CursorsOK'
  <2>1. m' \in 1 .. Len(mails') + 1
    BY <1>1, <1>2, <1>4
  <2>2. r' \in 1 .. Len(mails'[m']) + 1
    BY <1>1, <1>2, <1>3, <1>4
  <2>. QED BY <2>1, <2>2 DEF CursorsOK
<1>6. RemoteKept'
  <2>1. mails \in Seq(Seq(Name)) /\ m \in DOMAIN mails /\ r \in DOMAIN mails[m]
        /\ mails[m][r] = Local
    BY <1>1, <1>2
  <2>2. RcptDomains([mails EXCEPT ![m] = RemoveAt(@, r)]) \ {Local} =
          RcptDomains(mails) \ {Local}
    BY <2>1, RcptRemoved
  <2>3. RcptDomains(mails') \ {Local} = RcptDomains(mails) \ {Local}
    BY <1>1, <2>2
  <2>. QED BY <1>2, <2>3 DEF RemoteKept
<1>7. LocalGone'
  <2> SUFFICES ASSUME NEW k \in DOMAIN mails, NEW j \in DOMAIN mails'[k], Visited(k, j)
               PROVE  mails'[k][j] # Local
    BY <1>1, <1>4 DEF LocalGone, Visited
  <2>1. CASE k = m
    <3>1. j \in 1 .. r - 1 /\ j \in DOMAIN mails[m]
      BY <1>2, <1>3, <1>4, <2>1 DEF Visited
    <3>. QED BY <1>2, <1>3, <1>4, <2>1, <3>1 DEF LocalGone, Visited
  <2>2. CASE k # m
    BY <1>2, <1>4, <2>2 DEF LocalGone, Visited
  <2>. QED BY <2>1, <2>2
<1>8. ForOthersKept'
  <2>1. mails \in Seq(Seq(Name)) /\ m \in DOMAIN mails /\ r \in DOMAIN mails[m]
        /\ mails[m][r] = Local
    BY <1>1, <1>2
  <2>2. ForOthers([mails EXCEPT ![m] = RemoveAt(@, r)]) = ForOthers(mails)
    BY <2>1, ForOthersRcpt
  <2>3. ForOthers(mails') = ForOthers(mails)
    BY <1>1, <2>2
  <2>4. ASSUME NEW k \in DOMAIN mails, k < m PROVE mails'[k] # <<>>
    <3>1. k # m /\ mails'[k] = mails[k]
      BY <1>2, <1>4, <2>4
    <3>. QED BY <1>2, <2>4, <3>1 DEF ForOthersKept
  <2>. QED BY <1>1, <1>2, <1>4, <2>3, <2>4 DEF ForOthersKept
<1>. QED BY <1>1, <1>2, <1>4, <1>5, <1>6, <1>7, <1>8, FilterFrame

\* Another recipient stays.
LEMMA KeepRemoteKeeps ==
  ASSUME IInv, KeepRemote
  PROVE  IInv'
<1>1. /\ FilterStep /\ r <= Len(mails[m]) /\ mails[m][r] # Local
      /\ mails' = mails /\ m' = m /\ r' = r + 1
  BY DEF KeepRemote, MoreRcpts, NextRcpt
<1>2. /\ mails \in Seq(Seq(Name)) /\ m \in Nat \ {0} /\ r \in Nat \ {0}
      /\ m \in DOMAIN mails /\ mails[m] \in Seq(Name) /\ Len(mails[m]) \in Nat
      /\ r \in 1 .. Len(mails[m])
      /\ RemoteKept /\ LocalGone /\ ForOthersKept /\ accepted' = accepted
  BY <1>1, FilterKnows
<1>5. CursorsOK'
  <2>1. m' \in 1 .. Len(mails') + 1
    BY <1>1, <1>2
  <2>2. r' \in 1 .. Len(mails'[m']) + 1
    BY <1>1, <1>2
  <2>. QED BY <2>1, <2>2 DEF CursorsOK
<1>6. RemoteKept'
  BY <1>1, <1>2 DEF RemoteKept
<1>7. LocalGone'
  <2> SUFFICES ASSUME NEW k \in DOMAIN mails, NEW j \in DOMAIN mails[k],
                      k < m \/ (k = m /\ j < r + 1)
               PROVE  mails[k][j] # Local
    BY <1>1 DEF LocalGone, Visited
  <2>1. CASE k = m /\ j = r
    BY <1>1, <2>1
  <2>2. CASE k < m \/ (k = m /\ j < r)
    BY <1>2, <2>2 DEF LocalGone, Visited
  <2>3. CASE k = m /\ j # r
    <3>1. j \in 1 .. Len(mails[m])
      BY <1>2, <2>3
    <3>2. j < r
      BY <1>2, <2>3, <3>1
    <3>. QED BY <1>2, <2>3, <3>2 DEF LocalGone, Visited
  <2>. QED BY <2>1, <2>2, <2>3
<1>8. ForOthersKept'
  BY <1>1, <1>2 DEF ForOthersKept
<1>. QED BY <1>1, <1>2, <1>5, <1>6, <1>7, <1>8, FilterFrame

\* A mail that is left for nobody goes.
LEMMA LocalOnlyKeeps ==
  ASSUME IInv, LocalOnly
  PROVE  IInv'
<1> DEFINE Mail == Seq(Name)
           ns == RemoveAt(mails, m)
<1>1. /\ FilterStep /\ mails[m] = <<>>
      /\ mails' = ns /\ m' = m /\ r' = 1
  BY DEF LocalOnly
<1>2. /\ mails \in Seq(Mail) /\ m \in Nat \ {0} /\ r \in Nat \ {0}
      /\ m \in DOMAIN mails /\ mails[m] \in Seq(Name) /\ Len(mails[m]) \in Nat
      /\ RemoteKept /\ LocalGone /\ ForOthersKept /\ accepted' = accepted
  BY <1>1, FilterKnows
<1>3. RcptDomains(ns) = RcptDomains(mails)
  BY <1>1, <1>2, MailRemoved
<1>4. /\ ns \in Seq(Mail) /\ Len(ns) = Len(mails) - 1
      /\ \A k \in 1 .. m - 1 : ns[k] = mails[k]
  <2> HIDE DEF Mail
  <2>1. m \in 1 .. Len(mails)
    BY <1>2
  <2>. QED BY <1>2, <2>1, Removed
<1>5. ns \in Seq(Seq(Name))
  BY <1>4
<1> HIDE DEF ns
<1>6. CursorsOK'
  <2>1. Len(mails) \in Nat /\ m \in 1 .. Len(mails)
    BY <1>2
  <2>2. m' \in 1 .. Len(mails') + 1
    BY <1>1, <1>4, <2>1
  <2>3. ASSUME m <= Len(ns) PROVE Len(ns[m]) \in Nat
    <3>1. m \in DOMAIN ns
      BY <1>5, <2>1, <2>3
    <3>2. ns[m] \in Seq(Name)
      BY <1>5, <3>1
    <3>. QED BY <3>2
  <2>. QED BY <1>1, <2>2, <2>3 DEF CursorsOK
<1>7. RemoteKept'
  BY <1>1, <1>2, <1>3 DEF RemoteKept
<1>8. LocalGone'
  <2> SUFFICES ASSUME NEW k \in DOMAIN ns, NEW j \in DOMAIN ns[k], k < m \/ (k = m /\ j < 1)
               PROVE  ns[k][j] # Local
    BY <1>1 DEF LocalGone, Visited
  <2>1. j >= 1 /\ k \in 1 .. Len(ns)
    BY <1>5
  <2>2. k < m
    BY <2>1
  <2>3. k \in 1 .. m - 1 /\ k \in DOMAIN mails
    BY <1>2, <1>4, <2>1, <2>2
  <2>4. ns[k] = mails[k]
    BY <1>4, <2>3
  <2>. QED BY <1>2, <2>2, <2>3, <2>4 DEF LocalGone, Visited
<1>9. ForOthersKept'
  <2>1. ForOthers(ns) = ForOthers(mails)
    BY <1>1, <1>2, ForOthersMail DEF ns
  <2>2. ASSUME NEW k \in DOMAIN ns, k < m PROVE ns[k] # <<>>
    <3>1. k \in 1 .. m - 1 /\ k \in DOMAIN mails
      BY <1>2, <1>4, <1>5, <2>2
    <3>2. ns[k] = mails[k]
      BY <1>4, <3>1
    <3>. QED BY <1>2, <2>2, <3>1, <3>2 DEF ForOthersKept
  <2>. QED BY <1>1, <1>2, <2>1, <2>2 DEF ForOthersKept
<1>. QED BY <1>1, <1>2, <1>5, <1>6, <1>7, <1>8, <1>9, FilterFrame

\* A mail for others stays.
LEMMA RemoteTooKeeps ==
  ASSUME IInv, RemoteToo
  PROVE  IInv'
<1>1. /\ FilterStep /\ ~(r <= Len(mails[m])) /\ mails[m] # <<>>
      /\ mails' = mails /\ m' = m + 1 /\ r' = 1
  BY DEF RemoteToo, MoreRcpts, NextMail
<1>2. /\ mails \in Seq(Seq(Name)) /\ m \in Nat \ {0} /\ r \in Nat \ {0}
      /\ m \in DOMAIN mails /\ mails[m] \in Seq(Name) /\ Len(mails[m]) \in Nat
      /\ r \in 1 .. Len(mails[m]) + 1
      /\ RemoteKept /\ LocalGone /\ ForOthersKept /\ accepted' = accepted
  BY <1>1, FilterKnows
<1>5. CursorsOK'
  <2>1. Len(mails) \in Nat /\ m \in 1 .. Len(mails)
    BY <1>2
  <2>2. m' \in 1 .. Len(mails') + 1
    BY <1>1, <2>1
  <2>3. ASSUME m + 1 <= Len(mails) PROVE Len(mails[m + 1]) \in Nat
    <3>1. m + 1 \in DOMAIN mails
      BY <1>2, <2>1, <2>3
    <3>2. mails[m + 1] \in Seq(Name)
      BY <1>2, <3>1
    <3>. QED BY <3>2
  <2>. QED BY <1>1, <2>2, <2>3 DEF CursorsOK
<1>6. RemoteKept'
  BY <1>1, <1>2 DEF RemoteKept
<1>7. LocalGone'
  <2> SUFFICES ASSUME NEW k \in DOMAIN mails, NEW j \in DOMAIN mails[k],
                      k < m + 1 \/ (k = m + 1 /\ j < 1)
               PROVE  mails[k][j] # Local
    BY <1>1 DEF LocalGone, Visited
  <2>1. j \in Nat /\ j >= 1 /\ k \in 1 .. Len(mails)
    BY <1>2
  <2>2. CASE k = m
    <3>1. j \in 1 .. Len(mails[m])
      BY <1>2, <2>2
    <3>2. j < r
      BY <1>1, <1>2, <3>1
    <3>. QED BY <1>2, <2>2, <3>2 DEF LocalGone, Visited
  <2>3. CASE k # m
    <3>1. k \in Nat /\ m \in Nat
      BY <1>2, <2>1
    <3>2. k < m
      BY <2>1, <2>3, <3>1
    <3>. QED BY <1>2, <3>2 DEF LocalGone, Visited
  <2>. QED BY <2>2, <2>3
<1>8. ForOthersKept'
  <2>1. ASSUME NEW k \in DOMAIN mails, k < m + 1 PROVE mails[k] # <<>>
    <3>1. k \in 1 .. Len(mails)
      BY <1>2
    <3>2. k = m \/ k < m
      BY <1>2, <2>1, <3>1
    <3>. QED BY <1>1, <1>2, <3>2 DEF ForOthersKept
  <2>. QED BY <1>1, <1>2, <2>1 DEF ForOthersKept
<1>. QED BY <1>1, <1>2, <1>5, <1>6, <1>7, <1>8, FilterFrame

\* The filter is through, and no local recipient is left.
LEMMA FilteredKeeps ==
  ASSUME IInv, Filtered
  PROVE  IInv'
<1>1. /\ phase = "filter" /\ phase' = "collect" /\ ~(m <= Len(mails))
      /\ m' = 1 /\ r' = 1
      /\ UNCHANGED <<files, accepted, domains, asked>>
      /\ UNCHANGED mxVars /\ UNCHANGED bufferVars /\ UNCHANGED mails
  BY DEF Filtered, MoreMails, FirstMail, domainVars, fileVars
<1>2. /\ mails \in Seq(Seq(Name)) /\ m \in Nat
      /\ domains = <<>> /\ RemoteKept /\ LocalGone /\ ForOthersKept
  BY <1>1 DEF IInv, TypeOK, FileTypeOK, Phases
<1>3. FileInv'
  BY <1>1, <1>2, MailsChange
<1>4. asked' = 0 /\ step' = "idle" /\ MxInv' /\ OnePerDomain' /\ Asked'
  BY <1>1, NothingAsked
<1>5. TypeOK'
  BY <1>1, <1>3, <1>4 DEF IInv, TypeOK, FileInv, MxInv
<1>6. DomainsOfMails'
  BY <1>1 DEF DomainsOfMails
<1>7. CursorsOK'
  <2>1. Len(mails) \in Nat /\ \A k \in 1 .. Len(mails) : Len(mails[k]) \in Nat
    BY <1>2
  <2>. QED BY <1>1, <2>1 DEF CursorsOK
<1>8. RemoteKept'
  BY <1>1, <1>2 DEF RemoteKept
<1>9. NoLocal'
  <2>1. \A k \in DOMAIN mails : k < m
    BY <1>1, <1>2
  <2>. QED BY <1>1, <1>2, <2>1 DEF NoLocal, LocalGone, Visited
<1>10. ToSet(domains)' = VisitedDomains' /\ IsInjective(domains)'
  <2>1. ~ \E k \in DOMAIN mails : \E j \in DOMAIN mails[k] : k < 1 \/ (k = 1 /\ j < 1)
    BY <1>2
  <2>2. VisitedDomains' = {}
    BY <1>1, <2>1 DEF VisitedDomains, Visited
  <2>3. ToSet(<<>>) = {} /\ IsInjective(<<>>)
    BY DEF ToSet, IsInjective
  <2>. QED BY <1>1, <1>2, <2>2, <2>3
<1>11. Phases'
  BY <1>1, <1>4, <1>7, <1>8, <1>9, <1>10 DEF Phases
<1>12. OthersOnly'
  <2>1. \A k \in DOMAIN mails : k < m
    BY <1>1, <1>2
  <2>2. \A k \in DOMAIN mails : mails[k] # <<>> /\ \A j \in DOMAIN mails[k] : mails[k][j] # Local
    BY <1>2, <2>1 DEF ForOthersKept, LocalGone, Visited
  <2>3. ForOthers(mails) = mails
    BY <1>2, <2>2, ForOthersAll
  <2>4. ForOthers(accepted) = mails
    BY <1>2, <2>3 DEF ForOthersKept
  <2>. QED BY <1>1, <2>4 DEF OthersOnly
<1>. QED BY <1>3, <1>4, <1>5, <1>6, <1>11, <1>12 DEF IInv

-----------------------------------------------------------------------------
(* The domains *)

\* A step of the loop keeps the invariant, given that it keeps its own part.
LEMMA CollectFrame ==
  ASSUME IInv, CollectStep, m' \in Nat \ {0}, r' \in Nat \ {0}, domains' \in Seq(Domain),
         CursorsOK', ToSet(domains)' = VisitedDomains', IsInjective(domains)'
  PROVE  IInv'
<1>1. /\ phase = "collect" /\ UNCHANGED <<phase, files, accepted, asked>>
      /\ UNCHANGED mxVars /\ UNCHANGED bufferVars /\ UNCHANGED mails
  BY DEF CollectStep, fileVars
<1>2. RemoteKept' /\ NoLocal'
  BY <1>1 DEF IInv, Phases, RemoteKept, NoLocal
<1>3. FileInv'
  BY <1>1, MailsChange DEF IInv, TypeOK, FileTypeOK
<1>4. asked' = 0 /\ step' = "idle" /\ MxInv' /\ OnePerDomain' /\ Asked'
  BY <1>1, NothingAsked
<1>5. TypeOK'
  <2>1. Len(domains') \in Nat
    OBVIOUS
  <2>. QED BY <1>1, <1>3, <1>4, <2>1 DEF IInv, TypeOK, FileInv, MxInv
<1>6. DomainsOfMails' /\ OthersOnly'
  BY <1>1 DEF IInv, DomainsOfMails, OthersOnly
<1>7. Phases'
  BY <1>1, <1>2, <1>4 DEF Phases
<1>. QED BY <1>3, <1>4, <1>5, <1>6, <1>7 DEF IInv

\* What the loop knows at its start.
LEMMA CollectKnows ==
  ASSUME IInv, CollectStep
  PROVE  /\ mails \in Seq(Seq(Name)) /\ m \in Nat \ {0} /\ r \in Nat \ {0}
         /\ mails' = mails /\ domains \in Seq(Domain)
         /\ m \in DOMAIN mails /\ mails[m] \in Seq(Name) /\ Len(mails[m]) \in Nat
         /\ r \in 1 .. Len(mails[m]) + 1
         /\ NoLocal /\ ToSet(domains) = VisitedDomains /\ IsInjective(domains)
<1>1. phase = "collect" /\ m <= Len(mails) /\ mails' = mails
  BY DEF CollectStep, MoreMails, fileVars
<1>2. CursorsOK /\ NoLocal /\ ToSet(domains) = VisitedDomains /\ IsInjective(domains)
  BY <1>1 DEF IInv, Phases
<1>3. /\ mails \in Seq(Seq(Name)) /\ m \in Nat \ {0} /\ r \in Nat \ {0}
      /\ domains \in Seq(Domain)
  BY DEF IInv, TypeOK, FileTypeOK
<1>4. m \in DOMAIN mails /\ r \in 1 .. Len(mails[m]) + 1
  BY <1>1, <1>2, <1>3 DEF CursorsOK
<1>5. mails[m] \in Seq(Name)
  BY <1>3, <1>4
<1>6. Len(mails[m]) \in Nat
  BY <1>5
<1>. QED BY <1>1, <1>2, <1>3, <1>4, <1>5, <1>6

\* domain_add
LEMMA DomainAddKeeps ==
  ASSUME IInv, DomainAdd
  PROVE  IInv'
<1> DEFINE d == mails[m][r]
<1>1. /\ CollectStep /\ r <= Len(mails[m])
      /\ domains' = IF d = Local \/ Exists(d) THEN domains ELSE Append(domains, d)
      /\ m' = m /\ r' = r + 1
  BY DEF DomainAdd, MoreRcpts, NextRcpt
<1>2. /\ mails \in Seq(Seq(Name)) /\ m \in Nat \ {0} /\ r \in Nat \ {0}
      /\ mails' = mails /\ domains \in Seq(Domain)
      /\ m \in DOMAIN mails /\ mails[m] \in Seq(Name) /\ Len(mails[m]) \in Nat
      /\ r \in 1 .. Len(mails[m])
      /\ NoLocal /\ ToSet(domains) = VisitedDomains /\ IsInjective(domains)
  BY <1>1, CollectKnows
<1>3. d \in Name /\ d # Local /\ d \in Domain
  <2>1. r \in DOMAIN mails[m]
    BY <1>2
  <2>2. d \in Name /\ d # Local
    BY <1>2, <2>1 DEF NoLocal
  <2>. QED BY <2>2, BatchAssumption
<1>4. VisitedDomains' = VisitedDomains \cup {d}
  <2>1. r \in DOMAIN mails[m]
    BY <1>2
  <2>2. ASSUME NEW k \in DOMAIN mails, NEW j \in DOMAIN mails[k]
        PROVE  (k < m \/ (k = m /\ j < r + 1)) <=> (k < m \/ (k = m /\ j < r)) \/ (k = m /\ j = r)
    <3>1. CASE k = m
      <4>1. j \in 1 .. Len(mails[m])
        BY <1>2, <3>1
      <4>. QED BY <1>2, <3>1, <4>1
    <3>. QED BY <3>1
  <2>3. ASSUME NEW e \in Name
        PROVE  e \in VisitedDomains' <=> e \in VisitedDomains \/ e = d
    <3>1. e \in VisitedDomains' <=>
            \E k \in DOMAIN mails : \E j \in DOMAIN mails[k] :
              (k < m \/ (k = m /\ j < r + 1)) /\ mails[k][j] = e
      BY <1>1, <1>2 DEF VisitedDomains, Visited
    <3>2. e \in VisitedDomains <=>
            \E k \in DOMAIN mails : \E j \in DOMAIN mails[k] :
              (k < m \/ (k = m /\ j < r)) /\ mails[k][j] = e
      BY DEF VisitedDomains, Visited
    <3>3. (e = d) <=>
            \E k \in DOMAIN mails : \E j \in DOMAIN mails[k] : (k = m /\ j = r) /\ mails[k][j] = e
      BY <1>2, <2>1
    <3>. QED BY <2>2, <3>1, <3>2, <3>3
  <2>4. VisitedDomains \subseteq Name /\ VisitedDomains' \subseteq Name
    BY DEF VisitedDomains
  <2>. QED BY <1>3, <2>3, <2>4
<1> HIDE DEF d
<1>5. /\ domains' \in Seq(Domain) /\ ToSet(domains') = ToSet(domains) \cup {d}
      /\ IsInjective(domains')
  <2>1. CASE Exists(d)
    <3>1. d \in ToSet(domains)
      BY <1>2, <1>3, <2>1, AddedOne DEF Exists
    <3>. QED BY <1>1, <1>2, <2>1, <3>1
  <2>2. CASE ~Exists(d)
    <3>1. domains' = Append(domains, d) /\ ~Contains(domains, d)
      BY <1>1, <1>3, <2>2 DEF Exists
    <3>2. /\ ToSet(Append(domains, d)) = ToSet(domains) \cup {d}
          /\ IsInjective(Append(domains, d))
      BY <1>2, <1>3, <3>1, AddedOne
    <3>3. Append(domains, d) \in Seq(Domain)
      BY <1>2, <1>3
    <3>. QED BY <3>1, <3>2, <3>3
  <2>. QED BY <2>1, <2>2
<1>6. CursorsOK'
  <2>1. m' \in 1 .. Len(mails') + 1
    BY <1>1, <1>2
  <2>2. r' \in 1 .. Len(mails'[m']) + 1
    BY <1>1, <1>2
  <2>. QED BY <2>1, <2>2 DEF CursorsOK
<1>7. ToSet(domains)' = VisitedDomains' /\ IsInjective(domains)'
  BY <1>2, <1>4, <1>5
<1>. QED BY <1>1, <1>2, <1>5, <1>6, <1>7, CollectFrame

\* The next mail
LEMMA MailCollectedKeeps ==
  ASSUME IInv, MailCollected
  PROVE  IInv'
<1>1. /\ CollectStep /\ ~(r <= Len(mails[m])) /\ domains' = domains
      /\ m' = m + 1 /\ r' = 1
  BY DEF MailCollected, MoreRcpts, NextMail
<1>2. /\ mails \in Seq(Seq(Name)) /\ m \in Nat \ {0} /\ r \in Nat \ {0}
      /\ mails' = mails /\ domains \in Seq(Domain)
      /\ m \in DOMAIN mails /\ mails[m] \in Seq(Name) /\ Len(mails[m]) \in Nat
      /\ r \in 1 .. Len(mails[m]) + 1
      /\ NoLocal /\ ToSet(domains) = VisitedDomains /\ IsInjective(domains)
  BY <1>1, CollectKnows
<1>3. VisitedDomains' = VisitedDomains
  <2>1. ASSUME NEW k \in DOMAIN mails, NEW j \in DOMAIN mails[k]
        PROVE  (k < m + 1 \/ (k = m + 1 /\ j < 1)) <=> (k < m \/ (k = m /\ j < r))
    <3>1. k \in 1 .. Len(mails)
      BY <1>2
    <3>2. CASE k = m
      <4>1. j \in 1 .. Len(mails[m])
        BY <1>2, <3>2
      <4>. QED BY <1>1, <1>2, <3>2, <4>1
    <3>3. CASE k # m
      <4>1. j >= 1
        BY <1>2
      <4>. QED BY <1>2, <3>1, <3>3, <4>1
    <3>. QED BY <3>2, <3>3
  <2>. QED BY <1>1, <1>2, <2>1 DEF VisitedDomains, Visited
<1>4. CursorsOK'
  <2>1. Len(mails) \in Nat /\ m \in 1 .. Len(mails)
    BY <1>2
  <2>2. m' \in 1 .. Len(mails') + 1
    BY <1>1, <1>2, <2>1
  <2>3. ASSUME m + 1 <= Len(mails) PROVE Len(mails[m + 1]) \in Nat
    <3>1. m + 1 \in DOMAIN mails
      BY <1>2, <2>1, <2>3
    <3>2. mails[m + 1] \in Seq(Name)
      BY <1>2, <3>1
    <3>. QED BY <3>2
  <2>. QED BY <1>1, <1>2, <2>2, <2>3 DEF CursorsOK
<1>5. ToSet(domains)' = VisitedDomains' /\ IsInjective(domains)'
  BY <1>1, <1>2, <1>3
<1>. QED BY <1>1, <1>2, <1>4, <1>5, CollectFrame

\* All domains are there.
LEMMA DomainsCollectedKeeps ==
  ASSUME IInv, DomainsCollected
  PROVE  IInv'
<1>1. /\ phase = "collect" /\ phase' = "connect" /\ ~(m <= Len(mails))
      /\ UNCHANGED <<files, m, r, accepted, domains, asked>>
      /\ UNCHANGED mxVars /\ UNCHANGED bufferVars /\ UNCHANGED mails
  BY DEF DomainsCollected, MoreMails, cursors, domainVars, fileVars
<1>2. /\ mails \in Seq(Seq(Name)) /\ m \in Nat
      /\ RemoteKept /\ NoLocal /\ ToSet(domains) = VisitedDomains /\ IsInjective(domains)
  BY <1>1 DEF IInv, TypeOK, FileTypeOK, Phases
<1>3. FileInv'
  BY <1>1, <1>2, MailsChange
<1>4. asked' = 0 /\ step' = "idle" /\ MxInv' /\ OnePerDomain' /\ Asked'
  BY <1>1, NothingAsked
<1>5. TypeOK'
  BY <1>1, <1>3, <1>4 DEF IInv, TypeOK, FileInv, MxInv
<1>6. DomainsOfMails'
  <2>1. \A k \in DOMAIN mails : k < m
    BY <1>1, <1>2
  <2>2. VisitedDomains = RcptDomains(mails)
    BY <2>1 DEF VisitedDomains, Visited, RcptDomains
  <2>3. Local \notin RcptDomains(mails)
    BY <1>2 DEF NoLocal, RcptDomains
  <2>4. RcptDomains(mails) = RcptDomains(accepted) \ {Local}
    BY <1>2, <2>3 DEF RemoteKept
  <2>. QED BY <1>1, <1>2, <2>2, <2>4 DEF DomainsOfMails
<1>7. Phases' /\ OthersOnly'
  BY <1>1, <1>4 DEF IInv, Phases, OthersOnly
<1>. QED BY <1>3, <1>4, <1>5, <1>6, <1>7 DEF IInv

-----------------------------------------------------------------------------
(* The connections *)

\* While the domains are gone through, the mails and the domains stay.
LEMMA ConnectFrame ==
  ASSUME IInv, phase = "connect", phase' \in {"connect", "done"},
         UNCHANGED <<files, cursors, accepted, domains, fileVars>>,
         phase' = "done" => step' = "idle",
         asked' \in 0 .. Len(domains), MxInv', OnePerDomain', Asked'
  PROVE  IInv'
<1>1. UNCHANGED <<files, m, r, accepted, domains>> /\ UNCHANGED bufferVars /\ UNCHANGED mails
  BY DEF cursors, fileVars
<1>2. FileInv'
  BY <1>1, MailsChange DEF IInv, TypeOK, FileTypeOK
<1>3. TypeOK'
  BY <1>1, <1>2 DEF IInv, TypeOK, FileInv, MxInv
<1>4. DomainsOfMails' /\ OthersOnly'
  BY <1>1 DEF IInv, DomainsOfMails, OthersOnly
<1>5. Phases'
  BY DEF Phases
<1>. QED BY <1>2, <1>3, <1>4, <1>5 DEF IInv

\* create_connection is called for the next domain.
LEMMA NextDomainKeeps ==
  ASSUME IInv, NextDomain
  PROVE  IInv'
<1>1. /\ phase = "connect" /\ phase' = "connect" /\ asked < Len(domains)
      /\ CreateConnection(domains[asked + 1]) /\ asked' = asked + 1
      /\ UNCHANGED <<files, cursors, accepted, domains, fileVars>>
  BY DEF NextDomain
<1>2. domains \in Seq(Domain) /\ asked \in 0 .. Len(domains) /\ Len(domains) \in Nat
  BY DEF IInv, TypeOK
<1>3. domains[asked + 1] \in Domain
  <2>1. asked + 1 \in 1 .. Len(domains)
    BY <1>1, <1>2
  <2>. QED BY <1>2, <2>1
<1>4. MxInv'
  BY <1>1, <1>3, CreateKeeps DEF IInv
<1>5. /\ step = "idle" /\ step' = "query" /\ dom' = domains[asked + 1]
      /\ conns' = conns /\ domains' = domains
  BY <1>1 DEF CreateConnection
<1>6. OnePerDomain'
  BY <1>1, <1>2, <1>5 DEF IInv, OnePerDomain
<1>7. Asked'
  <2>1. Through = asked /\ Through' = asked
    BY <1>1, <1>2, <1>5 DEF Through
  <2>. QED BY <1>1, <1>2, <1>5, <2>1 DEF IInv, Asked
<1>8. asked' \in 0 .. Len(domains)
  BY <1>1, <1>2
<1>. QED BY <1>1, <1>4, <1>6, <1>7, <1>8, ConnectFrame

\* A step on the way to a server.
LEMMA ConnectMxKeeps ==
  ASSUME IInv, ConnectMx
  PROVE  IInv'
<1>1. /\ phase = "connect" /\ phase' = "connect" /\ LookUp
      /\ asked' = asked /\ UNCHANGED <<files, cursors, accepted, domains, fileVars>>
  BY DEF ConnectMx, domainVars
<1>2. MxInv'
  BY <1>1, LookUpKeeps DEF IInv
<1>3. domains \in Seq(Domain) /\ asked \in 0 .. Len(domains) /\ Len(domains) \in Nat
  BY DEF IInv, TypeOK
<1>4. step # "idle" /\ dom' = dom
  BY <1>1 DEF LookUp, CheckDns, QueryFails, QueryAnswers, ReadRecord, NoMx, BestMx, NoAddress,
     Addresses, ConnectToAny, SocketFails, OpenSocket, ConnectFails, Connect, AddressesExhausted,
     GivesUp, mxVars
<1>5. /\ asked > 0 /\ dom = domains[asked]
      /\ \A k \in DOMAIN conns : \E j \in 1 .. asked - 1 : domains[j] = conns[k].dom
  BY <1>4 DEF IInv, Asked, Through
<1>6. Through' \in {asked - 1, asked}
  BY <1>1 DEF Through
<1>7. OnePerDomain' /\ Asked'
  <2>1. CASE Connect
    <3>1. PICK up \in BOOLEAN :
            conns' = Append(conns, [dom |-> dom, host |-> best.host, up |-> up])
      BY <2>1 DEF Connect
    <3>2. step' = "idle" /\ Through' = asked
      BY <1>1, <2>1 DEF Connect, Through
    <3> DEFINE c == [dom |-> dom, host |-> best.host, up |-> up]
               C == [dom : Domain, host : Host, up : BOOLEAN]
    <3>3. c \in C /\ conns \in Seq(C) /\ c.dom = dom
      <4>1. dom \in Domain /\ conns \in Seq(C) /\ best.prio < Worst
        BY <2>1 DEF IInv, MxInv, MxTypeOK, Connect
      <4>2. best.host \in Host
        BY <4>1, BestIsHost DEF IInv
      <4>. QED BY <4>1, <4>2
    <3> HIDE DEF c, C
    <3>4. /\ conns' = Append(conns, c) /\ Len(conns) \in Nat
          /\ DOMAIN conns = 1 .. Len(conns) /\ DOMAIN conns' = 1 .. Len(conns) + 1
          /\ \A k \in 1 .. Len(conns) : conns'[k] = conns[k]
          /\ conns'[Len(conns) + 1] = c
      BY <3>1, <3>3, Longer DEF c
    <3>5. ASSUME NEW k \in DOMAIN conns' PROVE \E j \in 1 .. asked : domains[j] = conns'[k].dom
      <4>1. CASE k \in 1 .. Len(conns)
        BY <1>3, <1>5, <3>4, <4>1
      <4>2. CASE k = Len(conns) + 1
        <5>1. asked \in 1 .. asked /\ domains[asked] = conns'[k].dom
          BY <1>3, <1>5, <3>3, <3>4, <4>2
        <5>. QED BY <5>1
      <4>. QED BY <3>4, <4>1, <4>2
    <3>6. ASSUME NEW k \in DOMAIN conns', NEW j \in 1 .. k - 1
          PROVE  conns'[j].dom # conns'[k].dom
      <4>1. j \in 1 .. Len(conns) /\ conns'[j] = conns[j]
        BY <3>4
      <4>2. CASE k \in 1 .. Len(conns)
        BY <3>4, <4>1, <4>2 DEF IInv, OnePerDomain
      <4>3. CASE k = Len(conns) + 1
        <5>1. PICK i \in 1 .. asked - 1 : domains[i] = conns[j].dom
          BY <1>5, <3>4, <4>1
        <5>2. IsInjective(domains)
          BY <1>1 DEF IInv, DomainsOfMails
        <5>3. i \in DOMAIN domains /\ asked \in DOMAIN domains /\ i # asked
          BY <1>3, <1>5
        <5>4. domains[i] # domains[asked]
          BY <5>2, <5>3 DEF IsInjective
        <5>. QED BY <1>5, <3>3, <3>4, <4>1, <4>3, <5>1, <5>4
      <4>. QED BY <3>4, <4>2, <4>3
    <3>. QED BY <1>1, <3>2, <3>5, <3>6 DEF OnePerDomain, Asked
  <2>2. CASE ~Connect
    <3>1. conns' = conns
      BY <1>1, <2>2 DEF LookUp, CheckDns, QueryFails, QueryAnswers, ReadRecord, NoMx, BestMx,
         NoAddress, Addresses, ConnectToAny, SocketFails, OpenSocket, ConnectFails,
         AddressesExhausted, GivesUp
    <3>2. OnePerDomain'
      BY <1>1, <3>1 DEF IInv, OnePerDomain
    <3>3. Asked'
      BY <1>1, <1>3, <1>4, <1>5, <1>6, <3>1 DEF Asked
    <3>. QED BY <3>2, <3>3
  <2>. QED BY <2>1, <2>2
<1>8. asked' \in 0 .. Len(domains)
  BY <1>1, <1>3
<1>. QED BY <1>1, <1>2, <1>7, <1>8, ConnectFrame

\* conn_init returns.
LEMMA InitDoneKeeps ==
  ASSUME IInv, InitDone
  PROVE  IInv'
<1>1. /\ phase = "connect" /\ phase' = "done" /\ step = "idle" /\ asked' = asked
      /\ UNCHANGED <<files, cursors, accepted, domains, fileVars>> /\ UNCHANGED mxVars
  BY DEF InitDone, domainVars
<1>2. MxInv'
  BY <1>1, MxFrame DEF IInv
<1>3. step' = step /\ dom' = dom /\ conns' = conns /\ domains' = domains
  BY <1>1 DEF mxVars
<1>4. OnePerDomain' /\ Asked'
  BY <1>1, <1>3 DEF IInv, OnePerDomain, Asked, Through
<1>5. asked' \in 0 .. Len(domains)
  BY <1>1 DEF IInv, TypeOK
<1>. QED BY <1>1, <1>2, <1>3, <1>4, <1>5, ConnectFrame

-----------------------------------------------------------------------------
(* The invariant, and what it contains *)

\* One step of conn_init, or none of it.
LEMMA NextKeeps == IInv /\ [Next]_vars => IInv'
<1> SUFFICES ASSUME IInv, [Next]_vars PROVE IInv'
  OBVIOUS
<1>1. CASE ReadAllMail
  BY <1>1, ReadKeeps, NothingReadKeeps, AllReadKeeps DEF ReadAllMail
<1>2. CASE FilterMyMail
  BY <1>2, RemoveLocalKeeps, KeepRemoteKeeps, LocalOnlyKeeps, RemoteTooKeeps, FilteredKeeps
     DEF FilterMyMail
<1>3. CASE CollectDomains
  BY <1>3, DomainAddKeeps, MailCollectedKeeps, DomainsCollectedKeeps DEF CollectDomains
<1>4. CASE CreateConnections
  BY <1>4, NextDomainKeeps, ConnectMxKeeps, InitDoneKeeps DEF CreateConnections
<1>5. CASE UNCHANGED vars
  <2>1. /\ UNCHANGED <<phase, files, m, r, accepted, domains, asked>>
        /\ UNCHANGED mxVars /\ UNCHANGED bufferVars /\ UNCHANGED mails
    BY <1>5 DEF vars, cursors, domainVars, fileVars
  <2>2. FileInv' /\ MxInv'
    BY <2>1, MailsChange, MxFrame DEF IInv, TypeOK, FileTypeOK
  <2>3. TypeOK' /\ DomainsOfMails' /\ OthersOnly'
    BY <2>1, <2>2 DEF IInv, TypeOK, FileInv, MxInv, DomainsOfMails, OthersOnly
  <2>4. step' = step /\ dom' = dom /\ conns' = conns
    BY <2>1 DEF mxVars
  <2>5. OnePerDomain' /\ Asked'
    BY <2>1, <2>4 DEF IInv, OnePerDomain, Asked, Through
  <2>6. Phases'
    BY <2>1, <2>4 DEF IInv, Phases, CursorsOK, RemoteKept, LocalGone, ForOthersKept, NoLocal,
       VisitedDomains, Visited
  <2>. QED BY <2>2, <2>3, <2>5, <2>6 DEF IInv
<1>. QED BY <1>1, <1>2, <1>3, <1>4, <1>5 DEF Next

\* The invariant of the start of a batch, for any domains and files, any
\* answers of the resolver and any failures of the network.
THEOREM Invariance == Spec => []IInv
BY InitInv, NextKeeps, PTL DEF Spec

\* The variables are within their types.
THEOREM TypeCorrect == Spec => []TypeOK
<1>1. IInv => TypeOK
  BY DEF IInv
<1>. QED BY <1>1, Invariance, PTL

\* The text of a mail never outgrows the room there is for it.
THEOREM TextInside == Spec => []TextFits
<1>1. IInv => TextFits
  BY DEF IInv, FileInv
<1>. QED BY <1>1, Invariance, PTL

\* A file is accepted exactly if it is well formed, with all its recipients.
THEOREM OnlyWellFormed == Spec => []ReadsWellFormed
<1>1. IInv => ReadsWellFormed
  BY DEF IInv, FileInv
<1>. QED BY <1>1, Invariance, PTL

\* check_dns takes the first of the best servers.
THEOREM BestServer == Spec => []BestIsFirst
<1>1. IInv => BestIsFirst
  BY DEF IInv, MxInv
<1>. QED BY <1>1, Invariance, PTL

\* No socket is lost.
THEOREM NoSocketLost == Spec => []SocketsAccounted
<1>1. IInv => SocketsAccounted
  BY DEF IInv, MxInv
<1>. QED BY <1>1, Invariance, PTL

\* The walks of create_connection end, and each remote domain is sought once.
THEOREM WalksEnd == Spec => []DomainsOfMails
<1>1. IInv => DomainsOfMails
  BY DEF IInv
<1>. QED BY <1>1, Invariance, PTL

\* What the filter hands on is, of the mails as they were read, what is for
\* others: nothing is missed or left behind by taking out of the lists while
\* they are walked.
THEOREM FilterExact == Spec => []OthersOnly
<1>1. IInv => OthersOnly
  BY DEF IInv
<1>. QED BY <1>1, Invariance, PTL
=============================================================================

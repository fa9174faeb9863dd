-------------------------- MODULE UsageRollupProofs --------------------------
(***************************************************************************)
(* The picker beside the usage rollup, for any accounts and any lists of   *)
(* candidates that name none twice: a request goes to a usable candidate,  *)
(* and a rotation uses each before it repeats any.  For any lists at all,  *)
(* what the panel shows is what ended: no report is lost, counted twice or *)
(* booked under another account.                                           *)
(***************************************************************************)
EXTENDS UsageRollup, FiniteSetTheorems, NaturalsInduction, WellFoundedInduction, TLAPS

-----------------------------------------------------------------------------
\* Induction on a set of numbers, from the least number outside it.
LEMMA Least == ASSUME NEW T \in SUBSET Nat, T # {} PROVE \E x \in T : \A y \in T : x <= y
<1> DEFINE R == OpToRel(<, Nat)
<1>1. IsWellFoundedOn(R, Nat)
  BY NatLessThanWellFounded
<1> HIDE DEF R
<1>2. PICK x \in T : \A y \in T : <<y, x>> \notin R
  BY <1>1, WFMin
<1>3. \A y \in T : ~(y < x)
  BY <1>2 DEF R, OpToRel
<1> QED
  BY <1>3

LEMMA Counting ==
  ASSUME NEW T \in SUBSET Nat, 0 \in T, \A n \in T : n + 1 \in T
  PROVE  T = Nat
<1> SUFFICES ASSUME T # Nat PROVE FALSE
  OBVIOUS
<1>1. PICK x \in Nat \ T : \A y \in Nat \ T : x <= y
  <2>1. Nat \ T \in SUBSET Nat /\ Nat \ T # {}
    OBVIOUS
  <2> QED
    BY <2>1, Least
<1>2. x - 1 \in T
  BY <1>1
<1> QED
  BY <1>1, <1>2

\* The loop of usableCandidates (scheduler_pick.go:123-132), candidate by candidate.
Loop(f, m, candidates, unavailable) ==
  f = [n \in 0..m |-> IF n = 0 THEN <<>>
                      ELSE IF candidates[n] \in unavailable THEN f[n - 1]
                      ELSE Append(f[n - 1], candidates[n])]

LEMMA LoopDefined ==
  ASSUME NEW S, NEW candidates \in Seq(S), NEW unavailable
  PROVE  \E f : /\ Loop(f, Len(candidates), candidates, unavailable)
                /\ Without(candidates, unavailable) = f[Len(candidates)]
<1> DEFINE T == {m \in Nat : \E f : Loop(f, m, candidates, unavailable)}
<1>1. 0 \in T
  <2>1. Loop([n \in 0..0 |-> <<>>], 0, candidates, unavailable)
    BY DEF Loop
  <2> QED
    BY <2>1
<1>2. ASSUME NEW m \in T PROVE m + 1 \in T
  <2>1. PICK f : Loop(f, m, candidates, unavailable)
    OBVIOUS
  <2> DEFINE last == IF candidates[m + 1] \in unavailable THEN f[m]
                     ELSE Append(f[m], candidates[m + 1])
             g == [n \in 0..(m + 1) |-> IF n = m + 1 THEN last ELSE f[n]]
             body(n) == IF n = 0 THEN <<>>
                        ELSE IF candidates[n] \in unavailable THEN g[n - 1]
                        ELSE Append(g[n - 1], candidates[n])
  <2>2. (\A n \in 0..m : g[n] = f[n]) /\ g[m + 1] = last /\ g = [n \in 0..(m + 1) |-> g[n]]
    OBVIOUS
  <2>3. ASSUME NEW n \in 0..(m + 1) PROVE g[n] = body(n)
    <3>1. CASE n = m + 1
      <4>1. n - 1 = m /\ n # 0 /\ g[m] = f[m]
        BY <2>2, <3>1
      <4> QED
        BY <2>2, <3>1, <4>1
    <3>2. CASE n \in 0..m
      <4>1. n = 0 \/ n - 1 \in 0..m
        BY <3>2
      <4>2. f[n] = IF n = 0 THEN <<>>
                   ELSE IF candidates[n] \in unavailable THEN f[n - 1]
                   ELSE Append(f[n - 1], candidates[n])
        BY <2>1, <3>2 DEF Loop
      <4> HIDE DEF g
      <4> QED
        BY <2>2, <3>2, <4>1, <4>2
    <3> QED
      BY <3>1, <3>2
  <2>4. [n \in 0..(m + 1) |-> g[n]] = [n \in 0..(m + 1) |-> body(n)]
    <3> HIDE DEF g, body
    <3> QED
      BY <2>3
  <2>5. Loop(g, m + 1, candidates, unavailable)
    <3> HIDE DEF g
    <3> QED
      BY <2>2, <2>4 DEF Loop
  <2> HIDE DEF g
  <2> QED
    BY <2>5
<1>3. Len(candidates) \in T
  <2> HIDE DEF T
  <2>1. T \in SUBSET Nat
    BY DEF T
  <2>2. T = Nat
    BY <1>1, <1>2, <2>1, Counting
  <2> QED
    BY <2>2
<1> DEFINE out == CHOOSE f : Loop(f, Len(candidates), candidates, unavailable)
<1>4. Loop(out, Len(candidates), candidates, unavailable)
  BY <1>3
<1>5. Without(candidates, unavailable) = out[Len(candidates)]
  BY DEF Without, Loop
<1> HIDE DEF out
<1> QED
  BY <1>4, <1>5

\* What usableCandidates has after m candidates: some of them, none of those
\* unavailable, and none twice.
Sifted(S, s, m, candidates, unavailable) ==
  /\ s \in Seq(S)
  /\ \A i \in 1..Len(s) : s[i] \notin unavailable /\ \E j \in 1..m : s[i] = candidates[j]
  /\ IsInjective(candidates) => \A i, j \in 1..Len(s) : s[i] = s[j] => i = j

LEMMA SiftedOne ==
  ASSUME NEW S, NEW candidates \in Seq(S), NEW unavailable, NEW s,
         NEW m \in Nat, m + 1 <= Len(candidates), Sifted(S, s, m, candidates, unavailable),
         candidates[m + 1] \notin unavailable
  PROVE  Sifted(S, Append(s, candidates[m + 1]), m + 1, candidates, unavailable)
<1> DEFINE a == candidates[m + 1]
           t == Append(s, a)
<1>1. a \in S /\ (IsInjective(candidates) => \A j \in 1..m : candidates[j] # a)
  BY DEF IsInjective
<1>2. /\ s \in Seq(S) /\ Len(s) \in Nat
      /\ \A i \in 1..Len(s) : s[i] \notin unavailable /\ \E j \in 1..m : s[i] = candidates[j]
      /\ IsInjective(candidates) => \A i, j \in 1..Len(s) : s[i] = s[j] => i = j
  BY DEF Sifted
<1>3. /\ t \in Seq(S) /\ Len(t) = Len(s) + 1 /\ t[Len(s) + 1] = a
      /\ \A i \in 1..Len(s) : t[i] = s[i]
  BY <1>1, <1>2
<1>4. IsInjective(candidates) => \A i \in 1..Len(s) : s[i] # a
  BY <1>1, <1>2
<1> HIDE DEF t
<1>5. ASSUME NEW i \in 1..Len(t)
      PROVE  t[i] \notin unavailable /\ \E j \in 1..(m + 1) : t[i] = candidates[j]
  <2>1. CASE i \in 1..Len(s)
    <3>1. PICK j \in 1..m : s[i] = candidates[j]
      BY <1>2, <2>1
    <3>2. j \in 1..(m + 1)
      OBVIOUS
    <3> QED
      BY <1>2, <1>3, <2>1, <3>1, <3>2
  <2>2. CASE i = Len(s) + 1
    <3>1. m + 1 \in 1..(m + 1) /\ t[i] = candidates[m + 1]
      BY <1>3, <2>2
    <3> QED
      BY <3>1
  <2> QED
    BY <1>2, <1>3, <2>1, <2>2
<1>6. ASSUME IsInjective(candidates), NEW i \in 1..Len(t), NEW j \in 1..Len(t), t[i] = t[j]
      PROVE  i = j
  <2>1. (i \in 1..Len(s) \/ i = Len(s) + 1) /\ (j \in 1..Len(s) \/ j = Len(s) + 1)
    BY <1>2, <1>3
  <2> QED
    BY <1>2, <1>3, <1>4, <1>6, <2>1
<1> QED
  BY <1>3, <1>5, <1>6 DEF Sifted

\* What usableCandidates returns: candidates only, none of them unavailable, and
\* none twice if none was offered twice.
LEMMA WithoutSound ==
  ASSUME NEW S, NEW candidates \in Seq(S), NEW unavailable
  PROVE  /\ Without(candidates, unavailable) \in Seq(S)
         /\ IsInjective(candidates) => IsInjective(Without(candidates, unavailable))
         /\ \A i \in 1..Len(Without(candidates, unavailable)) :
              Without(candidates, unavailable)[i] \notin unavailable
<1>1. PICK f : /\ Loop(f, Len(candidates), candidates, unavailable)
               /\ Without(candidates, unavailable) = f[Len(candidates)]
  BY LoopDefined
<1>2. Len(candidates) \in Nat
  OBVIOUS
<1> DEFINE T == {m \in Nat : m <= Len(candidates) => Sifted(S, f[m], m, candidates, unavailable)}
<1>3. 0 \in T
  <2>1. f[0] = <<>>
    BY <1>1, <1>2 DEF Loop
  <2>2. Sifted(S, <<>>, 0, candidates, unavailable)
    BY DEF Sifted
  <2> QED
    BY <2>1, <2>2
<1>4. ASSUME NEW m \in T PROVE m + 1 \in T
  <2> SUFFICES ASSUME m + 1 <= Len(candidates)
               PROVE  Sifted(S, f[m + 1], m + 1, candidates, unavailable)
    OBVIOUS
  <2>1. m \in Nat /\ Sifted(S, f[m], m, candidates, unavailable)
    BY <1>2
  <2>2. f[m + 1] = IF candidates[m + 1] \in unavailable THEN f[m]
                   ELSE Append(f[m], candidates[m + 1])
    <3>1. m + 1 \in 0..Len(candidates) /\ m + 1 # 0 /\ (m + 1) - 1 = m
      BY <1>2, <2>1
    <3> QED
      BY <1>1, <3>1 DEF Loop
  <2>3. CASE candidates[m + 1] \in unavailable
    BY <2>1, <2>2, <2>3 DEF Sifted
  <2>4. CASE candidates[m + 1] \notin unavailable
    BY <2>1, <2>2, <2>4, SiftedOne
  <2> QED
    BY <2>3, <2>4
<1>5. Sifted(S, f[Len(candidates)], Len(candidates), candidates, unavailable)
  <2> HIDE DEF T
  <2>1. T \in SUBSET Nat
    BY DEF T
  <2>2. T = Nat
    BY <1>3, <1>4, <2>1, Counting
  <2> QED
    BY <1>2, <2>2 DEF T
<1> QED
  BY <1>1, <1>5 DEF Sifted, IsInjective

\* An element appended to the list comes last of what is left, or is dropped.
LEMMA WithoutAppended ==
  ASSUME NEW S, NEW list \in Seq(S), NEW x \in S, NEW dropped
  PROVE  Without(Append(list, x), dropped) =
           IF x \in dropped THEN Without(list, dropped) ELSE Append(Without(list, dropped), x)
<1> DEFINE n == Len(list)
           more == Append(list, x)
<1>1. /\ n \in Nat /\ more \in Seq(S) /\ Len(more) = n + 1 /\ more[n + 1] = x
      /\ \A i \in 1..n : more[i] = list[i]
  OBVIOUS
<1>2. PICK f : Loop(f, n, list, dropped) /\ Without(list, dropped) = f[n]
  BY LoopDefined
<1> HIDE DEF more
<1>3. PICK g : Loop(g, n + 1, more, dropped) /\ Without(more, dropped) = g[n + 1]
  BY <1>1, LoopDefined
<1> HIDE DEF n
<1> DEFINE T == {m \in Nat : m <= n => g[m] = f[m]}
<1>4. 0 \in T
  <2>1. 0 \in 0..n /\ 0 \in 0..(n + 1)
    BY <1>1
  <2> QED
    BY <1>2, <1>3, <2>1 DEF Loop
<1>5. ASSUME NEW m \in T PROVE m + 1 \in T
  <2> SUFFICES ASSUME m + 1 <= n PROVE g[m + 1] = f[m + 1]
    OBVIOUS
  <2>1. /\ m + 1 \in 0..n /\ m + 1 \in 0..(n + 1) /\ m + 1 # 0 /\ (m + 1) - 1 = m
        /\ m + 1 \in 1..n /\ g[m] = f[m]
    BY <1>1
  <2>2. /\ f[m + 1] = IF list[m + 1] \in dropped THEN f[m] ELSE Append(f[m], list[m + 1])
        /\ g[m + 1] = IF more[m + 1] \in dropped THEN g[m] ELSE Append(g[m], more[m + 1])
    BY <1>2, <1>3, <2>1 DEF Loop
  <2> QED
    BY <1>1, <2>1, <2>2
<1>6. g[n] = f[n]
  <2> HIDE DEF T
  <2>1. T \in SUBSET Nat
    BY DEF T
  <2>2. T = Nat
    BY <1>4, <1>5, <2>1, Counting
  <2> QED
    BY <1>1, <2>2 DEF T
<1>7. g[n + 1] = IF x \in dropped THEN g[n] ELSE Append(g[n], x)
  <2>1. n + 1 \in 0..(n + 1) /\ n + 1 # 0 /\ (n + 1) - 1 = n
    BY <1>1
  <2> QED
    BY <1>1, <1>3, <2>1 DEF Loop
<1> QED
  BY <1>2, <1>3, <1>6, <1>7 DEF more

-----------------------------------------------------------------------------
\* No list of candidates names an account twice.
DistinctOffers == \A offer \in Offers : IsInjective(offer)

\* The rotation read backwards from the cursor: where in the list of n the i-th of
\* the m latest picks was.
Turn(cursor, m, i, n) == IF cursor - m + i >= 1 THEN cursor - m + i ELSE cursor - m + i + n

Rounds(candidates, cursor, picks) ==
  /\ picks \in Seq(Pool) /\ Len(picks) <= Len(candidates)
  /\ picks # <<>> =>
       /\ cursor < Len(candidates)
       /\ \A i \in 1..Len(picks) :
            picks[i] = candidates[Turn(cursor, Len(picks), i, Len(candidates))]

PickInv ==
  /\ usable \in Seq(Pool) /\ (DistinctOffers => IsInjective(usable))
  /\ \A i \in 1..Len(usable) : usable[i] \notin down
  /\ picker.cursor \in Nat
  /\ Rounds(usable, picker.cursor, round)
  /\ picked # NoAccount => \E i \in 1..Len(usable) : picked = usable[i]

\* The arithmetic of a rotation.
LEMMA Modulo ==
  ASSUME NEW n \in Nat \ {0}, NEW x \in Nat
  PROVE  /\ x % n \in 0..(n - 1)
         /\ x < n => x % n = x /\ (x + 1) % n = IF x + 1 = n THEN 0 ELSE x + 1
<1>1. x % n \in 0..(n - 1)
  OBVIOUS
<1>2. ASSUME NEW y \in Nat, y < n PROVE y % n = y
  BY <1>2
<1>3. n % n = 0
  OBVIOUS
<1> QED
  BY <1>1, <1>2, <1>3

LEMMA TurnDistinct ==
  ASSUME NEW n \in Nat, NEW m \in 0..n, NEW cursor \in Nat, cursor < n,
         NEW i \in 1..m, NEW j \in 1..m
  PROVE  /\ Turn(cursor, m, i, n) \in 1..n
         /\ Turn(cursor, m, i, n) = Turn(cursor, m, j, n) => i = j
BY DEF Turn

\* The latest pick was at the cursor.
LEMMA TurnLast ==
  ASSUME NEW n \in Nat, NEW index \in Nat, index < n, NEW m \in Nat,
         NEW next \in Nat, next = IF index + 1 = n THEN 0 ELSE index + 1
  PROVE  Turn(next, m, m, n) = index + 1
BY DEF Turn

\* The cursor a step further: the picks before it keep their turn.
LEMMA TurnAhead ==
  ASSUME NEW n \in Nat, NEW m \in Nat, NEW index \in Nat, index < n, m < n,
         NEW next \in Nat, next = IF index + 1 = n THEN 0 ELSE index + 1,
         NEW more, more = m + 1
  PROVE  \A i \in 1..m : Turn(next, more, i, n) = Turn(index, m, i, n)
BY DEF Turn

\* ... and with the round full all but the earliest of them.
LEMMA TurnOver ==
  ASSUME NEW n \in Nat, NEW index \in Nat, index < n,
         NEW next \in Nat, next = IF index + 1 = n THEN 0 ELSE index + 1
  PROVE  /\ Turn(next, n, n, n) = index + 1
         /\ \A i \in 1..(n - 1) : Turn(next, n, i, n) = Turn(index, n, i + 1, n)
BY DEF Turn

LEMMA RoundInjective ==
  ASSUME NEW candidates \in Seq(Pool), IsInjective(candidates), NEW cursor \in Nat, NEW picks,
         Rounds(candidates, cursor, picks)
  PROVE  IsInjective(picks)
<1> DEFINE n == Len(candidates)
           m == Len(picks)
<1>1. n \in Nat /\ m \in 0..n
  BY DEF Rounds
<1> SUFFICES ASSUME NEW i \in 1..m, NEW j \in 1..m, picks[i] = picks[j] PROVE i = j
  BY DEF Rounds, IsInjective
<1>2. /\ cursor < n /\ picks[i] = candidates[Turn(cursor, m, i, n)]
      /\ picks[j] = candidates[Turn(cursor, m, j, n)]
  BY DEF Rounds
<1>0. \A k, l \in 1..n : candidates[k] = candidates[l] => k = l
  BY DEF IsInjective
<1> HIDE DEF n, m
<1>3. Turn(cursor, m, i, n) \in 1..n /\ Turn(cursor, m, j, n) \in 1..n
  BY <1>1, <1>2, TurnDistinct
<1>4. Turn(cursor, m, i, n) = Turn(cursor, m, j, n)
  BY <1>2, <1>3, <1>0
<1> QED
  BY <1>1, <1>2, <1>4, TurnDistinct

\* One more pick, at the cursor.
LEMMA RoundGoesOn ==
  ASSUME NEW candidates \in Seq(Pool), candidates # <<>>, NEW cursor \in Nat, NEW before,
         Rounds(candidates, cursor, before),
         NEW index, index = cursor % Len(candidates),
         NEW all, all = Append(before, candidates[index + 1]),
         NEW picks,
         picks = SubSeq(all, IF Len(all) > Len(candidates) THEN 2 ELSE 1, Len(all))
  PROVE  Rounds(candidates, NextCursor(index, Len(candidates)), picks)
<1> DEFINE n == Len(candidates)
           m == Len(before)
           next == NextCursor(index, n)
<1>1. /\ n \in Nat \ {0} /\ m \in 0..n /\ before \in Seq(Pool)
  BY DEF Rounds
<1>2. index \in 0..(n - 1) /\ next = IF index + 1 = n THEN 0 ELSE index + 1
  <2>1. index = cursor % n /\ next = (index + 1) % n
    BY DEF NextCursor
  <2>2. index \in 0..(n - 1)
    BY <1>1, <2>1, Modulo
  <2>3. index \in Nat /\ index < n
    BY <1>1, <2>2
  <2>4. (index + 1) % n = IF index + 1 = n THEN 0 ELSE index + 1
    BY <1>1, <2>3, Modulo
  <2> QED
    BY <2>1, <2>2, <2>4
<1>9. /\ n \in Nat /\ m \in Nat /\ index \in Nat /\ index < n /\ next \in Nat
      /\ next = IF index + 1 = n THEN 0 ELSE index + 1
  <2> HIDE DEF n, next, m
  <2> QED
    BY <1>1, <1>2
<1>3. m # 0 => cursor < n /\ index = cursor
  <2> HIDE DEF n
  <2>1. m # 0 => cursor < n
    BY <1>1 DEF Rounds, n
  <2> QED
    BY <1>1, <2>1, Modulo DEF n
<1>4. \A i \in 1..m : before[i] = candidates[Turn(index, m, i, n)]
  BY <1>1, <1>3 DEF Rounds
<1>5. candidates[index + 1] \in Pool
  BY <1>1, <1>2
<1>6. /\ all \in Seq(Pool) /\ Len(all) = m + 1 /\ all[m + 1] = candidates[index + 1]
      /\ \A i \in 1..m : all[i] = before[i]
  BY <1>1, <1>5
<1>7. CASE m < n
  <2>1. picks = all
    BY <1>1, <1>6, <1>7
  <2> HIDE DEF n, m, next
  <2>2. next < n
    BY <1>1, <1>2
  <2>5. /\ Turn(next, m + 1, m + 1, n) = index + 1
        /\ \A i \in 1..m : Turn(next, m + 1, i, n) = Turn(index, m, i, n)
    <3> DEFINE more == m + 1
    <3>1. more = m + 1 /\ m < n
      BY <1>7
    <3> HIDE DEF more
    <3>2. Turn(next, more, more, n) = index + 1
      BY <1>9, <3>1, TurnLast
    <3>3. \A i \in 1..m : Turn(next, more, i, n) = Turn(index, m, i, n)
      BY SMTT(60), <1>9, <3>1, TurnAhead
    <3> QED
      BY <3>2, <3>3 DEF more
  <2>3. ASSUME NEW i \in 1..(m + 1) PROVE all[i] = candidates[Turn(next, m + 1, i, n)]
    <3>1. CASE i = m + 1
      <4>1. Turn(next, m + 1, i, n) = index + 1
        BY <2>5, <3>1
      <4> QED
        BY <1>6, <3>1, <4>1
    <3>2. CASE i \in 1..m
      <4>4. Turn(next, m + 1, i, n) = Turn(index, m, i, n)
        BY <2>5, <3>2
      <4> QED
        BY <1>4, <1>6, <3>2, <4>4
    <3>3. i = m + 1 \/ i \in 1..m
      BY <1>1
    <3> QED
      BY <3>1, <3>2, <3>3
  <2>4. Len(all) = m + 1 /\ all \in Seq(Pool) /\ m + 1 <= n
    BY <1>1, <1>6, <1>7
  <2> QED
    BY <2>1, <2>2, <2>3, <2>4 DEF Rounds, n, next
<1>8. CASE m = n
  <2>1. /\ picks \in Seq(Pool) /\ Len(picks) = n
        /\ \A i \in 1..n : picks[i] = all[i + 1]
    <3>1. picks = SubSeq(all, 2, n + 1) /\ Len(all) = n + 1 /\ all \in Seq(Pool)
      BY <1>1, <1>6, <1>8
    <3> HIDE DEF n
    <3> QED
      BY SMTT(60), <1>1, <3>1
  <2> HIDE DEF n, m, next
  <2>2. next < n
    BY <1>1, <1>2
  <2>6. /\ Turn(next, n, n, n) = index + 1
        /\ \A i \in 1..(n - 1) : Turn(next, n, i, n) = Turn(index, n, i + 1, n)
    BY <1>9, TurnOver
  <2>3. ASSUME NEW i \in 1..n PROVE picks[i] = candidates[Turn(next, n, i, n)]
    <3>1. CASE i = n
      <4>1. Turn(next, n, i, n) = index + 1
        BY <2>6, <3>1
      <4> QED
        BY <1>6, <1>8, <2>1, <3>1, <4>1
    <3>2. CASE i \in 1..(n - 1)
      <4>1. i + 1 \in 1..n
        BY <1>9, <3>2
      <4>4. Turn(next, n, i, n) = Turn(index, n, i + 1, n)
        BY <2>6, <3>2
      <4>2. picks[i] = all[i + 1]
        BY <2>1
      <4>3. all[i + 1] = before[i + 1]
        BY <1>6, <1>8, <4>1
      <4>5. before[i + 1] = candidates[Turn(index, n, i + 1, n)]
        BY <1>4, <1>8, <4>1
      <4> QED
        BY <4>2, <4>3, <4>4, <4>5
    <3>3. i = n \/ i \in 1..(n - 1)
      BY <1>1
    <3> QED
      BY <3>1, <3>2, <3>3
  <2>4. /\ picks \in Seq(Pool) /\ Len(picks) = n /\ next < n
        /\ \A i \in 1..Len(picks) : picks[i] = candidates[Turn(next, Len(picks), i, n)]
    BY ZenonT(60), <2>1, <2>2, <2>3
  <2>5. Len(picks) <= n
    BY <1>1, <2>4
  <2> QED
    BY <2>4, <2>5 DEF Rounds, n, next
<1> QED
  BY <1>1, <1>7, <1>8

\* The candidates of a request, whatever it reports down.
LEMMA RequestSound ==
  ASSUME Request
  PROVE  /\ usable' \in Seq(Pool) /\ (DistinctOffers => IsInjective(usable'))
         /\ \A i \in 1..Len(usable') : usable'[i] \notin down'
<1>1. PICK offer \in Offers : usable' = UsableCandidates(offer, down')
  BY DEF Request
<1>2. offer \in Seq(Pool) /\ (DistinctOffers => IsInjective(offer))
  BY PickAssumption DEF PickAssumption, DistinctOffers
<1> QED
  BY <1>1, <1>2, WithoutSound DEF UsableCandidates

\* A request that rotates nothing leaves the round, or ends it.
LEMMA RoundKept ==
  ASSUME PickInv, Request, UNCHANGED picker.cursor, usable' \in Seq(Pool),
         round' = IF usable' = usable THEN round ELSE <<>>
  PROVE  Rounds(usable', picker'.cursor, round')
<1>1. CASE usable' = usable
  BY <1>1 DEF PickInv
<1>2. CASE usable' # usable
  <2>1. Len(usable') \in Nat
    OBVIOUS
  <2> QED
    BY <1>2, <2>1 DEF Rounds
<1> QED
  BY <1>1, <1>2

LEMMA RotateKeepsRound ==
  ASSUME PickInv, NEW strategy \in Strategies, Rotate(strategy)
  PROVE  PickInv'
<1>1. Request /\ usable' # <<>>
  BY DEF Rotate
<1>2. /\ usable' \in Seq(Pool) /\ (DistinctOffers => IsInjective(usable'))
      /\ \A i \in 1..Len(usable') : usable'[i] \notin down'
  BY <1>1, RequestSound
<1> DEFINE n == Len(usable')
           index == picker.cursor % n
           before == IF usable' = usable THEN round ELSE <<>>
           all == Append(before, usable'[index + 1])
<1>3. /\ picked' = usable'[index + 1]
      /\ picker' = [last |-> usable'[index + 1], cursor |-> NextCursor(index, n)]
      /\ round' = SubSeq(all, IF Len(all) > n THEN 2 ELSE 1, Len(all))
  BY DEF Rotate, RotationIndex, Remembered
<1>4. picker.cursor \in Nat /\ n \in Nat \ {0}
  BY <1>1, <1>2 DEF PickInv
<1>5. index \in 0..(n - 1) /\ NextCursor(index, n) \in Nat
  <2> HIDE DEF n
  <2>1. index \in 0..(n - 1)
    BY <1>4, Modulo
  <2>2. index + 1 \in Nat
    BY <1>4, <2>1
  <2> HIDE DEF index
  <2>3. (index + 1) % n \in 0..(n - 1)
    BY <1>4, <2>2, Modulo
  <2> QED
    BY <1>4, <2>1, <2>3 DEF NextCursor
<1>6. Rounds(usable', picker.cursor, before)
  <2>1. CASE usable' = usable
    BY <2>1 DEF PickInv
  <2>2. CASE usable' # usable
    BY <1>4, <2>2 DEF Rounds
  <2> QED
    BY <2>1, <2>2
<1> HIDE DEF before
<1>7. Rounds(usable', NextCursor(index, n), round')
  BY <1>1, <1>2, <1>3, <1>4, <1>6, RoundGoesOn
<1>8. picker'.cursor = NextCursor(index, n)
  BY <1>3
<1>9. \E i \in 1..Len(usable') : picked' = usable'[i]
  <2>1. index + 1 \in 1..n
    BY <1>4, <1>5
  <2> QED
    BY <1>3, <2>1
<1> QED
  BY <1>2, <1>5, <1>7, <1>8, <1>9 DEF PickInv

LEMMA PickStep ==
  ASSUME PickInv, [PickNext]_pickVars
  PROVE  PickInv'
<1>1. ASSUME NEW strategy \in Strategies, Rotate(strategy) PROVE PickInv'
  BY <1>1, RotateKeepsRound
<1>2. ASSUME NEW strategy \in Strategies, PickPreferred(strategy) PROVE PickInv'
  <2>1. /\ Request /\ Contains(usable', Preferred) /\ picked' = Preferred
        /\ picker' = [picker EXCEPT !.last = Preferred]
        /\ round' = IF usable' = usable THEN round ELSE <<>>
    BY <1>2 DEF PickPreferred
  <2>2. /\ usable' \in Seq(Pool) /\ (DistinctOffers => IsInjective(usable'))
        /\ \A i \in 1..Len(usable') : usable'[i] \notin down'
    BY <2>1, RequestSound
  <2>3. picker'.cursor = picker.cursor
    BY <2>1
  <2>4. Rounds(usable', picker'.cursor, round')
    BY <2>1, <2>2, <2>3, RoundKept
  <2>5. \E i \in 1..Len(usable') : picked' = usable'[i]
    BY <2>1, <2>2 DEF Contains
  <2> QED
    BY <2>2, <2>3, <2>4, <2>5 DEF PickInv
<1>3. ASSUME NEW strategy \in Strategies, LeaveToHost(strategy) PROVE PickInv'
  <2>1. /\ Request /\ picked' = NoAccount /\ picker' = picker
        /\ round' = IF usable' = usable THEN round ELSE <<>>
    BY <1>3 DEF LeaveToHost
  <2>2. /\ usable' \in Seq(Pool) /\ (DistinctOffers => IsInjective(usable'))
        /\ \A i \in 1..Len(usable') : usable'[i] \notin down'
    BY <2>1, RequestSound
  <2>4. Rounds(usable', picker'.cursor, round')
    BY <2>1, <2>2, RoundKept
  <2> QED
    BY <2>1, <2>2, <2>4 DEF PickInv
<1>4. CASE UNCHANGED pickVars
  BY <1>4 DEF PickInv, pickVars
<1> QED
  BY <1>1, <1>2, <1>3, <1>4 DEF PickNext, Rotation

LEMMA PickInitially == PickInit => PickInv
<1> SUFFICES ASSUME PickInit PROVE PickInv
  OBVIOUS
<1>1. usable = <<>> /\ round = <<>> /\ picker.cursor = 0 /\ picked = NoAccount
  BY DEF PickInit
<1> QED
  BY <1>1 DEF PickInv, Rounds, IsInjective

-----------------------------------------------------------------------------
\* The places in a list of reports that hold one of these.
Matching(s, these) == {k \in DOMAIN s : s[k] \in these}

LEMMA MatchingAppended ==
  ASSUME NEW S, NEW s \in Seq(S), NEW x \in S, NEW these
  PROVE  /\ Cardinality(Matching(s, these)) \in Nat
         /\ Cardinality(Matching(Append(s, x), these)) =
              Cardinality(Matching(s, these)) + (IF x \in these THEN 1 ELSE 0)
<1> DEFINE n == Len(s)
           t == Append(s, x)
           M == Matching(s, these)
<1>1. /\ n \in Nat /\ DOMAIN s = 1..n /\ DOMAIN t = 1..(n + 1) /\ t[n + 1] = x
      /\ \A i \in 1..n : t[i] = s[i]
  OBVIOUS
<1> HIDE DEF n, t
<1>2. M \in SUBSET (1..n) /\ n + 1 \notin M
  BY <1>1 DEF Matching
<1>3. IsFiniteSet(M)
  <2>1. IsFiniteSet(1..n)
    BY <1>1, FS_Interval
  <2> HIDE DEF M
  <2> QED
    BY <1>2, <2>1, FS_Subset
<1>4. Cardinality(M) \in Nat
  BY <1>3, FS_CardinalityType
<1>5. Matching(t, these) = IF x \in these THEN M \cup {n + 1} ELSE M
  BY <1>1 DEF Matching
<1> HIDE DEF M
<1>6. Cardinality(M \cup {n + 1}) = Cardinality(M) + 1
  BY <1>2, <1>3, FS_AddElement
<1> QED
  BY <1>4, <1>5, <1>6 DEF M, t

FailedOf(account) == {r \in Reports : r.auth = account /\ r.failed}

AllFailed == {r \in Reports : r.failed}

\* The samples kept are the last of all, newest last.
Latest(samples, all) ==
  /\ samples \in Seq(Reports)
  /\ Len(samples) = IF Len(all) < MaxRecentSamples THEN Len(all) ELSE MaxRecentSamples
  /\ \A i \in 1..Len(samples) : samples[i] = all[Len(all) - Len(samples) + i]

RollInv ==
  /\ placed \in Seq(Pool \cup {NoAccount})
  /\ reported \in Seq(Reports) /\ Own \in Seq(Reports)
  /\ \A k \in DOMAIN reported : reported[k].request \in DOMAIN placed
  /\ \A a \in Pool :
       /\ BucketOf(a).requests = Cardinality(Ended(a))
       /\ BucketOf(a).failures = Cardinality(Matching(Own, FailedOf(a)))
  /\ usage.requests = Len(Own)
  /\ usage.failures = Cardinality(Matching(Own, AllFailed))
  /\ Latest(usage.recent, Own)

LEMMA LatestAppended ==
  ASSUME NEW samples, NEW all \in Seq(Reports), Latest(samples, all), NEW record \in Reports
  PROVE  Latest(Newest(Append(samples, record)), Append(all, record))
<1> DEFINE m == Len(samples)
           n == Len(all)
           more == Append(samples, record)
           next == Append(all, record)
           kept == Newest(more)
<1>1. /\ samples \in Seq(Reports) /\ m \in Nat /\ n \in Nat /\ MaxRecentSamples \in Nat \ {0}
      /\ m = (IF n < MaxRecentSamples THEN n ELSE MaxRecentSamples)
      /\ \A i \in 1..m : samples[i] = all[n - m + i]
  <2>1. samples \in Seq(Reports) /\ m \in Nat /\ n \in Nat
    BY DEF Latest
  <2>2. MaxRecentSamples \in Nat \ {0}
    BY RollupAssumption DEF RollupAssumption
  <2>3. /\ m = (IF n < MaxRecentSamples THEN n ELSE MaxRecentSamples)
        /\ \A i \in 1..m : samples[i] = all[n - m + i]
    BY DEF Latest
  <2> QED
    BY <2>1, <2>2, <2>3
<1>2. /\ more \in Seq(Reports) /\ Len(more) = m + 1 /\ more[m + 1] = record
      /\ \A i \in 1..m : more[i] = samples[i]
      /\ next \in Seq(Reports) /\ Len(next) = n + 1 /\ next[n + 1] = record
      /\ \A i \in 1..n : next[i] = all[i]
  BY <1>1
<1> HIDE DEF m, n, more, next
<1>3. \A i \in 1..(m + 1) : more[i] = next[n - m + i]
  <2> SUFFICES ASSUME NEW i \in 1..(m + 1) PROVE more[i] = next[n - m + i]
    OBVIOUS
  <2>1. CASE i = m + 1
    <3>1. n - m + i = n + 1
      BY <1>1, <2>1
    <3> QED
      BY <1>2, <2>1, <3>1
  <2>2. CASE i \in 1..m
    <3>1. n - m + i \in 1..n
      BY <1>1, <2>2
    <3> QED
      BY <1>1, <1>2, <2>2, <3>1
  <2>3. i = m + 1 \/ i \in 1..m
    BY <1>1
  <2> QED
    BY <2>1, <2>2, <2>3
<1>4. CASE n < MaxRecentSamples
  <2>1. m = n /\ kept = SubSeq(more, 1, m + 1) /\ m + 1 <= MaxRecentSamples
    BY <1>1, <1>2, <1>4 DEF Newest
  <2>2. kept = more
    BY <1>1, <1>2, <2>1
  <2> HIDE DEF kept
  <2>3. Len(kept) = IF Len(next) < MaxRecentSamples THEN Len(next) ELSE MaxRecentSamples
    <3>1. /\ Len(kept) = n + 1 /\ Len(next) = n + 1 /\ n \in Nat /\ MaxRecentSamples \in Nat
          /\ n + 1 <= MaxRecentSamples
      BY <1>1, <1>2, <2>1, <2>2
    <3> QED
      BY <3>1
  <2>4. \A i \in 1..Len(kept) : kept[i] = next[Len(next) - Len(kept) + i]
    <3>1. Len(next) - Len(kept) = n - m
      BY <1>1, <1>2, <2>1, <2>2
    <3> QED
      BY <1>2, <1>3, <2>2, <3>1
  <2> QED
    BY <1>2, <2>2, <2>3, <2>4 DEF Latest, kept, more, next
<1>5. CASE ~(n < MaxRecentSamples)
  <2>1. m = MaxRecentSamples /\ kept = SubSeq(more, 2, m + 1) /\ m <= n
    <3>1. m = MaxRecentSamples
      BY <1>1, <1>5
    <3>2. Len(more) > MaxRecentSamples /\ Len(more) - MaxRecentSamples + 1 = 2
      BY <1>1, <1>2, <3>1
    <3> QED
      BY <1>1, <1>2, <1>5, <3>1, <3>2 DEF Newest
  <2>2. /\ kept \in Seq(Reports) /\ Len(kept) = m
        /\ \A i \in 1..m : kept[i] = more[i + 1]
    BY <1>1, <1>2, <2>1
  <2> HIDE DEF kept
  <2>3. Len(kept) = IF Len(next) < MaxRecentSamples THEN Len(next) ELSE MaxRecentSamples
    <3>1. Len(next) = n + 1 /\ n \in Nat /\ m \in Nat /\ m <= n /\ m = MaxRecentSamples
      BY <1>1, <1>2, <2>1
    <3>2. ~(Len(next) < MaxRecentSamples)
      BY <3>1
    <3> QED
      BY <2>2, <3>1, <3>2
  <2>4. ASSUME NEW i \in 1..Len(kept) PROVE kept[i] = next[Len(next) - Len(kept) + i]
    <3>1. i \in 1..m /\ i + 1 \in 1..(m + 1)
      BY <1>1, <2>2
    <3>2. Len(next) - Len(kept) + i = n - m + (i + 1)
      BY <1>1, <1>2, <2>2, <3>1
    <3> QED
      BY <1>3, <2>2, <3>1, <3>2
  <2> QED
    BY <2>2, <2>3, <2>4 DEF Latest, kept, more, next
<1> QED
  BY <1>4, <1>5

-----------------------------------------------------------------------------
\* A report of a request that ended: its own, or another provider's.
LEMMA ReportTyped ==
  ASSUME RollInv, NEW request \in InFlight, NEW own \in BOOLEAN, NEW failed \in BOOLEAN
  PROVE  Report(request, own, failed) \in Reports
<1>1. request \in DOMAIN placed /\ placed \in Seq(Pool \cup {NoAccount})
  BY DEF RollInv, InFlight
<1>2. request \in Nat /\ placed[request] \in Pool \cup {NoAccount}
  BY <1>1
<1> QED
  BY <1>2 DEF Report, Reports

\* What has ended once a report came: the request reported too.
LEMMA EndedReported ==
  ASSUME RollInv, NEW record \in Reports, record.request \in InFlight,
         reported' = Append(reported, record), UNCHANGED placed, NEW a
  PROVE  /\ Cardinality(Ended(a)) \in Nat
         /\ Cardinality(Ended(a)') =
              Cardinality(Ended(a)) + (IF placed[record.request] = a THEN 1 ELSE 0)
<1> DEFINE request == record.request
           n == Len(reported)
           done == {reported[k].request : k \in DOMAIN reported}
<1>1. /\ reported \in Seq(Reports) /\ placed \in Seq(Pool \cup {NoAccount})
      /\ request \in DOMAIN placed /\ request \notin done
  BY DEF RollInv, InFlight
<1>2. /\ n \in Nat /\ DOMAIN reported = 1..n /\ DOMAIN reported' = 1..(n + 1)
      /\ reported'[n + 1] = record /\ \A k \in 1..n : reported'[k] = reported[k]
  BY <1>1
<1>3. {reported'[k].request : k \in DOMAIN reported'} = done \cup {request}
  <2> HIDE DEF n
  <2> QED
    BY <1>2
<1>4. /\ Ended(a) = {r \in DOMAIN placed : r \in done /\ placed[r] = a}
      /\ Ended(a)' = {r \in DOMAIN placed : r \in done \cup {request} /\ placed[r] = a}
  BY <1>3 DEF Ended, InFlight
<1>5. Ended(a)' = IF placed[request] = a THEN Ended(a) \cup {request} ELSE Ended(a)
  <2> HIDE DEF done, request
  <2> QED
    BY <1>1, <1>4
<1>6. request \notin Ended(a)
  BY <1>1, <1>4
<1>7. IsFiniteSet(Ended(a))
  <2>1. Ended(a) \in SUBSET (1..Len(placed)) /\ Len(placed) \in Nat
    BY <1>1, <1>4
  <2>2. IsFiniteSet(1..Len(placed))
    BY <2>1, FS_Interval
  <2> QED
    BY <2>1, <2>2, FS_Subset
<1>8. Cardinality(Ended(a)) \in Nat
  BY <1>7, FS_CardinalityType
<1>9. Cardinality(Ended(a) \cup {request}) = Cardinality(Ended(a)) + 1
  BY <1>6, <1>7, FS_AddElement
<1> HIDE DEF request
<1> QED
  BY <1>5, <1>8, <1>9 DEF request

\* A request placed has not ended, and what ended before is not touched.
LEMMA EndedPlaced ==
  ASSUME RollInv, NEW account \in Pool \cup {NoAccount},
         placed' = Append(placed, account) \/ UNCHANGED placed, UNCHANGED reported, NEW a
  PROVE  Ended(a)' = Ended(a)
<1> DEFINE done == {reported[k].request : k \in DOMAIN reported}
<1>1. /\ placed \in Seq(Pool \cup {NoAccount}) /\ done \subseteq DOMAIN placed
  BY DEF RollInv
<1>2. DOMAIN placed \subseteq DOMAIN placed' /\ \A r \in DOMAIN placed : placed'[r] = placed[r]
  BY <1>1
<1>3. /\ Ended(a) = {r \in done : placed[r] = a}
      /\ Ended(a)' = {r \in done : placed'[r] = a}
  <2>1. done' = done
    OBVIOUS
  <2>2. /\ Ended(a) = {r \in DOMAIN placed \ (DOMAIN placed \ done) : placed[r] = a}
        /\ Ended(a)' = {r \in DOMAIN placed' \ (DOMAIN placed' \ done') : placed'[r] = a}
    BY DEF Ended, InFlight
  <2> HIDE DEF done
  <2>3. /\ DOMAIN placed \ (DOMAIN placed \ done) = done
        /\ DOMAIN placed' \ (DOMAIN placed' \ done') = done
    BY <1>1, <1>2, <2>1
  <2> QED
    BY <2>2, <2>3
<1> HIDE DEF done
<1> QED
  BY <1>1, <1>2, <1>3

LEMMA OwnReported ==
  ASSUME RollInv, NEW record \in Reports, reported' = Append(reported, record)
  PROVE  Own' = IF record.own THEN Append(Own, record) ELSE Own
<1> DEFINE others == {r \in Reports : ~r.own}
<1>1. record \in others <=> ~record.own
  OBVIOUS
<1>2. reported \in Seq(Reports) /\ Own = Without(reported, others)
  BY DEF RollInv, Own
<1>3. Own' = Without(Append(reported, record), others)
  BY DEF Own
<1> HIDE DEF others
<1>4. Without(Append(reported, record), others) =
        IF record \in others THEN Without(reported, others)
        ELSE Append(Without(reported, others), record)
  BY <1>2, WithoutAppended
<1> QED
  BY <1>1, <1>2, <1>3, <1>4

\* The counters after a report of this provider's.
LEMMA ObserveKeeps ==
  ASSUME RollInv, NEW record \in Reports, record.request \in InFlight,
         record.auth = placed[record.request], record.own,
         reported' = Append(reported, record), usage' = Observe(record), UNCHANGED placed
  PROVE  /\ \A a \in Pool :
              /\ BucketOf(a)'.requests = Cardinality(Ended(a)')
              /\ BucketOf(a)'.failures = Cardinality(Matching(Own', FailedOf(a)))
         /\ usage'.requests = Len(Own')
         /\ usage'.failures = Cardinality(Matching(Own', AllFailed))
         /\ Latest(usage'.recent, Own')
<1>1. Own \in Seq(Reports) /\ Own' = Append(Own, record)
  BY OwnReported DEF RollInv
<1> DEFINE named == {record.auth} \ {NoAccount}
<1>2. /\ usage'.requests = usage.requests + 1
      /\ usage'.failures = usage.failures + Failure(record)
      /\ usage'.byAuth = [a \in DOMAIN usage.byAuth \cup named |->
                            IF a \in named THEN Accumulate(BucketOf(a), record)
                            ELSE usage.byAuth[a]]
      /\ usage'.recent = Newest(Append(usage.recent, record))
  BY DEF Observe
<1>3. ASSUME NEW a \in Pool
      PROVE  /\ BucketOf(a)'.requests = Cardinality(Ended(a)')
             /\ BucketOf(a)'.failures = Cardinality(Matching(Own', FailedOf(a)))
  <2>1. /\ BucketOf(a).requests = Cardinality(Ended(a))
        /\ BucketOf(a).failures = Cardinality(Matching(Own, FailedOf(a)))
    BY DEF RollInv
  <2>2. /\ Cardinality(Ended(a)) \in Nat
        /\ Cardinality(Ended(a)') =
             Cardinality(Ended(a)) + (IF record.auth = a THEN 1 ELSE 0)
    BY EndedReported
  <2>3. /\ Cardinality(Matching(Own, FailedOf(a))) \in Nat
        /\ Cardinality(Matching(Own', FailedOf(a))) =
             Cardinality(Matching(Own, FailedOf(a)))
             + (IF record \in FailedOf(a) THEN 1 ELSE 0)
    BY <1>1, MatchingAppended
  <2>4. record \in FailedOf(a) <=> record.auth = a /\ record.failed
    BY DEF FailedOf
  <2>5. a # NoAccount
    BY PickAssumption DEF PickAssumption
  <2>6. CASE record.auth = a
    <3>1. BucketOf(a)' = Accumulate(BucketOf(a), record)
      <4>1. a \in named
        BY <2>5, <2>6
      <4>2. BucketOf(a)' = usage'.byAuth[a]
        BY <1>2, <4>1 DEF BucketOf
      <4> HIDE DEF named
      <4> QED
        BY <1>2, <4>1, <4>2
    <3>2. /\ BucketOf(a)'.requests = BucketOf(a).requests + 1
          /\ BucketOf(a)'.failures = BucketOf(a).failures + Failure(record)
      BY <3>1 DEF Accumulate
    <3>3. Failure(record) = IF record \in FailedOf(a) THEN 1 ELSE 0
      BY <2>4, <2>6 DEF Failure
    <3> QED
      BY <2>1, <2>2, <2>3, <2>6, <3>2, <3>3
  <2>7. CASE record.auth # a
    <3>1. BucketOf(a)' = BucketOf(a)
      <4>1. a \notin named
        BY <2>7
      <4> HIDE DEF named
      <4> QED
        BY <1>2, <4>1 DEF BucketOf
    <3>2. record \notin FailedOf(a)
      BY <2>4, <2>7
    <3> QED
      BY <2>1, <2>2, <2>3, <2>7, <3>1, <3>2
  <2> QED
    BY <2>6, <2>7
<1>4. usage'.requests = Len(Own')
  BY <1>1, <1>2 DEF RollInv
<1>5. usage'.failures = Cardinality(Matching(Own', AllFailed))
  <2>1. Cardinality(Matching(Own', AllFailed)) =
          Cardinality(Matching(Own, AllFailed)) + (IF record \in AllFailed THEN 1 ELSE 0)
    BY <1>1, MatchingAppended
  <2>2. Failure(record) = IF record \in AllFailed THEN 1 ELSE 0
    BY DEF Failure, AllFailed
  <2> QED
    BY <1>2, <2>1, <2>2 DEF RollInv
<1>6. Latest(usage'.recent, Own')
  BY <1>1, <1>2, LatestAppended DEF RollInv
<1> QED
  BY <1>3, <1>4, <1>5, <1>6

\* Another provider's report counts for no account.
LEMMA OthersIgnored ==
  ASSUME RollInv, NEW record \in Reports, record.request \in InFlight,
         record.auth = placed[record.request], record.auth = NoAccount, ~record.own,
         reported' = Append(reported, record), UNCHANGED <<usage, placed>>
  PROVE  /\ \A a \in Pool :
              /\ BucketOf(a)'.requests = Cardinality(Ended(a)')
              /\ BucketOf(a)'.failures = Cardinality(Matching(Own', FailedOf(a)))
         /\ usage'.requests = Len(Own')
         /\ usage'.failures = Cardinality(Matching(Own', AllFailed))
         /\ Latest(usage'.recent, Own')
<1>1. Own' = Own
  BY OwnReported
<1>2. ASSUME NEW a \in Pool PROVE Cardinality(Ended(a)') = Cardinality(Ended(a))
  <2>1. /\ Cardinality(Ended(a)) \in Nat
        /\ Cardinality(Ended(a)') =
             Cardinality(Ended(a)) + (IF record.auth = a THEN 1 ELSE 0)
    BY EndedReported
  <2>2. a # NoAccount
    BY PickAssumption DEF PickAssumption
  <2> QED
    BY <2>1, <2>2
<1>3. \A a \in Pool : BucketOf(a)' = BucketOf(a)
  BY DEF BucketOf
<1> QED
  BY <1>1, <1>2, <1>3 DEF RollInv

LEMMA ReportStep ==
  ASSUME RollInv, NEW request \in InFlight, NEW own \in BOOLEAN, NEW failed \in BOOLEAN,
         placed[request] # NoAccount => own, UsageHandle(Report(request, own, failed))
  PROVE  RollInv'
<1> DEFINE record == Report(request, own, failed)
<1>1. record \in Reports
  BY ReportTyped
<1>2. /\ record.request = request /\ record.auth = placed[request]
      /\ record.own = own /\ record.failed = failed
  BY DEF Report
<1>3. /\ reported' = Append(reported, record) /\ UNCHANGED placed
      /\ usage' = IF record.own THEN Observe(record) ELSE usage
  BY DEF UsageHandle
<1> HIDE DEF record
<1>4. /\ \A a \in Pool :
           /\ BucketOf(a)'.requests = Cardinality(Ended(a)')
           /\ BucketOf(a)'.failures = Cardinality(Matching(Own', FailedOf(a)))
      /\ usage'.requests = Len(Own')
      /\ usage'.failures = Cardinality(Matching(Own', AllFailed))
      /\ Latest(usage'.recent, Own')
  <2>1. CASE own
    BY <1>1, <1>2, <1>3, <2>1, ObserveKeeps
  <2>2. CASE ~own
    <3>1. /\ record.auth = NoAccount /\ ~record.own /\ usage' = usage
      BY <1>2, <1>3, <2>2
    <3> QED
      BY <1>1, <1>2, <1>3, <3>1, OthersIgnored
  <2> QED
    BY <2>1, <2>2
<1>5. /\ reported' \in Seq(Reports) /\ Own' \in Seq(Reports)
      /\ placed' \in Seq(Pool \cup {NoAccount})
  <2>1. Own' = IF record.own THEN Append(Own, record) ELSE Own
    BY <1>1, <1>3, OwnReported
  <2> QED
    BY <1>1, <1>3, <2>1 DEF RollInv
<1>6. \A k \in DOMAIN reported' : reported'[k].request \in DOMAIN placed'
  <2>1. /\ reported \in Seq(Reports) /\ request \in DOMAIN placed
        /\ \A k \in DOMAIN reported : reported[k].request \in DOMAIN placed
    BY DEF RollInv, InFlight
  <2> QED
    BY <1>1, <1>2, <1>3, <2>1
<1> QED
  BY <1>4, <1>5, <1>6 DEF RollInv

LEMMA PlaceStep ==
  ASSUME PickInv, PickInv', RollInv, Place
  PROVE  RollInv'
<1>1. PICK account \in Pool \cup {NoAccount} :
        placed' = Append(placed, account) \/ UNCHANGED placed
  <2>1. Takers \subseteq Pool \cup {NoAccount}
    <3>1. picked' \in Pool \cup {NoAccount}
      BY DEF PickInv
    <3> QED
      BY <3>1 DEF Takers
  <2>2. NoAccount \in Pool \cup {NoAccount}
    OBVIOUS
  <2> QED
    BY <2>1, <2>2 DEF Place
<1>2. UNCHANGED <<reported, usage>>
  BY DEF Place
<1>3. \A a \in Pool : Ended(a)' = Ended(a) /\ BucketOf(a)' = BucketOf(a)
  BY <1>1, <1>2, EndedPlaced DEF BucketOf
<1>4. Own' = Own
  BY <1>2 DEF Own
<1>5. placed' \in Seq(Pool \cup {NoAccount}) /\ DOMAIN placed \subseteq DOMAIN placed'
  <2>1. placed \in Seq(Pool \cup {NoAccount})
    BY DEF RollInv
  <2>2. CASE placed' = Append(placed, account)
    <3>1. Len(placed') = Len(placed) + 1 /\ placed' \in Seq(Pool \cup {NoAccount})
      BY <2>1, <2>2
    <3> QED
      BY <2>1, <3>1
  <2> QED
    BY <1>1, <2>1, <2>2
<1> QED
  BY <1>2, <1>3, <1>4, <1>5 DEF RollInv

TrafficInv == PickInv /\ RollInv

LEMMA TrafficInitially == TrafficInit => TrafficInv
<1> SUFFICES ASSUME TrafficInit PROVE TrafficInv
  OBVIOUS
<1>1. /\ placed = <<>> /\ reported = <<>> /\ usage.requests = 0 /\ usage.failures = 0
      /\ usage.byAuth = <<>> /\ usage.recent = <<>>
  BY DEF TrafficInit
<1>2. Own = <<>>
  <2> DEFINE others == {r \in Reports : ~r.own}
  <2>1. reported \in Seq(Reports) /\ Own = Without(reported, others)
    BY <1>1 DEF Own
  <2> HIDE DEF others
  <2>2. PICK f : /\ Loop(f, Len(reported), reported, others)
                 /\ Without(reported, others) = f[Len(reported)]
    BY <2>1, LoopDefined
  <2>3. Len(reported) = 0 /\ 0 \in 0..0
    BY <1>1
  <2> QED
    BY <2>1, <2>2, <2>3 DEF Loop
<1>3. \A these : Cardinality(Matching(Own, these)) = 0
  <2>1. \A these : Matching(Own, these) = {}
    BY <1>2 DEF Matching
  <2> QED
    BY <2>1, FS_EmptySet
<1>4. \A a \in Pool : BucketOf(a).requests = 0 /\ BucketOf(a).failures = 0
  BY <1>1 DEF BucketOf, EmptyBucket
<1>5. \A a : Cardinality(Ended(a)) = 0
  <2>1. \A a : Ended(a) = {}
    BY <1>1 DEF Ended
  <2> QED
    BY <2>1, FS_EmptySet
<1>6. Latest(usage.recent, Own)
  BY <1>1, <1>2, RollupAssumption DEF Latest, RollupAssumption
<1>7. RollInv
  BY <1>1, <1>2, <1>3, <1>4, <1>5, <1>6 DEF RollInv
<1> QED
  BY <1>7, PickInitially DEF TrafficInv, TrafficInit

LEMMA TrafficStep == TrafficInv /\ [TrafficNext]_trafficVars => TrafficInv'
<1> SUFFICES ASSUME TrafficInv, [TrafficNext]_trafficVars PROVE TrafficInv'
  OBVIOUS
<1>1. CASE Place
  <2>1. PickInv'
    BY <1>1, PickStep DEF Place, TrafficInv
  <2> QED
    BY <1>1, <2>1, PlaceStep DEF TrafficInv
<1>2. ASSUME NEW request \in InFlight, NEW own \in BOOLEAN, NEW failed \in BOOLEAN,
             placed[request] # NoAccount => own,
             UsageHandle(Report(request, own, failed))
      PROVE  TrafficInv'
  <2>1. UNCHANGED pickVars
    BY <1>2 DEF UsageHandle
  <2> QED
    BY <1>2, <2>1, PickStep, ReportStep DEF TrafficInv
<1>3. CASE UNCHANGED trafficVars
  <2>1. UNCHANGED pickVars /\ UNCHANGED <<placed, reported, usage>>
    BY <1>3 DEF trafficVars
  <2>2. \A a : Ended(a)' = Ended(a) /\ BucketOf(a)' = BucketOf(a)
    BY <2>1 DEF Ended, InFlight, BucketOf
  <2>3. Own' = Own
    BY <2>1 DEF Own
  <2>4. RollInv'
    BY <2>1, <2>2, <2>3 DEF TrafficInv, RollInv
  <2> QED
    BY <2>1, <2>4, PickStep DEF TrafficInv
<1> QED
  BY <1>1, <1>2, <1>3 DEF TrafficNext

\* scheduler_pick.go:42-45, 145-146 (AccountPick.tla): every candidate is used before
\* any is used again, for every host that offers no account twice, whatever the list
\* before left of the cursor.
THEOREM RotationFair == DistinctOffers => (TrafficSpec => []NoneRepeatedInRound)
<1> SUFFICES ASSUME DistinctOffers PROVE TrafficSpec => []NoneRepeatedInRound
  OBVIOUS
<1>1. TrafficInv => NoneRepeatedInRound
  BY RoundInjective DEF TrafficInv, PickInv, NoneRepeatedInRound
<1> QED
  BY <1>1, TrafficInitially, TrafficStep, PTL DEF TrafficSpec

\* A suffix, place by place.
LEMMA LatestIsSuffix ==
  ASSUME NEW all \in Seq(Reports), NEW samples, Latest(samples, all)
  PROVE  IsSuffix(samples, all)
<1> DEFINE m == Len(samples)
           n == Len(all)
           back == Reverse(samples)
           allBack == Reverse(all)
<1>1. samples \in Seq(Reports) /\ m \in Nat /\ n \in Nat
  BY DEF Latest
<1>2. m <= n /\ \A i \in 1..m : samples[i] = all[n - m + i]
  BY RollupAssumption DEF Latest, RollupAssumption
<1>3. /\ back \in Seq(Reports) /\ Len(back) = m /\ \A i \in 1..m : back[i] = samples[(m - i) + 1]
      /\ allBack \in Seq(Reports) /\ Len(allBack) = n
      /\ \A i \in 1..n : allBack[i] = all[(n - i) + 1]
  BY <1>1 DEF Reverse
<1> HIDE DEF m, n, back, allBack
<1>4. \A i \in 1..m : back[i] = allBack[i]
  <2> SUFFICES ASSUME NEW i \in 1..m PROVE back[i] = allBack[i]
    OBVIOUS
  <2>1. (m - i) + 1 \in 1..m /\ i \in 1..n /\ n - m + ((m - i) + 1) = (n - i) + 1
    BY <1>1, <1>2
  <2>2. back[i] = samples[(m - i) + 1] /\ allBack[i] = all[(n - i) + 1]
    BY <1>3, <2>1
  <2>3. samples[(m - i) + 1] = all[n - m + ((m - i) + 1)]
    BY <1>2, <2>1
  <2> QED
    BY <2>1, <2>2, <2>3
<1>5. SubSeq(back, 1, m) = SubSeq(allBack, 1, m)
  BY <1>1, <1>2, <1>3, <1>4
<1> QED
  BY <1>2, <1>3, <1>5 DEF IsSuffix, IsPrefix, back, allBack

\* What TrafficAccounted says (UsageRollup.tla), for any number of requests and any
\* host: no report is lost or counted twice, in whatever order they come.
THEOREM RequestsCounted == TrafficSpec => []TrafficAccounted
<1>1. TrafficInv => TrafficAccounted
  <2> SUFFICES ASSUME TrafficInv PROVE TrafficAccounted
    OBVIOUS
  <2>1. Own \in Seq(Reports)
    BY DEF TrafficInv, RollInv
  <2>2. picked # NoAccount => Contains(usable, picked) /\ picked \notin down
    BY DEF TrafficInv, PickInv, Contains
  <2>3. ASSUME NEW a \in Pool
        PROVE  /\ BucketOf(a).requests = Cardinality(Ended(a))
               /\ BucketOf(a).failures = Count(LAMBDA r : r.auth = a /\ r.failed)
    <3>1. Matching(Own, FailedOf(a)) = {k \in DOMAIN Own : Own[k].auth = a /\ Own[k].failed}
      BY <2>1 DEF Matching, FailedOf
    <3> QED
      BY <3>1 DEF TrafficInv, RollInv, Count
  <2>4. usage.failures = Count(LAMBDA r : r.failed)
    <3>1. Matching(Own, AllFailed) = {k \in DOMAIN Own : Own[k].failed}
      BY <2>1 DEF Matching, AllFailed
    <3> QED
      BY <3>1 DEF TrafficInv, RollInv, Count
  <2>5. usage.requests = Len(Own) /\ Latest(usage.recent, Own)
    BY DEF TrafficInv, RollInv
  <2>6. IsSuffix(usage.recent, Own)
    BY <2>1, <2>5, LatestIsSuffix
  <2>7. Len(usage.recent) =
          (IF Len(Own) < MaxRecentSamples THEN Len(Own) ELSE MaxRecentSamples)
    BY <2>5 DEF Latest
  <2> QED
    BY <2>2, <2>3, <2>4, <2>5, <2>6, <2>7 DEF TrafficAccounted
<1> QED
  BY <1>1, TrafficInitially, TrafficStep, PTL DEF TrafficSpec
=============================================================================

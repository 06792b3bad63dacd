---------------------------- MODULE JobDefsProofs ----------------------------
(***************************************************************************)
(* What becomes of job definitions, for any config files, requests and     *)
(* calendar; and that the two searches of a cron schedule agree.           *)
(***************************************************************************)
EXTENDS JobDefs, Occurrences, SequenceTheorems, WellFoundedInduction, TLAPS

\* The searches stop at the least offset that matches.
LEMMA FirstIsLeast ==
  ASSUME NEW S, S \subseteq Nat, S # {}
  PROVE  First(S) \in S /\ \A k \in S : First(S) <= k
PROOF
<1>1. \E i \in S : \A k \in S : ~(<<k, i>> \in OpToRel(<, Nat))
  BY NatLessThanWellFounded, WFMin
<1>2. \A i, k \in S : <<k, i>> \in OpToRel(<, Nat) <=> k < i
  BY DEF OpToRel
<1> DEFINE R == OpToRel(<, Nat)
<1> HIDE DEF R
<1>3. \E i \in S : \A k \in S : i <= k
  <2>1. PICK i \in S : \A k \in S : ~(<<k, i>> \in R)
    BY <1>1, Zenon DEF R
  <2>2. \A k \in S : ~(k < i)
    BY <1>2, <2>1, Zenon DEF R
  <2> QED BY <2>2
<1> QED BY Zenon, <1>3 DEF First

Minute(t) == t - (t % 60)

\* A minute after a, up to b, that the schedule matches.
Occurs(s, a, b) ==
  \E m \in Nat : a < 60 * m /\ 60 * m <= b /\ Matches(s, Local(60 * m))

LEMMA MinuteFacts ==
  ASSUME NEW t \in Nat
  PROVE  \E m \in Nat : Minute(t) = 60 * m /\ 60 * m <= t /\ t < 60 * m + 60
PROOF
<1>1. t = 60 * (t \div 60) + (t % 60) /\ t \div 60 \in Nat /\ t % 60 \in 0..59
  OBVIOUS
<1> QED BY <1>1 DEF Minute

\* next_after finds an occurrence by b if there is one and the horizon reaches.
LEMMA NextFinds ==
  ASSUME NEW s, NEW a \in Nat, NEW b \in Nat, a <= b, b - a <= 60 * (KMaxMinutes - 1)
  PROVE  NextAfter(s, a) # 0 /\ NextAfter(s, a) <= b <=> Occurs(s, a, b)
PROOF
<1>1. PICK m \in Nat : Minute(a) = 60 * m /\ 60 * m <= a /\ a < 60 * m + 60
  BY MinuteFacts
<1> DEFINE hits == {i \in 0..(KMaxMinutes - 1) : Matches(s, Local(60 * m + 60 + 60 * i))}
<1>2. NextAfter(s, a) = IF hits = {} THEN 0 ELSE 60 * m + 60 + 60 * First(hits)
  BY ZenonT(30), <1>1 DEF NextAfter, Minute
<1>3. KMaxMinutes \in Nat
  BY CronAssumption
<1>4. hits # {} => First(hits) \in hits /\ \A i \in hits : First(hits) <= i
  <2>1. hits \subseteq Nat
    BY <1>3
  <2> HIDE DEF hits
  <2> QED BY <2>1, FirstIsLeast, Zenon
<1>5. ASSUME NEW i \in hits PROVE i \in 0..(KMaxMinutes - 1) /\ Matches(s, Local(60 * (m + 1 + i)))
  <2>1. 60 * m + 60 + 60 * i = 60 * (m + 1 + i)
    BY <1>3
  <2> QED BY <2>1
<1>6. ASSUME NextAfter(s, a) # 0, NextAfter(s, a) <= b PROVE Occurs(s, a, b)
  <2>1. hits # {}
    BY <1>2, <1>6
  <2>2. PICK i \in hits : i = First(hits)
    BY <1>4, <2>1
  <2>3. NextAfter(s, a) = 60 * (m + 1 + i) /\ m + 1 + i \in Nat
    BY <1>2, <1>3, <1>5, <2>1, <2>2
  <2>4. a < 60 * (m + 1 + i) /\ 60 * (m + 1 + i) <= b
    BY <1>1, <1>3, <1>5, <1>6, <2>3
  <2>5. Matches(s, Local(60 * (m + 1 + i)))
    BY <1>5
  <2> QED BY <2>3, <2>4, <2>5, Zenon DEF Occurs
<1>7. ASSUME Occurs(s, a, b) PROVE NextAfter(s, a) # 0 /\ NextAfter(s, a) <= b
  <2>1. PICK n \in Nat : a < 60 * n /\ 60 * n <= b /\ Matches(s, Local(60 * n))
    BY <1>7 DEF Occurs
  <2>2. n - m - 1 \in 0..(KMaxMinutes - 1) /\ 60 * m + 60 + 60 * (n - m - 1) = 60 * n
    BY <1>1, <1>3, <2>1
  <2>3. n - m - 1 \in hits
    BY <2>1, <2>2
  <2>4. First(hits) \in 0..(KMaxMinutes - 1) /\ First(hits) <= n - m - 1
    BY <1>4, <2>3
  <2> HIDE DEF hits
  <2> QED BY <1>1, <1>2, <1>3, <2>1, <2>2, <2>3, <2>4
<1> QED BY <1>6, <1>7

\* detect_missed_run finds an occurrence since a at b likewise.
LEMMA MissedFinds ==
  ASSUME NEW s, NEW a \in Nat, NEW b \in Nat, a <= b, b - a <= 60 * (KMaxMinutes - 1)
  PROVE  DetectMissedRun(s, a, b) # 0 <=> Occurs(s, a, b)
PROOF
<1>1. PICK m \in Nat : Minute(b) = 60 * m /\ 60 * m <= b /\ b < 60 * m + 60
  BY MinuteFacts
<1> DEFINE hits == {i \in 0..(KMaxMinutes - 1) : Matches(s, Local(60 * m - 60 * i))}
<1>2. PrevBefore(s, b) = IF hits = {} THEN 0 ELSE 60 * m - 60 * First(hits)
  BY ZenonT(30), <1>1 DEF PrevBefore, Minute
<1>3. KMaxMinutes \in Nat
  BY CronAssumption
<1>4. hits # {} => First(hits) \in hits /\ \A i \in hits : First(hits) <= i
  <2>1. hits \subseteq Nat
    BY <1>3
  <2> HIDE DEF hits
  <2> QED BY <2>1, FirstIsLeast, Zenon
<1>5. DetectMissedRun(s, a, b) # 0 <=> ~(a >= PrevBefore(s, b)) /\ PrevBefore(s, b) # 0
  BY DEF DetectMissedRun
<1>6. ASSUME DetectMissedRun(s, a, b) # 0 PROVE Occurs(s, a, b)
  <2>1. hits # {}
    BY <1>2, <1>5, <1>6
  <2>2. PICK i \in hits : i = First(hits)
    BY <1>4, <2>1
  <2>3. i \in 0..(KMaxMinutes - 1) /\ 60 * m - 60 * i = 60 * (m - i)
    BY <1>3
  <2>4. Matches(s, Local(60 * (m - i)))
    BY <2>3
  <2>5. PrevBefore(s, b) = 60 * (m - i) /\ a < 60 * (m - i)
    BY <1>2, <1>5, <1>6, <2>1, <2>2, <2>3
  <2>6. m - i \in Nat /\ 60 * (m - i) <= b
    BY <1>1, <2>3, <2>5
  <2> QED BY <2>4, <2>5, <2>6 DEF Occurs
<1>7. ASSUME Occurs(s, a, b) PROVE DetectMissedRun(s, a, b) # 0
  <2>1. PICK n \in Nat : a < 60 * n /\ 60 * n <= b /\ Matches(s, Local(60 * n))
    BY <1>7 DEF Occurs
  <2>2. m - n \in 0..(KMaxMinutes - 1) /\ 60 * m - 60 * (m - n) = 60 * n
    BY <1>1, <1>3, <2>1
  <2>3. m - n \in hits
    BY <2>1, <2>2
  <2>4. First(hits) \in 0..(KMaxMinutes - 1) /\ First(hits) <= m - n
    BY <1>4, <2>3
  <2> HIDE DEF hits
  <2>5. PrevBefore(s, b) >= 60 * n
    BY <1>1, <1>2, <1>3, <2>2, <2>3, <2>4
  <2>6. PrevBefore(s, b) \in Int
    BY <1>2, <1>3, <2>3, <2>4
  <2> QED BY <1>5, <2>1, <2>5, <2>6
<1> QED BY <1>6, <1>7
-----------------------------------------------------------------------------
(* The searches of Cron.tla give the answers of Occurrences.tla, which     *)
(* Scheduler.tla works with.                                               *)

\* The times a schedule matches.
TimesOf(s) == {60 * m : m \in {n \in Nat \ {0} : Matches(s, Local(60 * n))}}

LEMMA TimesAreMinutes ==
  ASSUME NEW s
  PROVE  /\ \A m \in Nat \ {0} : 60 * m \in TimesOf(s) <=> Matches(s, Local(60 * m))
         /\ \A o \in TimesOf(s) : \E m \in Nat \ {0} : o = 60 * m
PROOF
<1>1. \A m, n \in Nat : 60 * m = 60 * n => m = n
  OBVIOUS
<1> QED BY <1>1 DEF TimesOf

\* Two least members of a set of integers are the same.
LEMMA EarliestIs ==
  ASSUME NEW S, S \subseteq Int, NEW o \in S, \A p \in S : o <= p
  PROVE  Earliest(S) = o
PROOF
<1>1. Earliest(S) \in S /\ \A p \in S : Earliest(S) <= p
  BY Zenon DEF Earliest
<1>2. o <= Earliest(S) /\ Earliest(S) <= o
  BY <1>1, Zenon
<1>3. Earliest(S) \in Int /\ o \in Int
  BY <1>1, Zenon
<1> QED BY <1>2, <1>3

LEMMA LatestIs ==
  ASSUME NEW S, S \subseteq Int, NEW o \in S, \A p \in S : p <= o
  PROVE  Latest(S) = o
PROOF
<1>1. Latest(S) \in S /\ \A p \in S : p <= Latest(S)
  BY Zenon DEF Latest
<1>2. o <= Latest(S) /\ Latest(S) <= o
  BY <1>1, Zenon
<1>3. Latest(S) \in Int /\ o \in Int
  BY <1>1, Zenon
<1> QED BY <1>2, <1>3

\* The minutes next_after looks at and the minutes prev_before looks at.
Ahead(t) == {o \in Int : t < o /\ o <= Minute(t) + 60 * KMaxMinutes}
Behind(t) == {o \in Int : Minute(t) - 60 * KMaxMinutes < o /\ o <= t}

\* next_after, which goes minute by minute, returns the earliest occurrence
\* after its argument, as far as the horizon goes; and if it returns one, no
\* occurrence at all, within the horizon or beyond, is earlier.
THEOREM NextAfterIsEarliest ==
  ASSUME NEW s, NEW t \in Nat
  PROVE  /\ NextAfter(s, t) = NextIn(TimesOf(s) \cap Ahead(t), t)
         /\ NextAfter(s, t) # 0 => NextAfter(s, t) = NextIn(TimesOf(s), t)
PROOF
<1>1. PICK m \in Nat : Minute(t) = 60 * m /\ 60 * m <= t /\ t < 60 * m + 60
  BY MinuteFacts
<1> DEFINE hits == {i \in 0..(KMaxMinutes - 1) : Matches(s, Local(60 * m + 60 + 60 * i))}
           near == {o \in TimesOf(s) \cap Ahead(t) : o > t}
           later == {o \in TimesOf(s) : o > t}
<1>2. NextAfter(s, t) = IF hits = {} THEN 0 ELSE 60 * m + 60 + 60 * First(hits)
  BY ZenonT(30), <1>1 DEF NextAfter, Minute
<1>3. KMaxMinutes \in Nat
  BY CronAssumption
<1>4. hits # {} => First(hits) \in hits /\ \A i \in hits : First(hits) <= i
  <2>1. hits \subseteq Nat
    BY <1>3
  <2> HIDE DEF hits
  <2> QED BY <2>1, FirstIsLeast, Zenon
<1>5. \A n \in Nat \ {0} : 60 * n \in TimesOf(s) <=> Matches(s, Local(60 * n))
  BY TimesAreMinutes
<1>6. \A o \in TimesOf(s) : \E n \in Nat \ {0} : o = 60 * n
  BY TimesAreMinutes
<1>7. near \subseteq Int /\ later \subseteq Int
  BY <1>6
<1>8. ASSUME NEW i \in hits
      PROVE  60 * m + 60 + 60 * i \in near /\ 60 * m + 60 + 60 * i \in later
  <2>1. i \in 0..(KMaxMinutes - 1) /\ Matches(s, Local(60 * m + 60 + 60 * i))
    OBVIOUS
  <2>2. m + 1 + i \in Nat \ {0} /\ 60 * m + 60 + 60 * i = 60 * (m + 1 + i)
    BY <1>3, <2>1
  <2>3. 60 * m + 60 + 60 * i \in TimesOf(s)
    BY <1>5, <2>1, <2>2, Zenon
  <2>4. 60 * m + 60 + 60 * i \in Ahead(t) /\ 60 * m + 60 + 60 * i > t
    BY <1>1, <1>3, <2>1 DEF Ahead
  <2> QED BY <2>3, <2>4, Zenon
<1>9. ASSUME NEW o \in later
      PROVE  \E n \in Nat : /\ o = 60 * m + 60 + 60 * n
                            /\ n < KMaxMinutes => n \in hits
                            /\ o \in near => n \in hits
  <2>1. PICK k \in Nat \ {0} : o = 60 * k
    BY <1>6
  <2>2. o > t /\ o \in TimesOf(s)
    OBVIOUS
  <2>3. Matches(s, Local(60 * k))
    BY <1>5, <2>1, <2>2
  <2>4. k - m - 1 \in Nat /\ o = 60 * m + 60 + 60 * (k - m - 1)
    BY <1>1, <2>1, <2>2
  <2>5. k - m - 1 < KMaxMinutes => k - m - 1 \in hits
    BY <1>3, <2>1, <2>3, <2>4
  <2>6. o \in near => k - m - 1 < KMaxMinutes
    BY <1>1, <1>3, <2>1 DEF Ahead
  <2> QED BY <2>4, <2>5, <2>6
<1>10. near \subseteq later
  OBVIOUS
<1>11. NextIn(TimesOf(s) \cap Ahead(t), t) = IF near = {} THEN 0 ELSE Earliest(near)
  BY Zenon DEF NextIn
<1>12. NextIn(TimesOf(s), t) = IF later = {} THEN 0 ELSE Earliest(later)
  BY Zenon DEF NextIn
<1> HIDE DEF hits, near, later
<1>13. CASE hits = {}
  <2>1. near = {}
    BY <1>9, <1>10, <1>13, Zenon
  <2> QED BY <1>2, <1>11, <1>13, <2>1, Zenon
<1>14. CASE hits # {}
  <2> DEFINE o == 60 * m + 60 + 60 * First(hits)
  <2>1. o \in near /\ o \in later
    BY <1>4, <1>8, <1>14, Zenon
  <2>2. First(hits) \in 0..(KMaxMinutes - 1)
    BY <1>4, <1>14 DEF hits
  <2>3. \A p \in later : o <= p
    <3>1. TAKE p \in later
    <3>2. PICK n \in Nat : p = 60 * m + 60 + 60 * n /\ (n < KMaxMinutes => n \in hits)
      BY <1>9, Zenon
    <3>3. n < KMaxMinutes => First(hits) <= n
      BY <1>4, <1>14, <3>2, Zenon
    <3> QED BY <1>3, <2>2, <3>2, <3>3
  <2> HIDE DEF o
  <2>4. Earliest(near) = o
    BY <1>7, <1>10, <2>1, <2>3, EarliestIs, Zenon
  <2>5. Earliest(later) = o
    BY <1>7, <2>1, <2>3, EarliestIs, Zenon
  <2>6. near # {} /\ later # {}
    BY <2>1, Zenon
  <2>7. NextAfter(s, t) = o
    BY <1>2, <1>14, Zenon DEF o
  <2> QED BY <1>11, <1>12, <2>4, <2>5, <2>6, <2>7, Zenon
<1> QED BY <1>13, <1>14, Zenon

\* prev_before returns the latest occurrence at or before its argument, as far
\* back as the horizon goes, and detect_missed_run is right with it; if they
\* return one, no occurrence at all is later.  (The minutes looked at come
\* after time 0: so do those of any daemon started since 1974.)
THEOREM PrevBeforeIsLatest ==
  ASSUME NEW s, NEW t \in Nat, 60 * KMaxMinutes <= Minute(t), NEW last \in Nat
  PROVE  /\ PrevBefore(s, t) = PrevIn(TimesOf(s) \cap Behind(t), t)
         /\ PrevBefore(s, t) # 0 => PrevBefore(s, t) = PrevIn(TimesOf(s), t)
         /\ DetectMissedRun(s, last, t) = MissedIn(TimesOf(s) \cap Behind(t), last, t)
         /\ DetectMissedRun(s, last, t) # 0 =>
              DetectMissedRun(s, last, t) = MissedIn(TimesOf(s), last, t)
PROOF
<1>1. PICK m \in Nat : Minute(t) = 60 * m /\ 60 * m <= t /\ t < 60 * m + 60
  BY MinuteFacts
<1> DEFINE hits == {i \in 0..(KMaxMinutes - 1) : Matches(s, Local(60 * m - 60 * i))}
           near == {o \in TimesOf(s) \cap Behind(t) : o <= t}
           past == {o \in TimesOf(s) : o <= t}
<1>2. PrevBefore(s, t) = IF hits = {} THEN 0 ELSE 60 * m - 60 * First(hits)
  BY ZenonT(30), <1>1 DEF PrevBefore, Minute
<1>3. KMaxMinutes \in Nat /\ KMaxMinutes <= m
  BY <1>1, CronAssumption
<1>4. hits # {} => First(hits) \in hits /\ \A i \in hits : First(hits) <= i
  <2>1. hits \subseteq Nat
    BY <1>3
  <2> HIDE DEF hits
  <2> QED BY <2>1, FirstIsLeast, Zenon
<1>5. \A n \in Nat \ {0} : 60 * n \in TimesOf(s) <=> Matches(s, Local(60 * n))
  BY TimesAreMinutes
<1>6. \A o \in TimesOf(s) : \E n \in Nat \ {0} : o = 60 * n
  BY TimesAreMinutes
<1>7. near \subseteq Int /\ past \subseteq Int
  BY <1>6
<1>8. ASSUME NEW i \in hits
      PROVE  60 * m - 60 * i \in near /\ 60 * m - 60 * i \in past
  <2>1. i \in 0..(KMaxMinutes - 1) /\ Matches(s, Local(60 * m - 60 * i))
    OBVIOUS
  <2>2. m - i \in Nat \ {0} /\ 60 * m - 60 * i = 60 * (m - i)
    BY <1>3, <2>1
  <2>3. 60 * m - 60 * i \in TimesOf(s)
    BY <1>5, <2>1, <2>2, Zenon
  <2>4. 60 * m - 60 * i \in Behind(t) /\ 60 * m - 60 * i <= t
    BY <1>1, <1>3, <2>1 DEF Behind
  <2> QED BY <2>3, <2>4, Zenon
<1>9. ASSUME NEW o \in past
      PROVE  \E n \in Nat : /\ o = 60 * m - 60 * n
                            /\ n < KMaxMinutes => n \in hits
                            /\ o \in near => n \in hits
  <2>1. PICK k \in Nat \ {0} : o = 60 * k
    BY <1>6
  <2>2. o <= t /\ o \in TimesOf(s)
    OBVIOUS
  <2>3. Matches(s, Local(60 * k))
    BY <1>5, <2>1, <2>2
  <2>4. m - k \in Nat /\ o = 60 * m - 60 * (m - k)
    BY <1>1, <2>1, <2>2
  <2>5. m - k < KMaxMinutes => m - k \in hits
    BY <1>3, <2>1, <2>3, <2>4
  <2>6. o \in near => m - k < KMaxMinutes
    BY <1>1, <1>3, <2>1 DEF Behind
  <2> QED BY <2>4, <2>5, <2>6
<1>10. near \subseteq past
  OBVIOUS
<1>11. PrevIn(TimesOf(s) \cap Behind(t), t) = IF near = {} THEN 0 ELSE Latest(near)
  BY Zenon DEF PrevIn
<1>12. PrevIn(TimesOf(s), t) = IF past = {} THEN 0 ELSE Latest(past)
  BY Zenon DEF PrevIn
<1> HIDE DEF hits, near, past
<1>13. CASE hits = {}
  <2>1. near = {}
    BY <1>9, <1>10, <1>13, Zenon
  <2>2. PrevBefore(s, t) = 0 /\ PrevIn(TimesOf(s) \cap Behind(t), t) = 0
    BY <1>2, <1>11, <1>13, <2>1, Zenon
  <2>3. last >= 0
    OBVIOUS
  <2> QED BY <2>2, <2>3, Zenon DEF DetectMissedRun, MissedIn
<1>14. CASE hits # {}
  <2> DEFINE o == 60 * m - 60 * First(hits)
  <2>1. o \in near /\ o \in past
    BY <1>4, <1>8, <1>14, Zenon
  <2>2. First(hits) \in 0..(KMaxMinutes - 1)
    BY <1>4, <1>14 DEF hits
  <2>3. \A p \in past : p <= o
    <3>1. TAKE p \in past
    <3>2. PICK n \in Nat : p = 60 * m - 60 * n /\ (n < KMaxMinutes => n \in hits)
      BY <1>9, Zenon
    <3>3. n < KMaxMinutes => First(hits) <= n
      BY <1>4, <1>14, <3>2, Zenon
    <3> QED BY <1>3, <2>2, <3>2, <3>3
  <2> HIDE DEF o
  <2>4. Latest(near) = o
    BY <1>7, <1>10, <2>1, <2>3, LatestIs, Zenon
  <2>5. Latest(past) = o
    BY <1>7, <2>1, <2>3, LatestIs, Zenon
  <2>6. near # {} /\ past # {}
    BY <2>1, Zenon
  <2>7. PrevBefore(s, t) = o
    BY <1>2, <1>14, Zenon DEF o
  <2>8. PrevIn(TimesOf(s) \cap Behind(t), t) = o /\ PrevIn(TimesOf(s), t) = o
    BY <1>11, <1>12, <2>4, <2>5, <2>6, Zenon
  <2> QED BY <2>7, <2>8, Zenon DEF DetectMissedRun, MissedIn
<1> QED BY <1>13, <1>14, Zenon
-----------------------------------------------------------------------------
(* What the parser lets through.                                           *)

\* What std::stoi can find in an expression: numbers.
Token == [base : {"star", "span", "garbled"}, lo : Int, hi : Int,
          slash : BOOLEAN, step : Int]

\* A token that parse_field accepts adds its first value, and only values of
\* the field's range.
LEMMA TokenAddsValues ==
  ASSUME NEW tok \in Token, NEW lo \in Int, NEW hi \in Int,
         TokenOK(tok, [lo |-> lo, hi |-> hi])
  PROVE  /\ TokenValues(tok, [lo |-> lo, hi |-> hi]) # {}
         /\ TokenValues(tok, [lo |-> lo, hi |-> hi]) \subseteq lo..hi
PROOF
<1> DEFINE range == [lo |-> lo, hi |-> hi]
           low == Low(tok, range)
           high == High(tok, range)
<1>1. low \in Int /\ high \in Int
  BY DEF Token, Low, High
<1>2. tok.step \in Int /\ tok.step > 0 /\ low >= lo /\ high <= hi /\ low <= high
  BY DEF TokenOK, Token
<1>3. TokenValues(tok, range) = {v \in low..high : (v - low) % tok.step = 0}
  BY Zenon DEF TokenValues
<1> HIDE DEF range, low, high
<1>4. (low - low) % tok.step = 0
  BY <1>1, <1>2
<1>5. low \in low..high /\ low..high \subseteq lo..hi
  BY <1>1, <1>2
<1> QED BY <1>3, <1>4, <1>5, Zenon DEF range

\* Every field of a schedule that parse accepts has a value, all its values lie
\* in the range of the field, and a Sunday written as 7 is also a 0, which is
\* what tm_wday shows: no accepted schedule is empty by a slip of the parser.
THEOREM ParsedFieldsSound ==
  ASSUME NEW expr \in Seq(Seq(Token)), Parses(expr)
  PROVE  /\ \A k \in 1..5 : /\ Parse(expr).fields[k] # {}
                            /\ Parse(expr).fields[k] \subseteq KRanges[k].lo..KRanges[k].hi
         /\ 7 \in Parse(expr).fields[5] => 0 \in Parse(expr).fields[5]
PROOF
<1> DEFINE found == [k \in 1..5 |-> FieldValues(expr[k], KRanges[k])]
<1>1. \A k \in 1..5 : /\ KRanges[k].lo \in Int /\ KRanges[k].hi \in Int
                      /\ KRanges[k] = [lo |-> KRanges[k].lo, hi |-> KRanges[k].hi]
  BY DEF KRanges
<1>2. KRanges[5].lo = 0 /\ KRanges[5].hi = 7
  BY DEF KRanges
<1>3. ASSUME NEW k \in 1..5
      PROVE  found[k] # {} /\ found[k] \subseteq KRanges[k].lo..KRanges[k].hi
  <2>1. expr[k] \in Seq(Token) /\ FieldOK(expr[k], KRanges[k])
    <3>1. Len(expr) = 5 /\ FieldOK(expr[k], KRanges[k])
      BY Zenon DEF Parses
    <3>2. k \in 1..Len(expr)
      BY <3>1
    <3> QED BY <3>1, <3>2, ElementOfSeq, Zenon
  <2>2. \A tok \in Tokens(expr[k]) : tok \in Token /\ TokenOK(tok, KRanges[k])
    BY <2>1 DEF FieldOK, Tokens
  <2>3. \A tok \in Tokens(expr[k]) :
          /\ TokenValues(tok, KRanges[k]) # {}
          /\ TokenValues(tok, KRanges[k]) \subseteq KRanges[k].lo..KRanges[k].hi
    <3>1. TAKE tok \in Tokens(expr[k])
    <3> DEFINE lo == KRanges[k].lo
               hi == KRanges[k].hi
    <3>2. KRanges[k] = [lo |-> lo, hi |-> hi] /\ lo \in Int /\ hi \in Int
      BY <1>1
    <3>3. tok \in Token /\ TokenOK(tok, KRanges[k])
      BY <2>2
    <3> HIDE DEF lo, hi
    <3>4. TokenValues(tok, KRanges[k]) # {} /\ TokenValues(tok, KRanges[k]) \subseteq lo..hi
      BY <3>2, <3>3, TokenAddsValues, Zenon
    <3> QED BY <3>4 DEF lo, hi
  <2>4. expr[k][1] \in Tokens(expr[k])
    <3>1. 1 \in DOMAIN expr[k]
      BY <2>1 DEF FieldOK
    <3> QED BY <3>1 DEF Tokens
  <2>5. found[k] = UNION {TokenValues(tok, KRanges[k]) : tok \in Tokens(expr[k])}
    BY DEF FieldValues
  <2>6. found[k] # {}
    <3>1. PICK v : v \in TokenValues(expr[k][1], KRanges[k])
      BY <2>3, <2>4, Zenon
    <3>2. v \in found[k]
      BY <2>4, <2>5, <3>1, Zenon
    <3> QED BY <3>2, Zenon
  <2>7. ASSUME NEW v \in found[k] PROVE v \in KRanges[k].lo..KRanges[k].hi
    <3>1. PICK tok \in Tokens(expr[k]) : v \in TokenValues(tok, KRanges[k])
      BY <2>5, Zenon
    <3> QED BY <2>3, <3>1, Zenon
  <2> QED BY <2>6, <2>7, Zenon
<1>4. Parse(expr).fields = [found EXCEPT ![5] = IF 7 \in @ THEN @ \cup {0} ELSE @]
  BY DEF Parse
<1>5. /\ \A k \in 1..4 : Parse(expr).fields[k] = found[k]
      /\ Parse(expr).fields[5] = IF 7 \in found[5] THEN found[5] \cup {0} ELSE found[5]
  BY <1>4
<1> HIDE DEF found
<1>6. 0 \in KRanges[5].lo..KRanges[5].hi
  BY <1>2
<1>7. \A k \in 1..5 : k \in 1..4 \/ k = 5
  OBVIOUS
<1>8. 5 \in 1..5 /\ \A k \in 1..4 : k \in 1..5
  OBVIOUS
<1>9. /\ Parse(expr).fields[5] # {}
      /\ Parse(expr).fields[5] \subseteq KRanges[5].lo..KRanges[5].hi
      /\ 7 \in Parse(expr).fields[5] => 0 \in Parse(expr).fields[5]
  BY <1>3, <1>5, <1>6, <1>8
<1> QED BY <1>3, <1>5, <1>7, <1>8, <1>9, Zenon
-----------------------------------------------------------------------------
\* What can be read back as a schedule, or as none.
ExprOK(expr) == expr = <<>> \/ (Parses(expr) /\ Parse(expr) # Absent)

\* Rows are under their own name and hold schedules that parse.
TableInv ==
  /\ table = [n \in Names |-> table[n]] /\ next_run = [n \in Names |-> next_run[n]]
  /\ \A n \in Names : table[n] # NoRow => table[n].name = n /\ ExprOK(table[n].schedule_expr)

JobInv ==
  /\ now \in Times /\ file \in Files
  /\ ~up => jobs = {}
  /\ \A job \in jobs : job.name \in Names

\* The entry of a job in next_run_ is its first occurrence after now, if that
\* comes while the clock lasts.
NextInv ==
  \A job \in jobs : job.schedule # Absent =>
    \A t \in Times : t >= now =>
      (Occurs(job.schedule, now, t) <=> next_run[job.name] # 0 /\ next_run[job.name] <= t)

EntryInv == \A n \in Names : next_run[n] \in Int

Inv == TableInv /\ JobInv /\ NextInv /\ EntryInv /\ RestartKeepsJobs /\ DefinitionsSound
-----------------------------------------------------------------------------
LEMMA EmptyNotParsed == ~Parses(<<>>)
  BY DEF Parses

\* parse_job.
LEMMA ConfigJobFacts ==
  ASSUME NEW node, Sensible(node), ConfigJobOK(node)
  PROVE  LET job == ConfigJob(node) IN
         /\ job.name = node.name /\ job.name \in Names /\ job.source = "config"
         /\ job.schedule = Absent <=> job.schedule_expr = <<>>
         /\ job.timeout >= 0 /\ job.retries >= 0
  BY JobDefsAssumption, EmptyNotParsed DEF Sensible, ConfigJobOK, ConfigJob, Given

\* A row of the table.
LEMMA RowFacts ==
  ASSUME TableInv, NEW n \in Names, table[n] # NoRow
  PROVE  LET job == JobFromDef(table[n]) IN
         /\ job.name = n /\ job.source = "ui"
         /\ job.schedule = Absent <=> job.schedule_expr = <<>>
  BY EmptyNotParsed DEF TableInv, ExprOK, JobFromDef

\* add_job: the row that is written is read back as the job.
LEMMA RequestFacts ==
  ASSUME NEW body \in Bodies, RequestOK(body)
  PROVE  LET job == RequestJob(body) IN
         /\ job.name = body.name /\ job.name \in Names /\ job.source = "ui"
         /\ job.schedule = Absent <=> job.schedule_expr = <<>>
         /\ DefFromJob(job).name = body.name
         /\ ExprOK(DefFromJob(job).schedule_expr)
         /\ JobFromDef(DefFromJob(job)) = job
PROOF
<1> DEFINE job == RequestJob(body)
<1>1. Sensible(body)
  BY JobDefsAssumption
<1>2. body.name \in Names /\ job.name = body.name /\ job.source = "ui"
  BY <1>1, JobDefsAssumption DEF Sensible, RequestOK, RequestJob, Given
<1>3. ExprOK(job.schedule_expr)
  BY <1>1, JobDefsAssumption DEF Sensible, RequestOK, RequestJob, Given, ExprOK
<1>4. job.schedule = IF job.schedule_expr = <<>> THEN Absent ELSE Parse(job.schedule_expr)
  BY DEF RequestJob
<1>5. JobFromDef(DefFromJob(job)).schedule = job.schedule
  BY <1>3, <1>4, EmptyNotParsed DEF JobFromDef, DefFromJob, ExprOK
<1>6. PolicyFromString(job.policy) = job.policy
  BY ZenonT(30) DEF RequestJob, PolicyFromString
<1>7. JobFromDef(DefFromJob(job)) = job
  BY ZenonT(30), <1>5, <1>6 DEF JobFromDef, DefFromJob, RequestJob
<1>8. job.schedule = Absent <=> job.schedule_expr = <<>>
  BY SMTT(30), <1>3, <1>4 DEF ExprOK
<1> QED BY <1>2, <1>3, <1>7, <1>8 DEF DefFromJob

\* An entry of next_run_ is computed for the job it belongs to.
LEMMA ScheduleIsOwn ==
  ASSUME NEW S, \A job, other \in S : job.name = other.name => job = other,
         NEW job \in S, job.schedule # Absent
  PROVE  ScheduleOf(job.name, S) = job.schedule
  BY SMTT(30) DEF ScheduleOf

LEMMA EntryIsFirst ==
  ASSUME NEW s, now \in Times, NEW t \in Times, t >= now
  PROVE  Occurs(s, now, t) <=> NextAfter(s, now) # 0 /\ NextAfter(s, now) <= t
  BY JobDefsAssumption, NextFinds

LEMMA NextType == ASSUME NEW s, NEW a \in Nat PROVE NextAfter(s, a) \in Int
PROOF
<1> DEFINE hits == {i \in 0..(KMaxMinutes - 1) : Matches(s, Local(a - (a % 60) + 60 + 60 * i))}
<1>1. NextAfter(s, a) = IF hits = {} THEN 0 ELSE a - (a % 60) + 60 + 60 * First(hits)
  BY DEF NextAfter
<1>2. hits \subseteq Nat /\ a % 60 \in Int
  BY CronAssumption
<1> HIDE DEF hits
<1>3. hits # {} => First(hits) \in hits
  BY <1>2, FirstIsLeast, Zenon
<1>4. hits # {} => First(hits) \in Nat
  BY <1>2, <1>3, Zenon
<1>5. ASSUME NEW i \in Nat PROVE a - (a % 60) + 60 + 60 * i \in Int
  BY <1>2
<1>6. CASE hits = {}
  BY <1>1, <1>6
<1>7. CASE hits # {}
  <2>1. PICK i \in Nat : NextAfter(s, a) = a - (a % 60) + 60 + 60 * i
    BY <1>1, <1>4, <1>7, Zenon
  <2> QED BY <1>5, <2>1, Zenon
<1> QED BY <1>6, <1>7

LEMMA EntryStep == ASSUME Inv, Next PROVE EntryInv'
PROOF
<1>1. EntryInv /\ next_run = [n \in Names |-> next_run[n]] /\ now \in Nat
  BY JobDefsAssumption DEF Inv, TableInv, JobInv
<1>2. \A S : \A n \in Names : NextRuns(S)[n] \in Int
  BY <1>1, NextType DEF NextRuns
<1>3. CASE Start \/ End \/ Edit \/ Reload
  <2>1. next_run' = NextRuns(jobs') \/ next_run' = [n \in Names |-> 0] \/ next_run' = next_run
    BY <1>3, Zenon DEF Start, End, Edit, Reload
  <2> QED BY <1>1, <1>2, <2>1 DEF EntryInv
<1>4. ASSUME NEW body \in Bodies, AddJob(body) PROVE EntryInv'
  <2>1. PICK n, S : n \in Names /\ next_run' = [next_run EXCEPT ![n] = NextRuns(S)[n]]
    <3>1. RequestJob(body).name \in Names
      BY <1>4, RequestFacts DEF AddJob
    <3> QED BY <1>4, <3>1, Zenon DEF AddJob
  <2> QED BY <1>1, <1>2, <2>1 DEF EntryInv
<1>5. ASSUME NEW n \in Names, RemoveJob(n) PROVE EntryInv'
  <2>1. next_run' = [next_run EXCEPT ![n] = 0]
    BY <1>5 DEF RemoveJob
  <2> QED BY <1>1, <2>1 DEF EntryInv
<1>6. CASE Tick
  <2>1. now' \in Nat /\ next_run' = [n \in Names |->
           IF next_run[n] = 0 \/ next_run[n] > now' THEN next_run[n]
           ELSE NextAfter(ScheduleOf(n, jobs), now')]
    BY <1>6, JobDefsAssumption DEF Tick
  <2>2. \A n \in Names : NextAfter(ScheduleOf(n, jobs), now') \in Int
    BY <2>1, NextType
  <2> QED BY SMTT(30), <1>1, <2>1, <2>2 DEF EntryInv
<1> QED BY <1>3, <1>4, <1>5, <1>6 DEF Next
-----------------------------------------------------------------------------
\* The job list that the constructor of Scheduler makes.
LEMMA StartStep == ASSUME Inv, Start PROVE Inv'
PROOF
<1> DEFINE taken == {file.jobs[k].name : k \in DOMAIN file.jobs}
           row(m) == m \in Names /\ m \notin taken /\ table[m] # NoRow
<1>1. /\ jobs' = Range(EachOf(file.jobs, ConfigJob)) \cup LoadJobDefs(taken)
      /\ UNCHANGED <<file, table, now>> /\ up' = TRUE /\ Loads(file)
      /\ next_run' = NextRuns(jobs') /\ rules' = EachOf(file.rules, RuleOf)
  BY Zenon DEF Start
<1>2. TableInv /\ JobInv
  BY SMTT(30) DEF Inv
<1>3. ASSUME NEW job \in jobs'
      PROVE  \/ \E k \in DOMAIN file.jobs : job = ConfigJob(file.jobs[k])
             \/ \E m \in Names : row(m) /\ job = JobFromDef(table[m])
  BY Zenon, <1>1 DEF Range, EachOf, LoadJobDefs
<1>4. ASSUME NEW m \in Names, row(m) PROVE JobFromDef(table[m]) \in jobs'
  BY <1>1, <1>4 DEF LoadJobDefs
<1>5. ASSUME NEW k \in DOMAIN file.jobs PROVE ConfigJob(file.jobs[k]) \in jobs'
  BY <1>1 DEF Range, EachOf
<1>6. ASSUME NEW k \in DOMAIN file.jobs
      PROVE  LET job == ConfigJob(file.jobs[k]) IN
             /\ job.name = file.jobs[k].name /\ job.name \in Names /\ job.source = "config"
             /\ job.schedule = Absent <=> job.schedule_expr = <<>>
             /\ job.timeout >= 0 /\ job.retries >= 0
  <2>1. Sensible(file.jobs[k]) /\ ConfigJobOK(file.jobs[k])
    BY <1>1, <1>2, JobDefsAssumption DEF JobInv, Loads
  <2> QED BY <2>1, ConfigJobFacts
<1>7. ASSUME NEW m \in Names, row(m)
      PROVE  LET job == JobFromDef(table[m]) IN
             /\ job.name = m /\ job.source = "ui"
             /\ job.schedule = Absent <=> job.schedule_expr = <<>>
  BY <1>2, <1>7, RowFacts
<1>8. TableInv'
  <2>1. next_run' = [n \in Names |-> next_run'[n]]
    BY <1>1, Zenon DEF NextRuns
  <2> QED BY <1>1, <1>2, <2>1 DEF TableInv
<1>9. \A job \in jobs' : job.name \in Names
  BY <1>3, <1>6, <1>7
<1>10. \A job, other \in jobs' : job.name = other.name => job = other
  <2> SUFFICES ASSUME NEW job \in jobs', NEW other \in jobs', job.name = other.name
               PROVE  job = other
    BY SMTT(30)
  <2>1. ASSUME NEW k \in DOMAIN file.jobs, job = ConfigJob(file.jobs[k]),
               NEW j \in DOMAIN file.jobs, other = ConfigJob(file.jobs[j])
        PROVE  job = other
    BY SMTT(30), <1>1, <1>6, <2>1 DEF Loads, Distinct
  <2>2. ASSUME NEW k \in DOMAIN file.jobs, NEW m \in Names, row(m),
               ConfigJob(file.jobs[k]).name = JobFromDef(table[m]).name
        PROVE  FALSE
    BY <1>6, <1>7, <2>2
  <2>3. ASSUME NEW m \in Names, row(m), job = JobFromDef(table[m]),
               NEW n \in Names, row(n), other = JobFromDef(table[n])
        PROVE  job = other
    BY SMTT(30), <1>7, <2>3
  <2> QED BY <1>3, <2>1, <2>2, <2>3, Zenon
<1>11. JobInv'
  BY <1>1, <1>2, <1>9 DEF JobInv
<1>12. RestartKeepsJobs'
  <2> SUFFICES ASSUME NEW n \in Names
               PROVE  /\ \A job \in jobs' : job.name = n /\ job.source = "ui" => job = JobFromDef(table[n])
                      /\ table[n] # NoRow => \E job \in jobs' : job.name = n
    BY SMTT(30), <1>1 DEF RestartKeepsJobs, Known
  <2>1. ASSUME NEW job \in jobs', job.name = n, job.source = "ui" PROVE job = JobFromDef(table[n])
    BY <1>3, <1>6, <1>7, <2>1
  <2>2. ASSUME table[n] # NoRow PROVE \E job \in jobs' : job.name = n
    <3>1. CASE n \in taken
      BY SMTT(30), <1>5, <1>6, <3>1
    <3>2. CASE n \notin taken
      BY <1>4, <1>7, <2>2, <3>2
    <3> QED BY SMTT(30), <3>1, <3>2
  <2> QED BY SMTT(30), <2>1, <2>2
<1>13. DefinitionsSound'
  <2>1. Distinct(rules)'
    BY ZenonT(30), <1>1 DEF Loads, Distinct, EachOf, RuleOf
  <2>2. \A job \in jobs' : job.schedule = Absent <=> job.schedule_expr = <<>>
    BY SMTT(30), <1>3, <1>6, <1>7
  <2>3. \A job \in jobs' : job.source = "config" => job.timeout >= 0 /\ job.retries >= 0
    BY SMTT(30), <1>3, <1>6, <1>7
  <2> QED BY SMTT(30), <1>10, <2>1, <2>2, <2>3 DEF DefinitionsSound
<1>14. NextInv'
  <2> SUFFICES ASSUME NEW job \in jobs', job.schedule # Absent, NEW t \in Times, t >= now
               PROVE  Occurs(job.schedule, now, t) <=>
                        next_run'[job.name] # 0 /\ next_run'[job.name] <= t
    BY Zenon, <1>1 DEF NextInv
  <2>1. next_run'[job.name] = NextAfter(ScheduleOf(job.name, jobs'), now)
    BY Zenon, <1>1, <1>9 DEF NextRuns
  <2>2. ScheduleOf(job.name, jobs') = job.schedule
    <3> HIDE DEF row
    <3> QED BY <1>10, ScheduleIsOwn
  <2> QED BY SMTT(30), <1>2, <2>1, <2>2, EntryIsFirst DEF JobInv
<1>15. EntryInv'
  BY EntryStep DEF Next
<1> QED BY <1>8, <1>11, <1>12, <1>13, <1>14, <1>15 DEF Inv

LEMMA AddStep == ASSUME Inv, NEW body \in Bodies, AddJob(body) PROVE Inv'
PROOF
<1> DEFINE job == RequestJob(body)
           n == body.name
<1>1. /\ up /\ RequestOK(body) /\ ~Known(n) /\ jobs' = jobs \cup {job}
      /\ UNCHANGED <<file, up, rules, now>>
  BY Zenon DEF AddJob
<1>2. /\ job.name = n /\ n \in Names /\ job.source = "ui"
      /\ job.schedule = Absent <=> job.schedule_expr = <<>>
      /\ DefFromJob(job).name = n /\ ExprOK(DefFromJob(job).schedule_expr)
      /\ JobFromDef(DefFromJob(job)) = job
  BY <1>1, RequestFacts
<1>3. /\ table' = [table EXCEPT ![DefFromJob(job).name] = DefFromJob(job)]
      /\ next_run' = [next_run EXCEPT ![job.name] = NextRuns({job})[job.name]]
  BY Zenon DEF AddJob, UpsertJobDef
<1> DEFINE def == DefFromJob(job)
<1> HIDE DEF job, n, def
<1>4. TableInv /\ JobInv /\ DefinitionsSound
  BY DEF Inv
<1>5. /\ table' = [m \in Names |-> IF m = n THEN def ELSE table[m]]
      /\ next_run' = [m \in Names |-> IF m = n THEN NextRuns({job})[n] ELSE next_run[m]]
  BY Zenon, <1>2, <1>3, <1>4 DEF TableInv, def
<1>6. TableInv'
  BY <1>2, <1>4, <1>5 DEF TableInv, def
<1>7. \A other \in jobs : other.name # n /\ other.name \in Names
  BY <1>1, <1>4 DEF Known, JobInv
<1>8. JobInv'
  BY <1>1, <1>2, <1>4 DEF JobInv
<1>9. RestartKeepsJobs'
  <2>1. RestartKeepsJobs
    BY DEF Inv
  <2>2. \A m \in Names : Known(m)' <=> Known(m) \/ m = n
    BY <1>1, <1>2 DEF Known
  <2>3. ASSUME NEW m \in Names, m = n
        PROVE  \A j \in jobs' : j.name = m /\ j.source = "ui" => j = JobFromDef(table'[m])
    <3>1. table'[n] = def /\ JobFromDef(def) = job
      BY SMTT(30), <1>2, <1>5 DEF def
    <3> QED BY SMTT(30), <1>1, <1>7, <2>3, <3>1
  <2>4. ASSUME NEW m \in Names, m # n
        PROVE  \A j \in jobs' : j.name = m /\ j.source = "ui" => j = JobFromDef(table'[m])
    BY SMTT(30), <1>1, <1>2, <1>5, <2>1, <2>4 DEF RestartKeepsJobs
  <2> QED BY <1>1, <1>5, <2>1, <2>2, <2>3, <2>4 DEF RestartKeepsJobs
<1>10. DefinitionsSound'
  BY SMTT(30), <1>1, <1>2, <1>4, <1>7 DEF DefinitionsSound
<1>11. NextInv'
  <2> SUFFICES ASSUME NEW j \in jobs', j.schedule # Absent, NEW t \in Times, t >= now
               PROVE  Occurs(j.schedule, now, t) <=>
                        next_run'[j.name] # 0 /\ next_run'[j.name] <= t
    BY <1>1 DEF NextInv
  <2>1. CASE j \in jobs
    <3>1. next_run'[j.name] = next_run[j.name]
      BY SMTT(30), <1>5, <1>7, <2>1
    <3> QED BY SMTT(30), <2>1, <3>1 DEF Inv, NextInv
  <2>2. CASE j = job
    <3>1. ScheduleOf(job.name, {job}) = job.schedule
      BY Zenon, <2>2, ScheduleIsOwn
    <3>2. next_run'[j.name] = NextAfter(job.schedule, now)
      BY <1>2, <1>5, <2>2, <3>1 DEF NextRuns
    <3> QED BY <1>4, <2>2, <3>2, EntryIsFirst DEF JobInv
  <2> QED BY <1>1, <2>1, <2>2
<1>12. EntryInv'
  BY EntryStep DEF Next
<1> QED BY <1>6, <1>8, <1>9, <1>10, <1>11, <1>12 DEF Inv

LEMMA RemoveStep == ASSUME Inv, NEW n \in Names, RemoveJob(n) PROVE Inv'
PROOF
<1>1. /\ up /\ jobs' = {job \in jobs : job.name # n}
      /\ UNCHANGED <<file, up, rules, now>>
      /\ table' = [table EXCEPT ![n] = NoRow] /\ next_run' = [next_run EXCEPT ![n] = 0]
  BY Zenon DEF RemoveJob, DeleteJobDef
<1>2. TableInv /\ JobInv /\ DefinitionsSound /\ RestartKeepsJobs /\ NextInv
  BY DEF Inv
<1>3. /\ table' = [m \in Names |-> IF m = n THEN NoRow ELSE table[m]]
      /\ next_run' = [m \in Names |-> IF m = n THEN 0 ELSE next_run[m]]
  BY Zenon, <1>1, <1>2 DEF TableInv
<1>4. TableInv'
  BY <1>2, <1>3 DEF TableInv
<1>5. JobInv' /\ DefinitionsSound'
  BY <1>1, <1>2 DEF JobInv, DefinitionsSound
<1>6. RestartKeepsJobs'
  BY <1>1, <1>2, <1>3 DEF RestartKeepsJobs, Known
<1>7. NextInv'
  <2> SUFFICES ASSUME NEW job \in jobs', job.schedule # Absent, NEW t \in Times, t >= now
               PROVE  Occurs(job.schedule, now, t) <=>
                        next_run'[job.name] # 0 /\ next_run'[job.name] <= t
    BY SMTT(30), <1>1 DEF NextInv
  <2>1. job \in jobs /\ next_run'[job.name] = next_run[job.name]
    BY <1>1, <1>2, <1>3 DEF JobInv
  <2> QED BY <1>2, <2>1 DEF NextInv
<1>8. EntryInv'
  BY EntryStep DEF Next
<1> QED BY <1>4, <1>5, <1>6, <1>7, <1>8 DEF Inv

\* A tick leaves an entry alone that lies ahead, and it still is the first
\* occurrence: there was none in the time that has passed.
LEMMA TickStep == ASSUME Inv, Tick PROVE Inv'
PROOF
<1>1. /\ now' \in Times /\ now' > now /\ UNCHANGED <<file, table, up, jobs, rules>>
      /\ next_run' = [n \in Names |->
           IF next_run[n] = 0 \/ next_run[n] > now' THEN next_run[n]
           ELSE NextAfter(ScheduleOf(n, jobs), now')]
  BY DEF Tick
<1>2. TableInv /\ JobInv /\ DefinitionsSound /\ RestartKeepsJobs /\ NextInv
  BY DEF Inv
<1>3. TableInv'
  BY SMTT(30), <1>1, <1>2 DEF TableInv
<1>4. JobInv' /\ DefinitionsSound' /\ RestartKeepsJobs'
  BY SMTT(30), <1>1, <1>2 DEF JobInv, DefinitionsSound, RestartKeepsJobs, Known
<1>5. NextInv'
  <2> SUFFICES ASSUME NEW job \in jobs, job.schedule # Absent, NEW t \in Times, t >= now'
               PROVE  Occurs(job.schedule, now', t) <=>
                        next_run'[job.name] # 0 /\ next_run'[job.name] <= t
    BY ZenonT(30), <1>1 DEF NextInv
  <2>1. job.name \in Names /\ now \in Nat /\ now' \in Nat /\ t \in Nat /\ now \in Times
    BY ZenonT(30), <1>1, <1>2, JobDefsAssumption DEF JobInv
  <2> DEFINE x == next_run[job.name]
  <2>2. CASE x = 0 \/ x > now'
    <3>1. next_run'[job.name] = x
      BY <1>1, <2>1, <2>2
    <3>2. ~(x # 0 /\ x <= now')
      BY SMTT(30), <2>1, <2>2 DEF Inv, EntryInv
    <3>3. ~Occurs(job.schedule, now, now')
      BY SMTT(30), <1>1, <1>2, <2>1, <3>2 DEF NextInv
    <3>4. Occurs(job.schedule, now, t) <=> Occurs(job.schedule, now', t)
      BY SMTT(30), <1>1, <2>1, <3>3 DEF Occurs
    <3>5. Occurs(job.schedule, now, t) <=> x # 0 /\ x <= t
      BY SMTT(30), <1>1, <1>2, <2>1 DEF NextInv
    <3> QED BY SMTT(30), <3>1, <3>4, <3>5
  <2>3. CASE ~(x = 0 \/ x > now')
    <3>1. ScheduleOf(job.name, jobs) = job.schedule
      BY SMTT(30), <1>2, ScheduleIsOwn DEF DefinitionsSound
    <3>2. next_run'[job.name] = NextAfter(job.schedule, now')
      BY SMTT(30), <1>1, <2>1, <2>3, <3>1
    <3>3. t - now' <= 60 * (KMaxMinutes - 1)
      BY <1>1, JobDefsAssumption
    <3>4. Occurs(job.schedule, now', t) <=>
            NextAfter(job.schedule, now') # 0 /\ NextAfter(job.schedule, now') <= t
      BY <2>1, <3>3, NextFinds
    <3> QED BY SMTT(30), <3>2, <3>4
  <2> QED BY SMTT(30), <2>2, <2>3
<1>6. EntryInv'
  BY EntryStep DEF Next
<1> QED BY SMTT(30), <1>3, <1>4, <1>5, <1>6 DEF Inv

LEMMA InitInv == Init => Inv
PROOF
<1> SUFFICES ASSUME Init PROVE Inv
  OBVIOUS
<1>1. now \in Times
  BY JobDefsAssumption, FirstIsLeast DEF Init
<1>2. TableInv
  BY SMTT(30) DEF Init, TableInv
<1>3. DefinitionsSound
  BY DEF Init, DefinitionsSound, Distinct
<1> QED BY <1>1, <1>2, <1>3 DEF Init, Inv, JobInv, NextInv, EntryInv, RestartKeepsJobs

LEMMA InvStep == Inv /\ [Next]_vars => Inv'
PROOF
<1> SUFFICES ASSUME Inv, [Next]_vars PROVE Inv'
  OBVIOUS
<1>1. TableInv /\ JobInv /\ DefinitionsSound /\ RestartKeepsJobs /\ NextInv
  BY DEF Inv
<1>2. ASSUME End PROVE Inv'
  <2>1. /\ ~up' /\ jobs' = {} /\ rules' = <<>> /\ next_run' = [n \in Names |-> 0]
        /\ UNCHANGED <<file, table, now>>
    BY <1>2, Zenon DEF End
  <2>2. TableInv' /\ JobInv' /\ NextInv'
    BY SMTT(30), <1>1, <2>1 DEF TableInv, JobInv, NextInv
  <2>3. DefinitionsSound' /\ RestartKeepsJobs'
    BY <2>1 DEF DefinitionsSound, RestartKeepsJobs, Distinct
  <2>4. EntryInv'
    BY SMTT(30), <1>2, EntryStep DEF Next
  <2> QED BY <2>2, <2>3, <2>4 DEF Inv
<1>3. ASSUME Edit \/ UNCHANGED vars PROVE Inv'
  <2>1. file' \in Files /\ UNCHANGED <<table, up, jobs, rules, next_run, now>>
    BY SMTT(30), <1>1, <1>3 DEF Edit, vars, JobInv
  <2> QED BY <1>1, <2>1 DEF Inv, TableInv, JobInv, NextInv, EntryInv,
             DefinitionsSound, Distinct,
          RestartKeepsJobs, Known
<1>4. ASSUME Reload PROVE Inv'
  <2>1. /\ Loads(file) /\ rules' = EachOf(file.rules, RuleOf)
        /\ UNCHANGED <<file, table, up, jobs, next_run, now>>
    BY <1>4, ZenonT(30) DEF Reload
  <2>2. Distinct(rules)'
    BY SMTT(30), <2>1 DEF Loads, Distinct, EachOf, RuleOf
  <2>3. DefinitionsSound'
    BY <1>1, <2>1, <2>2 DEF DefinitionsSound
  <2> QED BY <1>1, <2>1, <2>3 DEF Inv, TableInv, JobInv, NextInv, EntryInv,
             RestartKeepsJobs, Known
<1> QED BY <1>2, <1>3, <1>4, StartStep, AddStep, RemoveStep, TickStep DEF Next
-----------------------------------------------------------------------------
\* The table, the job list and next_run_ stay consistent, whatever order the
\* restarts, edits, reloads, calls and ticks come in.
THEOREM Inductive == Spec => []Inv
PROOF
<1>1. Init => Inv
  BY InitInv
<1>2. Inv /\ [Next]_vars => Inv'
  BY InvStep
<1> QED BY <1>1, <1>2, PTL DEF Spec

\* For any files and requests, def_from_job and job_from_def lose nothing, and
\* no row is left without its job.
THEOREM RestartKeeps == Spec => []RestartKeepsJobs
PROOF
<1>1. Inv => RestartKeepsJobs
  BY DEF Inv
<1> QED BY <1>1, Inductive, PTL

\* Neither the loader, the merge with the table nor add_job lets a name mean
\* two things or a schedule get lost.
THEOREM DefinitionsStaySound == Spec => []DefinitionsSound
PROOF
<1>1. Inv => DefinitionsSound
  BY SMTT(30) DEF Inv
<1> QED BY <1>1, Inductive, PTL

\* For every calendar (time zone, clock change, leap day) and every schedule,
\* next_after and prev_before agree on whether an occurrence was missed.
THEOREM SearchesAgree == Spec => []MissedMeetsNextRun
PROOF
<1>1. Inv => MissedMeetsNextRun
  <2> SUFFICES ASSUME Inv, NEW job \in jobs, job.schedule # Absent, NEW t \in Times, t >= now
               PROVE  DetectMissedRun(job.schedule, now, t) # 0 <=>
                        next_run[job.name] # 0 /\ next_run[job.name] <= t
    BY DEF MissedMeetsNextRun
  <2>1. now \in Nat /\ t \in Nat /\ t - now <= 60 * (KMaxMinutes - 1)
    BY JobDefsAssumption DEF Inv, JobInv
  <2>2. DetectMissedRun(job.schedule, now, t) # 0 <=> Occurs(job.schedule, now, t)
    BY <2>1, MissedFinds
  <2> QED BY SMTT(30), <2>2 DEF Inv, NextInv
<1> QED BY <1>1, Inductive, PTL

\* remove_job deletes only rows of jobs that are its to delete: no step writes
\* the row of a name that config.yaml has taken.
THEOREM ShadowedRowsKept == Spec => ShadowedRowKept
PROOF
<1> DEFINE Kept == \A job \in jobs : job.source = "config" => table'[job.name] = table[job.name]
<1>1. Inv /\ [Next]_vars => [Kept]_vars
  <2> SUFFICES ASSUME Inv, Next, NEW job \in jobs, job.source = "config"
               PROVE  table'[job.name] = table[job.name]
    OBVIOUS
  <2>1. /\ table = [n \in Names |-> table[n]] /\ job.name \in Names
        /\ \A other \in jobs : job.name = other.name => job = other
    BY DEF Inv, TableInv, JobInv, DefinitionsSound
  <2>2. ASSUME NEW body \in Bodies, AddJob(body) PROVE table'[job.name] = table[job.name]
    <3>1. RequestOK(body) /\ job.name # body.name
      BY SMTT(30), <2>2 DEF AddJob, Known
    <3>2. DefFromJob(RequestJob(body)).name = body.name
      BY <3>1, RequestFacts
    <3>3. table' = [table EXCEPT ![DefFromJob(RequestJob(body)).name] = DefFromJob(RequestJob(body))]
      BY <2>2, Zenon DEF AddJob, UpsertJobDef
    <3> QED BY SMTT(30), <2>1, <3>1, <3>2, <3>3
  <2>3. ASSUME NEW n \in Names, RemoveJob(n) PROVE table'[job.name] = table[job.name]
    <3>1. job.name # n
      BY <2>1, <2>3 DEF RemoveJob
    <3>2. table' = [table EXCEPT ![n] = NoRow]
      BY <2>3 DEF RemoveJob, DeleteJobDef
    <3> QED BY <2>1, <3>1, <3>2
  <2>4. CASE UNCHANGED table
    BY <2>4
  <2> QED BY <2>2, <2>3, <2>4, Zenon DEF Next, Start, End, Edit, Reload, Tick
<1> QED BY <1>1, Inductive, PTL DEF Spec, ShadowedRowKept
==============================================================================

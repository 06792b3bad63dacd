------------------------------ MODULE MCJobDefs ------------------------------
(* An instance of JobDefs for TLC.                                         *)
EXTENDS JobDefs

\* A calendar that shows what is hard: the last minutes of a Saturday that is
\* the 31st and the first of a Sunday that is the 1st, with the minutes before
\* midnight repeated as when the clock is set back.
MCLocal(t) ==
  LET m == (t \div 60) - 10 IN
  IF m < 6 THEN [min |-> 57 + (m % 3), hour |-> 23, mday |-> 31, mon |-> 10, wday |-> 6]
           ELSE [min |-> m - 6, hour |-> 0, mday |-> 1, mon |-> 11, wday |-> 0]

Any == <<Star>>
\* Even minutes; midnight of the 1st or of any Sunday; an impossible date; an
\* hour that does not exist; a garbled token; four fields.
Even      == <<<<Every(Star, 2)>>, Any, Any, Any, Any>>
Midnight  == <<<<Span(0, 0), Span(58, 59)>>, <<Span(0, 0)>>, <<Span(1, 1)>>, Any, <<Span(7, 7)>>>>
Sunday    == <<Any, Any, Any, Any, <<Span(7, 7)>>>>
Feb30     == <<Any, Any, <<Span(30, 30)>>, <<Span(2, 2)>>, Any>>
NoHour    == <<Any, <<Span(20, 24)>>, Any, Any, Any>>
BadToken  == <<<<Star, Garbled>>, Any, Any, Any, Any>>
FourParts == <<Any, Any, Any, Any>>

Entry(n, c, s, p, to, re) == [name |-> n, command |-> c, schedule |-> s, policy |-> p,
                              timeout |-> to, retries |-> re]
ARule(n, d) == [name |-> n, metric |-> "cpu", condition |-> ">", threshold |-> 90,
                duration |-> d, cooldown |-> Absent]

MCNames == {"a", "b"}
GoodA   == Entry("a", "make", Even, "run_now", 5, Absent)
MCFiles == {
  [jobs |-> <<>>, rules |-> <<ARule("hot", 5)>>],
  [jobs |-> <<GoodA>>, rules |-> <<ARule("hot", Absent), ARule("full", 5)>>],
  [jobs |-> <<GoodA, GoodA>>, rules |-> <<>>],
  [jobs |-> <<Entry("b", "ls", NoHour, Absent, Absent, Absent)>>, rules |-> <<>>],
  [jobs |-> <<Entry("b", "ls", Absent, "later", Absent, Absent)>>, rules |-> <<>>],
  [jobs |-> <<Entry("b", "ls", Absent, "", -1, Absent)>>, rules |-> <<>>],
  [jobs |-> <<>>, rules |-> <<ARule("hot", 5), ARule("hot", 9)>>],
  [jobs |-> <<>>, rules |-> <<ARule("hot", -5)>>]}
MCBodies == {
  Entry("a", "make", Midnight, "run_now", 5, 1),
  Entry("a", "make", Absent, "later", -5, -1),
  Entry("b", "ls", Sunday, "run_on_wake", Absent, Absent),
  Entry("b", "ls", Feb30, Absent, Absent, 2),
  Entry("b", "ls", BadToken, Absent, Absent, Absent),
  Entry("b", "ls", FourParts, Absent, Absent, Absent),
  Entry("b", Absent, Even, Absent, Absent, Absent),
  Entry("", "ls", Even, Absent, Absent, Absent)}
MCTimes == {600, 630, 660, 750, 780, 930, 960, 990, 1020, 1110}
==============================================================================

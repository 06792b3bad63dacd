-------------------------------- MODULE Cron ---------------------------------
(***************************************************************************)
(* Cron schedules: daemon/src/schedule/cron.{hpp,cpp}.  Text is abstracted *)
(* to what the parser finds in it: an expression is the sequence of its    *)
(* whitespace-separated fields (<<>> is the empty string), a field the     *)
(* sequence of the tokens getline cuts at its commas.                      *)
(***************************************************************************)
EXTENDS Integers, Sequences

CONSTANTS
  Local(_),      \* localtime_r: the local minute, hour, mday, mon (1..), wday
  KMaxMinutes    \* kMaxMinutes, the search horizon

ASSUME CronAssumption == KMaxMinutes \in Nat

\* A token: "*", a single number or a range (a span), or text that std::stoi
\* rejects; with its step, which is 1 when there is no slash.
Star         == [base |-> "star", lo |-> 0, hi |-> 0, slash |-> FALSE, step |-> 1]
Span(a, b)   == [base |-> "span", lo |-> a, hi |-> b, slash |-> FALSE, step |-> 1]
Every(tok, n) == [tok EXCEPT !.slash = TRUE, !.step = n]
Garbled      == [base |-> "garbled", lo |-> 0, hi |-> 0, slash |-> FALSE, step |-> 1]

KRanges == <<[lo |-> 0, hi |-> 59], [lo |-> 0, hi |-> 23], [lo |-> 1, hi |-> 31],
             [lo |-> 1, hi |-> 12], [lo |-> 0, hi |-> 7]>>

Low(tok, range)  == IF tok.base = "star" THEN range.lo ELSE tok.lo
High(tok, range) == IF tok.base = "star" THEN range.hi ELSE tok.hi

TokenOK(tok, range) ==
  /\ tok.base # "garbled" /\ tok.step > 0
  /\ Low(tok, range) >= range.lo /\ High(tok, range) <= range.hi
  /\ Low(tok, range) <= High(tok, range)

TokenValues(tok, range) ==
  {v \in Low(tok, range)..High(tok, range) : (v - Low(tok, range)) % tok.step = 0}

Tokens(field) == {field[k] : k \in DOMAIN field}

\* parse_field: whether it returns true, the set it fills and the wildcard flag.
\* (A trailing comma adds no token but ends the wildcard: "*," is <<Star, Star>>.)
FieldOK(field, range) == field # <<>> /\ \A tok \in Tokens(field) : TokenOK(tok, range)
FieldValues(field, range) == UNION {TokenValues(tok, range) : tok \in Tokens(field)}
IsWildcard(field) == field = <<Star>>

\* CronSchedule::parse, split into its verdict and its value.
Parses(expr) == Len(expr) = 5 /\ \A k \in 1..5 : FieldOK(expr[k], KRanges[k])

Parse(expr) ==
  LET found == [k \in 1..5 |-> FieldValues(expr[k], KRanges[k])]
  IN  [fields |-> [found EXCEPT ![5] = IF 7 \in @ THEN @ \cup {0} ELSE @],
       dom_wildcard |-> IsWildcard(expr[3]), dow_wildcard |-> IsWildcard(expr[5])]

\* If both day fields are restricted, either one is enough.
DayMatches(s, tm) ==
  LET dom_ok == tm.mday \in s.fields[3]
      dow_ok == tm.wday \in s.fields[5]
  IN  \/ s.dom_wildcard /\ s.dow_wildcard
      \/ s.dom_wildcard /\ dow_ok
      \/ s.dow_wildcard /\ dom_ok
      \/ ~s.dom_wildcard /\ ~s.dow_wildcard /\ (dom_ok \/ dow_ok)

Matches(s, tm) == /\ tm.min \in s.fields[1] /\ tm.hour \in s.fields[2]
                  /\ tm.mon \in s.fields[4] /\ DayMatches(s, tm)

\* The two searches go minute by minute and stop at the first match; 0 is
\* nullopt.
First(S) == CHOOSE i \in S : \A k \in S : i <= k

\* Mutant: prev_before leaves the current minute out.
PrevBeforeStrict(s, at) ==
  LET t    == at - (at % 60) - 60
      hits == {i \in 0..(KMaxMinutes - 1) : Matches(s, Local(t - 60 * i))}
  IN  IF hits = {} THEN 0 ELSE t - 60 * First(hits)

NextAfter(s, after) ==
  LET t    == after - (after % 60) + 60
      hits == {i \in 0..(KMaxMinutes - 1) : Matches(s, Local(t + 60 * i))}
  IN  IF hits = {} THEN 0 ELSE t + 60 * First(hits)

PrevBefore(s, at) ==
  LET t    == at - (at % 60)
      hits == {i \in 0..(KMaxMinutes - 1) : Matches(s, Local(t - 60 * i))}
  IN  IF hits = {} THEN 0 ELSE t - 60 * First(hits)

\* detect_missed_run: the latest occurrence, if the last run predates it.
DetectMissedRun(s, last, now) ==
  LET prev == PrevBefore(s, now) IN IF last >= prev THEN 0 ELSE prev
==============================================================================

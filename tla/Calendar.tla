------------------------------- MODULE Calendar -------------------------------
(***************************************************************************)
(* Dates: the months a payment adds to a subscription                      *)
(* (addSubscriptionValidityMonths), the local time of Sao Paulo            *)
(* (SaoPauloPeriodService.fromLocal), and the schedule of a round that is  *)
(* derived from its matches (OfficialRoundScheduleService).                *)
(***************************************************************************)
EXTENDS Integers, FiniteSetsExt

-----------------------------------------------------------------------------
(* CALENDAR MONTHS: a date is [year, month, day], its months 1 to 12.       *)

Leap(y) == y % 4 = 0 /\ (y % 100 # 0 \/ y % 400 = 0)

LastDay(y, m) ==
    CASE m = 2 -> IF Leap(y) THEN 29 ELSE 28
      [] m \in {4, 6, 9, 11} -> 30
      [] OTHER -> 31

Earlier(a, b) ==
    \/ a.year < b.year
    \/ a.year = b.year /\ a.month < b.month
    \/ a.year = b.year /\ a.month = b.month /\ a.day < b.day

\* The n-th month after that of date.
Month(date, n) ==
    LET months == date.month - 1 + n
    IN  [year |-> date.year + months \div 12, month |-> (months % 12) + 1]

AddMonths(date, n) ==
    LET m == Month(date, n)
    IN  [year |-> m.year, month |-> m.month, day |-> Min({date.day, LastDay(m.year, m.month)})]

-----------------------------------------------------------------------------
(* LOCAL TIME, in hours: zone.before is the offset from UTC until the       *)
(* moment zone.change, zone.after the one from then on.                     *)

Local(zone, t) == t + (IF t < zone.change THEN zone.before ELSE zone.after)

\* One attempt: the candidate moves by what its local time is off.
Closer(zone, wanted, candidate) == candidate + wanted - Local(zone, candidate)

\* Fault: one attempt.
FirstAttempt(zone, wanted) == Closer(zone, wanted, wanted)

\* fromLocal: three attempts, the first from the moment that is called so in UTC.
FromLocal(zone, wanted) ==
    Closer(zone, wanted, Closer(zone, wanted, Closer(zone, wanted, wanted)))

Midnight(zone, t) == 24 * (Local(zone, t) \div 24)

-----------------------------------------------------------------------------
(* THE SCHEDULE OF A ROUND.                                                 *)

\* derive: open from the midnight that begins the day before the first match to
\* one hour before the match.
Derived(zone, matches) ==
    LET first == Min(matches)
    IN  [open |-> FromLocal(zone, Midnight(zone, first) - 24), close |-> first - 1]

Accepted(schedule, matches) ==
    schedule.open < schedule.close /\ schedule.close <= Min(matches)

\* resolve, where an administrator may set either time.
Resolved(zone, matches, open, close, default) ==
    LET derived == Derived(zone, matches)
    IN  [open |-> IF open = default THEN derived.open ELSE open,
         close |-> IF close = default THEN derived.close ELSE close]

=============================================================================

--------------------------- MODULE FaultInjection ---------------------------
(* The test-only failpoints of failpoint.cpp: four slots, each with a name and
   an atomic countdown, and one atomic count of the armed ones that lets a
   disarmed process skip the scan.  Tests arm while nothing is being checked
   ("arming is not synchronized against concurrent hits"); checks themselves
   come from every thread that owns a session.  A check is modelled access by
   access, because the countdown is shared and the name is cleared in place. *)
EXTENDS Integers, FiniteSets

CONSTANTS
    Names,      \* failpoints of the library
    Slots,      \* 1 .. 4 in the code
    Threads,    \* threads that run checks
    Free,       \* the name of an empty slot
    MaxNth,     \* bound on the nth a test asks for
    MaxHits     \* bound on the checks of one behaviour

FaultAssumption ==
    /\ Slots \in Nat \ {0} /\ MaxNth \in Nat \ {0} /\ MaxHits \in Nat
    /\ Free \notin Names

Slot == 1 .. Slots

VARIABLES
    name,       \* slot -> its name, or Free
    remaining,  \* slot -> hits left
    g_armed,    \* live points
    check,      \* thread -> [point, at, step] of the check it runs
    hits,       \* history: name -> checks of it since it was armed
    fires,      \* history: name -> checks of it that returned true since then
    asked,      \* history: name -> nth of the last arming, 0 when disarmed
    total       \* checks so far

vars == <<name, remaining, g_armed, check, hits, fires, asked, total>>

points == <<name, remaining, g_armed>>
history == <<hits, fires, asked, total>>

Idle == [point |-> Free, at |-> 0, step |-> "idle"]
Quiet == \A t \in Threads : check[t] = Idle
Named(n) == {s \in Slot : name[s] = n}

\* The slot of the name, else the first empty one, else none.
SlotFor(n) ==
    LET candidates == IF Named(n) # {} THEN Named(n) ELSE Named(Free)
    IN  {s \in candidates : \A r \in candidates : s <= r}

CountArmed(s) == IF name[s] = Free THEN g_armed + 1 ELSE g_armed

Countdown(nth) == nth

\* Without a slot left the call returns and nothing is armed.
Arm(n, nth) ==
    /\ Quiet
    /\ nth > 0
    /\ \E s \in SlotFor(n) :
          /\ name' = [name EXCEPT ![s] = n]
          /\ remaining' = [remaining EXCEPT ![s] = Countdown(nth)]
          /\ g_armed' = CountArmed(s)
    /\ hits' = [hits EXCEPT ![n] = 0]
    /\ fires' = [fires EXCEPT ![n] = 0]
    /\ asked' = [asked EXCEPT ![n] = nth]
    /\ UNCHANGED <<check, total>>

Disarm(n) ==
    /\ Quiet
    /\ \E s \in Named(n) : name' = [name EXCEPT ![s] = Free]
    /\ g_armed' = g_armed - 1
    /\ asked' = [asked EXCEPT ![n] = 0]
    /\ UNCHANGED <<remaining, check, hits, fires, total>>

Step(t, at, step) == check' = [check EXCEPT ![t].at = at, ![t].step = step]
Return(t) == check' = [check EXCEPT ![t] = Idle]

\* `if (g_armed.load() == 0) return false;`
Check(t, n) ==
    /\ check[t] = Idle
    /\ total < MaxHits
    /\ IF g_armed = 0
       THEN UNCHANGED check
       ELSE check' = [check EXCEPT ![t] = [point |-> n, at |-> 1, step |-> "scan"]]
    /\ hits' = [hits EXCEPT ![n] = @ + 1]
    /\ total' = total + 1
    /\ UNCHANGED <<points, fires, asked>>

\* Another slot, or the end of the scan.
SkipSlot(t) ==
    LET c == check[t]
    IN  /\ c.step = "scan"
        /\ name[c.at] # c.point
        /\ IF c.at < Slots THEN Step(t, c.at + 1, "scan") ELSE Return(t)
        /\ UNCHANGED <<points, history>>

MatchSlot(t) ==
    LET c == check[t]
    IN  /\ c.step = "scan"
        /\ name[c.at] = c.point
        /\ Step(t, c.at, "count")
        /\ UNCHANGED <<points, history>>

\* A bug that fires at the countdown's end and on every hit after it.
FiresFrom(before) == before <= 1

\* fetch_sub returned one.
Fires(before) == before = 1

CountDown(t) ==
    LET c == check[t]
    IN  /\ c.step = "count"
        /\ remaining' = [remaining EXCEPT ![c.at] = @ - 1]
        /\ IF Fires(remaining[c.at]) THEN Step(t, c.at, "clear") ELSE Return(t)
        /\ UNCHANGED <<name, g_armed, history>>

Clear(t) ==
    LET c == check[t]
    IN  /\ c.step = "clear"
        /\ name' = [name EXCEPT ![c.at] = Free]
        /\ Step(t, c.at, "release")
        /\ UNCHANGED <<remaining, g_armed, history>>

Release(t) ==
    LET c == check[t]
    IN  /\ c.step = "release"
        /\ g_armed' = g_armed - 1
        /\ fires' = [fires EXCEPT ![c.point] = @ + 1]
        /\ Return(t)
        /\ UNCHANGED <<name, remaining, hits, asked, total>>

Init ==
    /\ name = [s \in Slot |-> Free]
    /\ remaining = [s \in Slot |-> 0]
    /\ g_armed = 0
    /\ check = [t \in Threads |-> Idle]
    /\ hits = [n \in Names |-> 0]
    /\ fires = [n \in Names |-> 0]
    /\ asked = [n \in Names |-> 0]
    /\ total = 0

Next ==
    \/ \E n \in Names, nth \in 1 .. MaxNth : Arm(n, nth)
    \/ \E n \in Names : Disarm(n)
    \/ \E t \in Threads :
          \/ \E n \in Names : Check(t, n)
          \/ SkipSlot(t) \/ MatchSlot(t) \/ CountDown(t) \/ Clear(t) \/ Release(t)

Spec == Init /\ [][Next]_vars

---------------------------------------------------------------------------
(* Properties *)

TypeOK ==
    /\ name \in [Slot -> Names \cup {Free}]
    /\ remaining \in [Slot -> -MaxHits .. MaxNth]
    /\ g_armed \in Int
    /\ check \in [Threads -> [point : Names \cup {Free}, at : 0 .. Slots,
                              step : {"idle", "scan", "count", "clear", "release"}]]

\* "True when an armed point's hit count is reached; fires once": whatever
\* threads run the checks, once they have returned a point has fired exactly
\* once if it was hit at least nth times since it was armed, and else never.
FiresOnNthHit ==
    Quiet => \A n \in Names :
        asked[n] > 0 => fires[n] = IF hits[n] >= asked[n] THEN 1 ELSE 0

\* Between checks the global count is the number of live slots, so that a
\* live point is never skipped and a disarmed process never scans; no name
\* holds two slots.
CountIsLive ==
    Quiet => /\ g_armed = Cardinality({s \in Slot : name[s] # Free})
             /\ \A n \in Names : Cardinality(Named(n)) <= 1

=============================================================================

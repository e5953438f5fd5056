---------------------------- MODULE RateLimiter -----------------------------
(***************************************************************************)
(* rateLimiter (packages/threadhub/src/routes.js): a counter and a fixed   *)
(* window per client address, all forgotten when the table has grown past  *)
(* its bound.  The hub's POST routes, HubDO and SandboxDO each hold one in *)
(* memory; an eviction of the Durable Object, or a restart of the server,  *)
(* forgets it too.                                                         *)
(***************************************************************************)
EXTENDS Integers, FiniteSets

CONSTANTS
  Ip,          \* client addresses
  Max,         \* requests allowed per window (max)
  Window,      \* length of a window (windowMs)
  MaxWindows,  \* size past which the table is cleared (10 000 in the code)
  MaxTime,     \* bound: the last instant of a model run
  MaxHistory   \* bound: past this many happenings a model run lets nothing through

VARIABLES
  now,      \* the clock
  windows,  \* windows[ip]: count and resetAt, or NoWindow
  history   \* what happened when: requests let through, and losses of the table

vars == <<now, windows, history>>

NoWindow == [count |-> 0]

Tracked == {ip \in Ip : windows[ip] # NoWindow}

\* The ways to lose the table: the limiter clears it, or its process is replaced.
Loss == {"cleared", "restarted"}

\* What is in the history of an address, or of a kind of loss.
Of(what) == {h \in history : h.what = what}

Now(what) == [what |-> what, at |-> now, nth |-> Cardinality(Of(what))]

\* Mutant: the window's length is left out of resetAt.
Fresh_NoLength == [count |-> 1, resetAt |-> now]

Fresh == [count |-> 1, resetAt |-> now + Window]

Init ==
  /\ now = 0
  /\ windows = [ip \in Ip |-> NoWindow]
  /\ history = {}

Tick == now < MaxTime /\ now' = now + 1 /\ UNCHANGED <<windows, history>>

Room == Cardinality(history) < MaxHistory

Live(ip) == ip \in Tracked /\ now < windows[ip].resetAt

\* Mutant: the table is cleared when it is full, before it has outgrown its bound.
Outgrown_AtBound == Cardinality(Tracked) >= MaxWindows

Outgrown == Cardinality(Tracked) > MaxWindows

\* The first request of an address, or the first after its window's end: it is let
\* through.  Windows that ended stay in the table until then, or until it is cleared.
OpenWindow(ip) ==
  /\ ~ Live(ip)
  /\ Room
  /\ \/ /\ Outgrown
        /\ windows' = [j \in Ip |-> IF j = ip THEN Fresh ELSE NoWindow]
        /\ history' = history \cup {Now("cleared"), Now(ip)}
     \/ /\ ~ Outgrown
        /\ windows' = [windows EXCEPT ![ip] = Fresh]
        /\ history' = history \cup {Now(ip)}
  /\ UNCHANGED now

\* A request within the window is counted, and let through up to Max.  Past Max the
\* count only grows, which nothing asks again: a refusal changes nothing here.
CountAllowed(ip) ==
  /\ Live(ip)
  /\ windows[ip].count < Max
  /\ Room
  /\ windows' = [windows EXCEPT ![ip].count = @ + 1]
  /\ history' = history \cup {Now(ip)}
  /\ UNCHANGED now

\* The process that holds the limiter is replaced.
Restart ==
  /\ Tracked # {}
  /\ windows' = [ip \in Ip |-> NoWindow]
  /\ history' = history \cup {Now("restarted")}
  /\ UNCHANGED now

Next ==
  \/ Tick
  \/ Restart
  \/ \E ip \in Ip : OpenWindow(ip) \/ CountAllowed(ip)

Spec == Init /\ [][Next]_vars

-----------------------------------------------------------------------------

\* What happened, of these kinds, in the stretch of a window's length from t on.
Stretch(kinds, t) == {h \in history : h.what \in kinds /\ t <= h.at /\ h.at < t + Window}

(***************************************************************************)
(* What a fixed window gives, with the table cleared as it is: in a        *)
(* stretch as long as a window an address is let through less than twice   *)
(* Max times, and Max times more for every loss of the table in it; and    *)
(* the limiter loses it rarely, clearing it a second time in a stretch     *)
(* only after MaxWindows other requests have opened windows of their own.  *)
(***************************************************************************)
Burst(ip, t) ==
  Cardinality(Stretch({ip}, t)) < (2 + Cardinality(Stretch(Loss, t))) * Max

ClearingsCost(t) ==
  LET clearings == Cardinality(Stretch({"cleared"}, t)) IN
  clearings > 0 =>
    Cardinality(Stretch(Ip, t)) > (clearings - 1) * (MaxWindows + 1)

QuotaHolds == \A t \in 0 .. now : ClearingsCost(t) /\ \A ip \in Ip : Burst(ip, t)
=============================================================================

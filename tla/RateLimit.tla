------------------------------ MODULE RateLimit ------------------------------
(***************************************************************************)
(* rateLimitedCounter (sandbox/ratelimit.go), which several goroutines hit  *)
(* at once: Mailbox.push on a tail-drop, serveConn and the guest's send on  *)
(* an oversized frame.  A caller reads the clock first and competes for the *)
(* mutex afterwards, so that readings may be used out of order; the line is *)
(* written with the mutex held, for as long as the writer takes.            *)
(***************************************************************************)
EXTENDS Integers

CONSTANTS Callers,    \* goroutines that call Hit
          Interval,   \* the interval, in ticks
          MaxTime,    \* bound: ticks of the clock
          MaxHit      \* bound: calls of Hit

ASSUME RateLimitAssumption ==
    /\ Interval \in Nat \ {0}
    /\ MaxTime \in Nat \ {0}
    /\ MaxHit \in Nat

None == "none"
ASSUME NoneAssumption == None \notin Callers

VARIABLES
    clock,     \* time.Now(); the first tick is 1
    pc,        \* pc[g]: where caller g is
    stamp,     \* stamp[g]: the `now' it passed
    mu,        \* who holds c.mu
    count,     \* rateLimitedCounter.count
    lastLog,   \* rateLimitedCounter.lastLog, 0 for the zero Time
    n,         \* the number in the line being written
    \* History variables, which no guard reads except the bound on hits.
    calls,     \* calls of Hit begun
    hits,      \* hits counted
    reported,  \* the sum of the numbers in the lines written
    lines      \* the number of those lines

callVars == <<pc, stamp, calls>>
counterVars == <<mu, count, lastLog, n, hits, reported, lines>>
vars == <<clock, callVars, counterVars>>

Init ==
    /\ clock = 1
    /\ pc = [g \in Callers |-> "idle"]
    /\ stamp = [g \in Callers |-> 0]
    /\ mu = None
    /\ count = 0 /\ lastLog = 0 /\ n = 0
    /\ calls = 0 /\ hits = 0 /\ reported = 0 /\ lines = 0

Tick ==
    /\ clock < MaxTime
    /\ clock' = clock + 1
    /\ UNCHANGED <<callVars, counterVars>>

\* The argument of Hit is evaluated: time.Now().
Stamp(g) ==
    /\ pc[g] = "idle"
    /\ calls < MaxHit
    /\ calls' = calls + 1
    /\ stamp' = [stamp EXCEPT ![g] = clock]
    /\ pc' = [pc EXCEPT ![g] = "lock"]
    /\ UNCHANGED <<clock, counterVars>>

\* Faulty variant: every hit is due.
AlwaysDue(g) == stamp[g] >= lastLog

\* A line is due: the first one, or an interval since the last.
Due(g) == lastLog = 0 \/ stamp[g] - lastLog >= Interval

\* Hit under c.mu, when no line is due.
HitCounts(g) ==
    /\ pc[g] = "lock" /\ mu = None
    /\ ~Due(g)
    /\ count' = count + 1
    /\ hits' = hits + 1
    /\ pc' = [pc EXCEPT ![g] = "idle"]
    /\ UNCHANGED <<clock, stamp, calls, mu, lastLog, n, reported, lines>>

\* Faulty variant: the count is not started afresh.
HitLogsNoReset(g) ==
    /\ pc[g] = "lock" /\ mu = None
    /\ Due(g)
    /\ n' = count + 1
    /\ count' = count + 1
    /\ lastLog' = stamp[g]
    /\ hits' = hits + 1
    /\ mu' = g
    /\ pc' = [pc EXCEPT ![g] = "write"]
    /\ UNCHANGED <<clock, stamp, calls, reported, lines>>

\* Hit under c.mu, when a line is due: onFlush is called with c.mu held.
HitLogs(g) ==
    /\ pc[g] = "lock" /\ mu = None
    /\ Due(g)
    /\ n' = count + 1
    /\ count' = 0
    /\ lastLog' = stamp[g]
    /\ hits' = hits + 1
    /\ mu' = g
    /\ pc' = [pc EXCEPT ![g] = "write"]
    /\ UNCHANGED <<clock, stamp, calls, reported, lines>>

\* Faulty variant: the mutex is not released after a line.
WrittenKeepsLock(g) ==
    /\ pc[g] = "write"
    /\ reported' = reported + n
    /\ lines' = lines + 1
    /\ n' = 0
    /\ pc' = [pc EXCEPT ![g] = "idle"]
    /\ UNCHANGED <<clock, stamp, calls, mu, count, lastLog, hits>>

\* onFlush returns, and the deferred Unlock runs.
Written(g) ==
    /\ pc[g] = "write"
    /\ reported' = reported + n
    /\ lines' = lines + 1
    /\ n' = 0
    /\ mu' = None
    /\ pc' = [pc EXCEPT ![g] = "idle"]
    /\ UNCHANGED <<clock, stamp, calls, count, lastLog, hits>>

HitStep(g) == HitCounts(g) \/ HitLogs(g) \/ Written(g)

Next == Tick \/ \E g \in Callers : Stamp(g) \/ HitStep(g)

\* Go's mutex starves no goroutine that waits for it.  That the writer (stderr)
\* returns is an assumption on the environment: while it does not, every
\* goroutine that hits the counter waits.
Fairness ==
    \A g \in Callers : /\ WF_vars(Written(g))
                      /\ SF_vars(HitCounts(g) \/ HitLogs(g))

Spec == Init /\ [][Next]_vars /\ Fairness

-----------------------------------------------------------------------------
(* Properties *)

TypeOK ==
    /\ clock \in 1..MaxTime
    /\ pc \in [Callers -> {"idle", "lock", "write"}]
    /\ stamp \in [Callers -> 0..MaxTime]
    /\ mu \in Callers \cup {None}
    /\ count \in Nat /\ lastLog \in 0..MaxTime /\ n \in Nat
    /\ calls \in 0..MaxHit /\ hits \in 0..MaxHit
    /\ reported \in Nat /\ lines \in Nat

\* Every hit is in exactly one line, in the one being written, or still to be
\* reported, also when hits race with a line that is being written.
EveryHitCounted == hits = reported + n + count

\* No more lines than one at first and one per interval that has passed, even
\* though clock readings are used out of order.
LinesLimited == lines * Interval <= Interval + (clock - 1)

\* Whoever hits the counter (the reader of a connection, or the guest in send)
\* returns from it, also when the mutex is taken over and over.
HitReturns == \A g \in Callers : pc[g] = "lock" ~> pc[g] = "idle"
=============================================================================

--------------------------- MODULE RateLimitProofs ---------------------------
(***************************************************************************)
(* The accounting and the rate of the counter, for any number of callers,   *)
(* any interval and however late a clock reading is used.                   *)
(***************************************************************************)
EXTENDS RateLimit, TLAPS

\* A caller that competes for the mutex has read the clock in the past, and a
\* line carries the time of such a reading.
Types ==
    /\ clock \in Nat \ {0}
    /\ pc \in [Callers -> {"idle", "lock", "write"}]
    /\ stamp \in [Callers -> Nat]
    /\ \A g \in Callers : pc[g] = "lock" => stamp[g] \in 1..clock
    /\ mu \in Callers \cup {None}
    /\ count \in Nat /\ n \in Nat /\ calls \in Nat
    /\ hits \in Nat /\ reported \in Nat /\ lines \in Nat
    /\ lastLog \in 0..clock

\* A line is being written by the caller that holds the mutex, and by no other.
Exclusive ==
    /\ \A g \in Callers : pc[g] = "write" <=> mu = g
    /\ mu = None => n = 0

\* Lines written or being written.
Begun == IF mu = None THEN lines ELSE lines + 1

\* Between two lines lies at least an interval, in the clock readings they
\* carry.
Paced == IF lastLog = 0 THEN Begun = 0
                        ELSE Begun * Interval <= Interval + lastLog - 1

IInv == Types /\ Exclusive /\ EveryHitCounted /\ Paced

\* One line more is one interval more.
LEMMA OneMore ==
    ASSUME NEW k \in Nat PROVE (k + 1) * Interval = k * Interval + Interval
  BY RateLimitAssumption

LEMMA Initially == Init => IInv
  BY RateLimitAssumption, NoneAssumption
     DEF Init, IInv, Types, Exclusive, EveryHitCounted, Paced, Begun

LEMMA TypesKept == ASSUME Types, [Next]_vars PROVE Types'
<1> USE DEF Types
<1>1. CASE Tick
  BY <1>1 DEF Tick, callVars, counterVars
<1>2. ASSUME NEW g \in Callers, Stamp(g) PROVE Types'
  BY <1>2 DEF Stamp, counterVars
<1>3. ASSUME NEW g \in Callers, HitCounts(g) PROVE Types'
  BY <1>3 DEF HitCounts
<1>4. ASSUME NEW g \in Callers, HitLogs(g) PROVE Types'
  BY <1>4 DEF HitLogs
<1>5. ASSUME NEW g \in Callers, Written(g) PROVE Types'
  BY <1>5 DEF Written
<1>6. CASE UNCHANGED vars
  BY <1>6 DEF vars, callVars, counterVars
<1> QED  BY <1>1, <1>2, <1>3, <1>4, <1>5, <1>6 DEF Next, HitStep

LEMMA ExclusiveKept == ASSUME Types, Exclusive, [Next]_vars PROVE Exclusive'
<1> USE NoneAssumption DEF Types, Exclusive
<1>1. CASE Tick
  BY <1>1 DEF Tick, callVars, counterVars
<1>2. ASSUME NEW g \in Callers, Stamp(g) PROVE Exclusive'
  BY <1>2 DEF Stamp, counterVars
<1>3. ASSUME NEW g \in Callers, HitCounts(g) PROVE Exclusive'
  BY <1>3 DEF HitCounts
<1>4. ASSUME NEW g \in Callers, HitLogs(g) PROVE Exclusive'
  BY <1>4 DEF HitLogs
<1>5. ASSUME NEW g \in Callers, Written(g) PROVE Exclusive'
  BY <1>5 DEF Written
<1>6. CASE UNCHANGED vars
  BY <1>6 DEF vars, callVars, counterVars
<1> QED  BY <1>1, <1>2, <1>3, <1>4, <1>5, <1>6 DEF Next, HitStep

\* A hit goes from the caller to count, from there into the line that is being
\* written, and from there to what was reported.
LEMMA CountKept ==
    ASSUME Types, Exclusive, EveryHitCounted, [Next]_vars
    PROVE  EveryHitCounted'
<1> USE DEF Types, Exclusive, EveryHitCounted
<1>1. CASE Tick
  BY <1>1 DEF Tick, counterVars
<1>2. ASSUME NEW g \in Callers, Stamp(g) PROVE EveryHitCounted'
  BY <1>2 DEF Stamp, counterVars
<1>3. ASSUME NEW g \in Callers, HitCounts(g) PROVE EveryHitCounted'
  BY <1>3 DEF HitCounts
<1>4. ASSUME NEW g \in Callers, HitLogs(g) PROVE EveryHitCounted'
  BY <1>4 DEF HitLogs
<1>5. ASSUME NEW g \in Callers, Written(g) PROVE EveryHitCounted'
  BY <1>5 DEF Written
<1>6. CASE UNCHANGED vars
  BY <1>6 DEF vars, counterVars
<1> QED  BY <1>1, <1>2, <1>3, <1>4, <1>5, <1>6 DEF Next, HitStep

LEMMA PacedKept == ASSUME Types, Exclusive, Paced, [Next]_vars PROVE Paced'
<1> USE RateLimitAssumption, NoneAssumption DEF Paced, Begun
<1>1. CASE Tick
  BY <1>1 DEF Tick, counterVars
<1>2. ASSUME NEW g \in Callers, Stamp(g) PROVE Paced'
  BY <1>2 DEF Stamp, counterVars
<1>3. ASSUME NEW g \in Callers, HitCounts(g) PROVE Paced'
  BY <1>3 DEF HitCounts
<1>4. ASSUME NEW g \in Callers, HitLogs(g) PROVE Paced'
  <2>1. /\ stamp[g] \in Nat \ {0} /\ lastLog' = stamp[g]
        /\ Begun = lines /\ Begun' = lines + 1 /\ lines \in Nat
    BY <1>4 DEF HitLogs, Types
  <2>2. CASE lastLog = 0
    BY <2>1, <2>2
  <2>3. CASE lastLog # 0
    <3>1. stamp[g] >= lastLog + Interval
      BY <1>4, <2>3 DEF HitLogs, Due, Types
    <3>2. lines * Interval <= Interval + lastLog - 1
      BY <2>1, <2>3
    <3>3. (lines + 1) * Interval = lines * Interval + Interval
      BY <2>1, OneMore
    <3> QED  BY <2>1, <3>1, <3>2, <3>3 DEF Types
  <2> QED  BY <2>2, <2>3
<1>5. ASSUME NEW g \in Callers, Written(g) PROVE Paced'
  BY <1>5 DEF Written, Exclusive
<1>6. CASE UNCHANGED vars
  BY <1>6 DEF vars, counterVars
<1> QED  BY <1>1, <1>2, <1>3, <1>4, <1>5, <1>6 DEF Next, HitStep

LEMMA IInvHolds == Spec => []IInv
<1>1. IInv /\ [Next]_vars => IInv'
  BY TypesKept, ExclusiveKept, CountKept, PacedKept DEF IInv
<1> QED  BY <1>1, Initially, PTL DEF Spec

\* No hit is lost and none is reported twice, by any number of callers.
THEOREM HitsAccountedFor == Spec => []EveryHitCounted
<1>1. IInv => EveryHitCounted
  BY DEF IInv
<1> QED  BY <1>1, IInvHolds, PTL

\* The lines keep to their rate, for every interval.
THEOREM RateKept == Spec => []LinesLimited
<1>1. IInv => LinesLimited
  <2> SUFFICES ASSUME IInv PROVE LinesLimited
    OBVIOUS
  <2> USE RateLimitAssumption DEF IInv, Types, Paced, Begun, LinesLimited
  <2>1. CASE lastLog = 0
    BY <2>1
  <2>2. CASE lastLog # 0
    <3>1. lines * Interval <= Begun * Interval
      BY OneMore
    <3> QED  BY <2>2, <3>1
  <2> QED  BY <2>1, <2>2
<1> QED  BY <1>1, IInvHolds, PTL
=============================================================================

------------------------- MODULE SocketListenProofs -------------------------
(***************************************************************************)
(* Proofs about module SocketListen for every set of processes: what the    *)
(* check, remove and bind of sandbox.Listen achieve when the startups of    *)
(* one name do not overlap.                                                 *)
(***************************************************************************)
EXTENDS SocketListen, TLAPS

\* Serving, or in Close before the unlink: the path must lead here.
Holding(p) == pc[p] \in {"serving", "unlink"}

\* What each step of startups that do not overlap preserves: there is one at a
\* time, and its bind meets no file.
Serial ==
    /\ \A p, q \in Procs : pc[p] \in Starting /\ pc[q] \in Starting => p = q
    /\ \A p \in Procs : pc[p] = "bind" => file = NoFile
    /\ \A p \in Procs : pc[p] # "failed"

\* And if no backlog was full, the name that a startup has found free stays
\* free, so that removing the file harms nobody.
Reached ==
    /\ \A p, q \in Procs :
            pc[p] \in {"remove", "bind", "listen"} => ~Holding(q)
    /\ \A p \in Procs : Holding(p) \/ pc[p] = "listen" => file = p

IInv ==
    /\ TypeOK
    /\ ~overlapped => Serial
    /\ ~overlapped /\ ~crowded => Reached

\* The states of every process stay among the ones named, with overlapping
\* startups too.
LEMMA TypeInductive == TypeOK /\ [Next]_vars => TypeOK'
  BY DEF TypeOK, Next, vars, Start, ListenStep, Dial, DialCrowded, Remove, Bind,
         BindFails, ListenCall, Finish, Unlink, CloseFd, Crash, Goto, history, Starting,
         Leaving

\* The invariant in every state of every behaviour.
THEOREM TypeCorrect == Spec => []TypeOK
<1>1. Init => TypeOK
  BY DEF Init, TypeOK
<1> QED  BY <1>1, TypeInductive, PTL DEF Spec

\* No step of Listen, of Close or of a crash lets a second startup in or puts
\* a file in the way of the first.
LEMMA SerialInductive ==
    ASSUME TypeOK, Serial, [Next]_vars, ~overlapped'
    PROVE  Serial'
<1> USE DEF TypeOK, Serial, Starting, Leaving, Goto, history
<1>1. ASSUME NEW p \in Procs, Start(p) PROVE Serial'
  BY <1>1 DEF Start
<1>2. ASSUME NEW p \in Procs, Dial(p) \/ DialCrowded(p) PROVE Serial'
  BY <1>2 DEF Dial, DialCrowded
<1>3. ASSUME NEW p \in Procs, Remove(p) PROVE Serial'
  BY <1>3 DEF Remove
<1>4. ASSUME NEW p \in Procs, Bind(p) \/ BindFails(p) \/ ListenCall(p) PROVE Serial'
  BY <1>4 DEF Bind, BindFails, ListenCall
<1>5. ASSUME NEW p \in Procs, Finish(p) \/ Unlink(p) \/ CloseFd(p) PROVE Serial'
  BY <1>5 DEF Finish, Unlink, CloseFd
<1>6. ASSUME NEW p \in Procs, Crash(p) PROVE Serial'
  BY <1>6 DEF Crash
<1>7. CASE UNCHANGED vars
  BY <1>7 DEF vars
<1> QED
  BY <1>1, <1>2, <1>3, <1>4, <1>5, <1>6, <1>7 DEF Next, ListenStep

\* Nor does one take the name away from a process that serves.
LEMMA ReachedInductive ==
    ASSUME TypeOK, Serial, Reached, [Next]_vars, ~overlapped', ~crowded'
    PROVE  Reached'
<1> USE DEF TypeOK, Serial, Reached, Holding, Starting, Leaving, Goto, history
<1>1. ASSUME NEW p \in Procs, Start(p) PROVE Reached'
  BY <1>1 DEF Start
<1>2. ASSUME NEW p \in Procs, Dial(p) PROVE Reached'
  <2>1. CASE Answers
    BY <1>2, <2>1 DEF Dial
  <2>2. CASE ~Answers
    <3>1. \A q \in Procs : ~Holding(q)
      BY <2>2, NoFileAssumption DEF Answers, Listening
    <3> QED  BY <1>2, <2>2, <3>1 DEF Dial
  <2> QED  BY <2>1, <2>2
<1>3. ASSUME NEW p \in Procs, DialCrowded(p) PROVE Reached'
  BY <1>3 DEF DialCrowded
<1>4. ASSUME NEW p \in Procs, Remove(p) PROVE Reached'
  BY <1>4 DEF Remove
<1>5. ASSUME NEW p \in Procs, Bind(p) \/ BindFails(p) PROVE Reached'
  BY <1>5 DEF Bind, BindFails
<1>6. ASSUME NEW p \in Procs, ListenCall(p) PROVE Reached'
  BY <1>6 DEF ListenCall
<1>7. ASSUME NEW p \in Procs, Finish(p) PROVE Reached'
  BY <1>7 DEF Finish
<1>8. ASSUME NEW p \in Procs, Unlink(p) PROVE Reached'
  <2>1. \A q \in Procs : Holding(q) => q = p
    BY <1>8 DEF Unlink
  <2> QED  BY <1>8, <2>1 DEF Unlink
<1>9. ASSUME NEW p \in Procs, CloseFd(p) \/ Crash(p) PROVE Reached'
  BY <1>9 DEF CloseFd, Crash
<1>10. CASE UNCHANGED vars
  BY <1>10 DEF vars
<1> QED
  BY <1>1, <1>2, <1>3, <1>4, <1>5, <1>6, <1>7, <1>8, <1>9, <1>10
     DEF Next, ListenStep

\* The history is not forgotten.
LEMMA HistoryLasts ==
    [Next]_vars => (overlapped => overlapped') /\ (crowded => crowded')
<1> USE DEF Next, vars, ListenStep, Dial, DialCrowded, Remove, Bind, BindFails,
            ListenCall, Finish, Unlink, CloseFd, Crash, history
<1>1. overlapped /\ [Next]_vars => overlapped'
  BY DEF Start
<1>2. crowded /\ [Next]_vars => crowded'
  BY DEF Start
<1> QED  BY <1>1, <1>2

\* The invariant holds in every state the processes reach.
LEMMA IInvHolds == Spec => []IInv
<1>1. Init => IInv
  BY DEF Init, IInv, Serial, Reached, TypeOK, Holding, Starting, Leaving
<1>2. IInv /\ [Next]_vars => IInv'
  BY TypeInductive, SerialInductive, ReachedInductive, HistoryLasts DEF IInv
<1> QED  BY <1>1, <1>2, PTL DEF Spec

\* When the startups of one name do not overlap and none meets a full backlog,
\* a process that serves is the one its name leads to, whatever crashes left behind and whoever stops.
THEOREM SerialStartReachable == Spec => []ServerReachable
<1>1. IInv => ServerReachable
  BY DEF IInv, Reached, Holding, ServerReachable
<1> QED  BY <1>1, IInvHolds, PTL

\* And no file makes a startup fail, whatever backlog was full.
THEOREM SerialStartSucceeds == Spec => []NoStartFails
<1>1. IInv => NoStartFails
  BY DEF IInv, Serial, NoStartFails
<1> QED  BY <1>1, IInvHolds, PTL
=============================================================================

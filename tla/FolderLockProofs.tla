-------------------------- MODULE FolderLockProofs -------------------------
(***************************************************************************)
(* Theorems about the folder lock, for every number of requests and tabs.  *)
(*                                                                         *)
(* Every action edits the queue and then calls process(), so the proof has *)
(* two halves: ProcessKeeps shows that process() turns any well-formed     *)
(* queue into a well-formed queue in which nothing is left to grant, and   *)
(* one lemma per handler shows that the edit it makes is well formed.      *)
(***************************************************************************)
EXTENDS FolderLock, TLAPS

(* A well-formed lock: types, the order of the queue, and mutual exclusion,*)
(* of any status, mode and ahead, so that it can be said of the queue a    *)
(* handler builds before it calls process().                               *)
Typed(st, md, ah) ==
  /\ st \in [Procs -> {"idle", "pending", "held"}]
  /\ md \in [Procs -> Modes \cup {"none"}]
  /\ ah \in [Procs -> SUBSET Procs]
  /\ \A p \in Procs : (st[p] = "idle") <=> (md[p] = "none")

Ordered(st, ah) ==
  \A p, q \in Procs :
    /\ q \in ah[p] => (st[p] = "pending" /\ st[q] = "pending"
                       /\ p \notin ah[q] /\ ah[q] \subseteq ah[p])
    /\ (p # q /\ st[p] = "pending" /\ st[q] = "pending")
         => (q \in ah[p] \/ p \in ah[q])

Exclusive(st, md) ==
  \A p, q \in Procs :
    (p # q /\ st[p] = "held" /\ st[q] = "held")
      => (md[p] = "shared" /\ md[q] = "shared")

WellFormed(st, md, ah) == Typed(st, md, ah) /\ Ordered(st, ah) /\ Exclusive(st, md)

(* The inductive invariant: mutual exclusion needs the order of the queue, *)
(* because two requests granted by one process() are kept apart by the one *)
(* being in front of the other.                                            *)
IInv == WellFormed(status, mode, ahead) /\ NoLostWakeup

-----------------------------------------------------------------------------
(* process() keeps a well-formed queue well formed and leaves nothing that *)
(* could be granted.                                                       *)
LEMMA ProcessKeeps ==
  ASSUME NEW st, NEW md, NEW ah, WellFormed(st, md, ah), Process(st, md, ah)
  PROVE  IInv'
<1> DEFINE g == Granted(st, md, ah)
<1>1. Typed(st, md, ah) /\ Ordered(st, ah) /\ Exclusive(st, md)
  BY DEF WellFormed
<1>2. /\ status' = [p \in Procs |-> IF p \in g THEN "held" ELSE st[p]]
      /\ mode' = md
      /\ ahead' = [p \in Procs |-> IF p \in g THEN {} ELSE ah[p] \ g]
  BY DEF Process
<1>3. /\ g \subseteq Procs
      /\ \A p \in g : st[p] = "pending" /\ md[p] \in Modes
  BY <1>1 DEF Granted, Typed, Modes
<1>4. \A p \in g : md[p] = "exclusive" =>
        ah[p] = {} /\ \A q \in Procs : st[q] # "held"
  BY DEF Granted
<1>5. \A p \in g : md[p] # "exclusive" =>
        \A q \in Procs : (st[q] = "held" \/ q \in ah[p]) => md[q] # "exclusive"
  BY DEF Granted
<1> HIDE DEF g
<1>6. \A p, q \in g : md[p] = "exclusive" => p = q
  <2> SUFFICES ASSUME NEW p \in g, NEW q \in g, md[p] = "exclusive", p # q
               PROVE  FALSE
    OBVIOUS
  <2>1. p \in ah[q]
    BY <1>1, <1>3, <1>4 DEF Ordered
  <2>2. CASE md[q] = "exclusive"
    BY <2>1, <2>2, <1>4
  <2>3. CASE md[q] # "exclusive"
    BY <2>1, <2>3, <1>3, <1>5
  <2> QED BY <2>2, <2>3
<1>7. Typed(status, mode, ahead)'
  BY <1>1, <1>2, <1>3 DEF Typed, Modes
<1>8. Ordered(status, ahead)'
  <2>1. ASSUME NEW p \in Procs, NEW q \in Procs, q \in ahead'[p]
        PROVE  /\ status'[p] = "pending" /\ status'[q] = "pending"
               /\ p \notin ahead'[q] /\ ahead'[q] \subseteq ahead'[p]
    <3>1. p \notin g /\ q \notin g /\ q \in ah[p]
      BY <2>1, <1>2
    <3>2. /\ st[p] = "pending" /\ st[q] = "pending"
          /\ p \notin ah[q] /\ ah[q] \subseteq ah[p]
      BY <3>1, <1>1 DEF Ordered
    <3> QED BY <3>1, <3>2, <1>2
  <2>2. ASSUME NEW p \in Procs, NEW q \in Procs,
               p # q, status'[p] = "pending", status'[q] = "pending"
        PROVE  q \in ahead'[p] \/ p \in ahead'[q]
    <3>1. p \notin g /\ q \notin g /\ st[p] = "pending" /\ st[q] = "pending"
      BY <2>2, <1>2
    <3>2. q \in ah[p] \/ p \in ah[q]
      BY <3>1, <2>2, <1>1 DEF Ordered
    <3> QED BY <3>1, <3>2, <1>2
  <2> QED BY <2>1, <2>2 DEF Ordered
<1>9. Exclusive(status, mode)'
  <2> SUFFICES ASSUME NEW p \in Procs, NEW q \in Procs,
                      p # q, status'[p] = "held", status'[q] = "held"
               PROVE  mode'[p] = "shared" /\ mode'[q] = "shared"
    BY DEF Exclusive
  <2>1. /\ p \in g \/ st[p] = "held"
        /\ q \in g \/ st[q] = "held"
    BY <1>2
  <2>2. md[p] \in Modes /\ md[q] \in Modes
    BY <2>1, <1>1, <1>3 DEF Typed, Modes
  <2>3. md[p] # "exclusive" /\ md[q] # "exclusive"
    <3>1. CASE p \in g /\ q \in g
      BY <3>1, <1>6
    <3>2. CASE p \in g /\ st[q] = "held"
      BY <3>2, <1>4, <1>5
    <3>3. CASE st[p] = "held" /\ q \in g
      BY <3>3, <1>4, <1>5
    <3>4. CASE st[p] = "held" /\ st[q] = "held"
      <4>1. md[p] = "shared" /\ md[q] = "shared"
        BY <3>4, <1>1 DEF Exclusive
      <4> QED BY <4>1
    <3> QED BY <2>1, <3>1, <3>2, <3>3, <3>4
  <2> QED BY <2>2, <2>3, <1>2 DEF Modes
<1>10. NoLostWakeup'
  <2> SUFFICES ASSUME NEW r \in Granted(status', mode', ahead')
               PROVE  FALSE
    BY DEF NoLostWakeup
  <2>1. r \in Procs /\ status'[r] = "pending"
    BY DEF Granted
  <2>2. r \notin g /\ st[r] = "pending" /\ ahead'[r] = ah[r] \ g
    BY <2>1, <1>2
  <2>3. CASE md[r] = "exclusive"
    <3>1. (\A q \in Procs : status'[q] # "held") /\ ahead'[r] = {}
      BY <2>3, <1>2 DEF Granted
    <3>2. g = {}
      BY <3>1, <1>2, <1>3
    <3>3. (\A q \in Procs : st[q] # "held") /\ ah[r] = {}
      BY <3>1, <3>2, <2>2, <1>2
    <3>4. r \in g
      BY <3>3, <2>1, <2>2, <2>3 DEF g, Granted
    <3> QED BY <3>4, <2>2
  <2>4. CASE md[r] # "exclusive"
    <3>1. \A q \in Procs : status'[q] = "held" => md[q] # "exclusive"
      BY <2>4, <1>2 DEF Granted
    <3>2. \A q \in ah[r] \ g : md[q] # "exclusive"
      BY <2>2, <2>4, <1>2 DEF Granted
    <3>3. \A q \in Procs : (q \in g \/ st[q] = "held") => md[q] # "exclusive"
      BY <3>1, <1>2
    <3>4. \A q \in ah[r] : md[q] # "exclusive"
      BY <3>2, <3>3, <1>3
    <3>5. r \in g
      BY <3>3, <3>4, <2>1, <2>2, <2>4 DEF g, Granted
    <3> QED BY <3>5, <2>2
  <2> QED BY <2>3, <2>4
<1> QED BY <1>7, <1>8, <1>9, <1>10 DEF IInv, WellFormed

-----------------------------------------------------------------------------
(* Taking requests out of the queue or the held list leaves a well-formed  *)
(* queue: a timeout, a release and a closed tab are all such an edit.      *)
LEMMA LeaveKeeps ==
  ASSUME IInv, NEW gone \in SUBSET Procs, Leave(gone)
  PROVE  IInv'
<1> DEFINE st == [p \in Procs |-> IF p \in gone THEN "idle" ELSE status[p]]
           md == [p \in Procs |-> IF p \in gone THEN "none" ELSE mode[p]]
           ah == [p \in Procs |-> IF p \in gone THEN {} ELSE ahead[p] \ gone]
<1>1. Typed(status, mode, ahead) /\ Ordered(status, ahead) /\ Exclusive(status, mode)
  BY DEF IInv, WellFormed
<1>2. Process(st, md, ah)
  BY DEF Leave
<1>3. Typed(st, md, ah)
  BY <1>1 DEF Typed, Modes
<1>4. Ordered(st, ah)
  BY <1>1 DEF Ordered
<1>5. Exclusive(st, md)
  BY <1>1 DEF Exclusive
<1> HIDE DEF st, md, ah
<1> QED BY <1>2, <1>3, <1>4, <1>5, ProcessKeeps DEF WellFormed

(* A new request goes to the end of the queue: every pending request is in *)
(* front of it and it is in front of nobody.                               *)
LEMMA RequestKeeps ==
  ASSUME IInv, NEW p \in Procs, NEW m \in Modes, Request(p, m)
  PROVE  IInv'
<1> DEFINE st == [status EXCEPT ![p] = "pending"]
           md == [mode EXCEPT ![p] = m]
           ah == [ahead EXCEPT ![p] = Pending]
<1>1. Typed(status, mode, ahead) /\ Ordered(status, ahead) /\ Exclusive(status, mode)
  BY DEF IInv, WellFormed
<1>2. status[p] = "idle" /\ Process(st, md, ah)
  BY DEF Request
<1>3. Typed(st, md, ah)
  BY <1>1 DEF Typed, Modes, Pending
<1>4. Ordered(st, ah)
  <2>1. \A q \in Procs : p \notin ahead[q] /\ ahead[p] = {}
    BY <1>1, <1>2 DEF Ordered, Typed
  <2>2. \A q \in Procs : ahead[q] \subseteq Pending
    BY <1>1 DEF Ordered, Typed, Pending
  <2>3. p \notin Pending
    BY <1>2 DEF Pending
  <2>4. /\ ah[p] = Pending /\ st[p] = "pending"
        /\ \A q \in Procs \ {p} : ah[q] = ahead[q] /\ st[q] = status[q]
    BY <1>1 DEF Typed
  <2>5. \A q \in Pending : q \in Procs \ {p} /\ status[q] = "pending"
    BY <2>3 DEF Pending
  <2>6. ASSUME NEW r \in Procs, NEW q \in Procs, q \in ah[r]
        PROVE  /\ st[r] = "pending" /\ st[q] = "pending"
               /\ r \notin ah[q] /\ ah[q] \subseteq ah[r]
    <3>1. CASE r = p
      BY <2>1, <2>2, <2>4, <2>5, <2>6, <3>1
    <3>2. CASE r # p
      <4>1. q \in ahead[r] /\ q # p
        BY <2>1, <2>4, <2>6, <3>2
      <4> QED BY <4>1, <2>4, <3>2, <1>1 DEF Ordered
    <3> QED BY <3>1, <3>2
  <2>7. ASSUME NEW r \in Procs, NEW q \in Procs,
               r # q, st[r] = "pending", st[q] = "pending"
        PROVE  q \in ah[r] \/ r \in ah[q]
    <3>1. CASE r = p \/ q = p
      BY <2>4, <2>7, <3>1 DEF Pending
    <3>2. CASE r # p /\ q # p
      BY <2>4, <2>7, <3>2, <1>1 DEF Ordered
    <3> QED BY <3>1, <3>2
  <2> QED BY <2>6, <2>7 DEF Ordered
<1>5. Exclusive(st, md)
  BY <1>1 DEF Exclusive, Typed
<1> HIDE DEF st, md, ah
<1> QED BY <1>2, <1>3, <1>4, <1>5, ProcessKeeps DEF WellFormed

(* The invariant holds of the empty queue. *)
LEMMA InitIInv == Init => IInv
BY DEF Init, IInv, WellFormed, Typed, Ordered, Exclusive, Modes,
       NoLostWakeup, Granted

(* Every step keeps the invariant. *)
LEMMA NextIInv == IInv /\ [Next]_vars => IInv'
<1> SUFFICES ASSUME IInv, [Next]_vars
             PROVE  IInv'
  OBVIOUS
<1>1. ASSUME NEW p \in Procs, NEW m \in Modes, Request(p, m)
      PROVE  IInv'
  BY <1>1, RequestKeeps
<1>2. ASSUME NEW p \in Procs, TimeOut(p)
      PROVE  IInv'
  BY <1>2, LeaveKeeps DEF TimeOut
<1>3. ASSUME NEW p \in Procs, Release(p)
      PROVE  IInv'
  BY <1>3, LeaveKeeps DEF Release
<1>4. ASSUME NEW t \in Tabs, TabGone(t)
      PROVE  IInv'
  BY <1>4, LeaveKeeps DEF TabGone
<1>5. CASE UNCHANGED vars
  BY <1>5 DEF vars, IInv, WellFormed, Typed, Ordered, Exclusive,
              NoLostWakeup, Granted
<1> QED BY <1>1, <1>2, <1>3, <1>4, <1>5 DEF Next

-----------------------------------------------------------------------------
(* The lock's inductive invariant holds in every reachable state. *)
THEOREM Invariance == Spec => []IInv
BY InitIInv, NextIInv, PTL DEF Spec

(* Type correctness of the queue: every variable keeps its type and a      *)
(* request has a mode exactly while it is queued or held.                  *)
THEOREM TypeCorrect == Spec => []TypeOK
<1>1. IInv => TypeOK
  BY DEF IInv, WellFormed, Typed, TypeOK
<1> QED BY <1>1, Invariance, PTL

(* Mutual exclusion of the folder lock, for any number of tabs and of      *)
(* requests: an exclusive hold is never shared with another hold.          *)
THEOREM Mutex == Spec => []MutualExclusion
<1>1. IInv => MutualExclusion
  BY DEF IInv, WellFormed, Exclusive, MutualExclusion, Held
<1> QED BY <1>1, Invariance, PTL

(* No lost wake-up, for any number of requests: whatever left the queue,   *)
(* no request that could be granted is still waiting.                      *)
THEOREM Wakeup == Spec => []NoLostWakeup
<1>1. IInv => NoLostWakeup
  BY DEF IInv
<1> QED BY <1>1, Invariance, PTL

(* The queue is a first-in first-out order, for any number of requests.    *)
THEOREM Fifo == Spec => []QueueOrder
<1>1. IInv => QueueOrder
  BY DEF IInv, WellFormed, Ordered, QueueOrder
<1> QED BY <1>1, Invariance, PTL

-----------------------------------------------------------------------------
(* A hold only ever ends: no step changes the mode of a request that holds *)
(* the lock before and after it.                                           *)
LEMMA HoldIsFixed ==
  ASSUME IInv, Next, NEW q \in Procs, status[q] = "held", status'[q] = "held"
  PROVE  mode'[q] = mode[q]
<1>1. Typed(status, mode, ahead)
  BY DEF IInv, WellFormed
<1>2. ASSUME NEW gone \in SUBSET Procs, Leave(gone)
      PROVE  mode'[q] = mode[q]
  <2> DEFINE st == [p \in Procs |-> IF p \in gone THEN "idle" ELSE status[p]]
             md == [p \in Procs |-> IF p \in gone THEN "none" ELSE mode[p]]
             ah == [p \in Procs |-> IF p \in gone THEN {} ELSE ahead[p] \ gone]
  <2>1. Process(st, md, ah)
    BY <1>2 DEF Leave
  <2>2. status' = [p \in Procs |-> IF p \in Granted(st, md, ah) THEN "held" ELSE st[p]]
        /\ mode' = md
    BY <2>1 DEF Process
  <2>3. q \notin gone
    <3> SUFFICES ASSUME q \in gone PROVE FALSE
      OBVIOUS
    <3>1. st[q] = "idle" /\ q \notin Granted(st, md, ah)
      BY DEF Granted
    <3> QED BY <3>1, <2>2
  <2> QED BY <2>2, <2>3
<1>3. ASSUME NEW p \in Procs, NEW m \in Modes, Request(p, m)
      PROVE  mode'[q] = mode[q]
  BY <1>1, <1>3 DEF Request, Process, Typed
<1>4. ASSUME NEW p \in Procs, TimeOut(p) \/ Release(p)
      PROVE  mode'[q] = mode[q]
  BY <1>2, <1>4 DEF TimeOut, Release
<1>5. ASSUME NEW t \in Tabs, TabGone(t)
      PROVE  mode'[q] = mode[q]
  BY <1>2, <1>5 DEF TabGone
<1> QED BY <1>3, <1>4, <1>5 DEF Next

(* The queue refines the readers-writer promise, for any number of         *)
(* requests and tabs: every step is a hand-over between compatible holders.*)
THEOREM Refinement == Spec => ImplementsPromise
<1>1. Init => Promise!Init
  BY DEF Init, Promise!Init, HoldOf
<1>2. ASSUME IInv, IInv', [Next]_vars
      PROVE  [Promise!Next]_HoldOf
  <2>1. CASE UNCHANGED vars
    BY <2>1 DEF vars, HoldOf
  <2>2. CASE Next
    <3> DEFINE out == {p \in Procs : HoldOf[p] # "none" /\ HoldOf'[p] = "none"}
               come == {p \in Procs : HoldOf[p] = "none" /\ HoldOf'[p] # "none"}
               md == [p \in come |-> HoldOf'[p]]
    <3>1. /\ Typed(status, mode, ahead) /\ Typed(status', mode', ahead')
          /\ Exclusive(status', mode')
      BY <1>2 DEF IInv, WellFormed, Typed, Exclusive
    <3>2. \A p \in Procs : HoldOf[p] # "none" <=> status[p] = "held"
      BY <3>1 DEF HoldOf, Typed, Modes
    <3>3. \A p \in Procs : HoldOf'[p] # "none" <=> status'[p] = "held"
      BY <3>1 DEF HoldOf, Typed, Modes
    <3>4. \A p \in Procs : (HoldOf[p] # "none" /\ HoldOf'[p] # "none")
                              => HoldOf'[p] = HoldOf[p]
      <4> SUFFICES ASSUME NEW p \in Procs, HoldOf[p] # "none", HoldOf'[p] # "none"
                   PROVE  HoldOf'[p] = HoldOf[p]
        OBVIOUS
      <4>1. status[p] = "held" /\ status'[p] = "held"
        BY <3>2, <3>3
      <4>2. mode'[p] = mode[p]
        BY <4>1, <1>2, <2>2, HoldIsFixed
      <4> QED BY <4>1, <4>2 DEF HoldOf
    <3>5. md \in [come -> Promise!Modes]
      BY <3>1, <3>3 DEF HoldOf, Typed, Modes, Promise!Modes
    <3>6. out \in SUBSET Procs /\ come \in SUBSET Procs
      OBVIOUS
    <3>7. Promise!Compatible(HoldOf')
      <4> SUFFICES ASSUME NEW p \in Procs, NEW q \in Procs,
                          p # q, HoldOf'[p] = "exclusive"
                   PROVE  HoldOf'[q] = "none"
        BY DEF Promise!Compatible
      <4>1. status'[p] = "held" /\ mode'[p] = "exclusive"
        BY DEF HoldOf
      <4>2. status'[q] # "held"
        BY <4>1, <3>1 DEF Exclusive
      <4> QED BY <4>2 DEF HoldOf
    <3>8. Promise!Handover(out, come, md)
      <4>1. out \subseteq Promise!Holders /\ come \cap Promise!Holders = {}
        BY DEF Promise!Holders
      <4>2. HoldOf' = [p \in Procs |-> IF p \in come THEN md[p]
                                       ELSE IF p \in out THEN "none"
                                       ELSE HoldOf[p]]
        <5>1. \A p \in Procs : HoldOf'[p] = IF p \in come THEN md[p]
                                            ELSE IF p \in out THEN "none"
                                            ELSE HoldOf[p]
          BY <3>4
        <5>2. HoldOf' = [p \in Procs |-> HoldOf'[p]]
          BY DEF HoldOf
        <5> QED BY <5>1, <5>2
      <4> QED BY <4>1, <4>2, <3>7 DEF Promise!Handover
    <3> HIDE DEF out, come, md
    <3> QED BY <3>5, <3>6, <3>8 DEF Promise!Next
  <2> QED BY <1>2, <2>1, <2>2
<1> QED BY <1>1, <1>2, Invariance, PTL DEF Spec, ImplementsPromise, Promise!Spec
=============================================================================

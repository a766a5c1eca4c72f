------------------------- MODULE LoginThrottleProofs -------------------------
(* What holds of LoginThrottle for any number of addresses and requests, any    *)
(* limit, window and number of faults.                                          *)
EXTENDS LoginThrottle, FiniteSetTheorems, TLAPS

LEMMA TypeInit == Init => TypeOK
BY ConstantsAssumption DEF Init, TypeOK, Login, Idle

\* Every step keeps the types.
LEMMA TypeStep == TypeOK /\ [Next]_vars => TypeOK'
<1> SUFFICES ASSUME TypeOK, [Next]_vars PROVE TypeOK'
  OBVIOUS
<1> USE ConstantsAssumption
<1>0. ASSUME faults' = faults \/ Fault PROVE faults' \in 0..MaxFaults
  BY <1>0 DEF TypeOK, Fault
<1>1. ASSUME NEW a \in Logins, NEW ip \in Addresses, Lookup(a, ip) PROVE TypeOK'
  <2>1. UNCHANGED <<failures, ttl>> /\ login' = [login EXCEPT ![a] = [pc |-> "checking", from |-> ip]]
    BY <1>1 DEF Lookup, Admit
  <2>2. faults' \in 0..MaxFaults
    BY <1>0, <1>1 DEF Lookup
  <2> QED
    BY <2>1, <2>2 DEF TypeOK, Login
<1>2. ASSUME NEW a \in Logins, Authenticate(a) PROVE TypeOK'
  <2>1. PICK outcome \in {"wrong", "right"} : login' = [login EXCEPT ![a].pc = outcome]
    BY <1>2 DEF Authenticate
  <2> QED
    BY <1>2, <2>1 DEF Authenticate, TypeOK, Login
<1>3. ASSUME NEW a \in Logins, RecordFailure(a) PROVE TypeOK'
  <2>1. login[a].from \in Addresses /\ login' = [login EXCEPT ![a] = Idle]
    BY <1>3 DEF RecordFailure, TypeOK, Login
  <2>2. faults' \in 0..MaxFaults
    BY <1>0, <1>3 DEF RecordFailure
  <2>3. Count(login[a].from) \/ UNCHANGED <<failures, ttl>>
    BY <1>3 DEF RecordFailure
  <2>4. /\ failures' \in [Addresses -> Nat] /\ ttl' \in [Addresses -> 0..Window]
        /\ \A ip \in Addresses : failures'[ip] > 0 <=> ttl'[ip] > 0
    BY <2>1, <2>3 DEF TypeOK, Count
  <2> QED
    BY <2>1, <2>2, <2>4 DEF TypeOK, Login, Idle
<1>4. ASSUME NEW a \in Logins, ClearFailures(a) PROVE TypeOK'
  <2>1. login[a].from \in Addresses /\ login' = [login EXCEPT ![a] = Idle]
    BY <1>4 DEF ClearFailures, TypeOK, Login
  <2>2. faults' \in 0..MaxFaults
    BY <1>0, <1>4 DEF ClearFailures
  <2>3. /\ failures' \in [Addresses -> Nat] /\ ttl' \in [Addresses -> 0..Window]
        /\ \A ip \in Addresses : failures'[ip] > 0 <=> ttl'[ip] > 0
    BY <1>4, <2>1 DEF TypeOK, ClearFailures
  <2> QED
    BY <2>1, <2>2, <2>3 DEF TypeOK, Login, Idle
<1>5. CASE Tick
  BY <1>5 DEF Tick, TypeOK
<1>6. CASE UNCHANGED vars
  BY <1>6 DEF vars, TypeOK
<1> QED
  BY <1>1, <1>2, <1>3, <1>4, <1>5, <1>6 DEF Next, Proceed

\* The variables of LoginThrottle keep their types, and a counter never loses its expiry.
THEOREM TypeCorrect == Spec => []TypeOK
BY TypeInit, TypeStep, PTL DEF Spec

-----------------------------------------------------------------------------
(* The overshoot.  The counter alone is not inductive: what is bounded is the   *)
(* counter together with the requests that may still add to it.                 *)

Pending(ip) == Cardinality(Admitted(ip))

Limit == MaxFailures + Cardinality(Logins) + faults

OvershootInv == \A ip \in Addresses : failures[ip] + Pending(ip) < Limit

\* There are never more requests under way than there can be, and one less when one of
\* them is idle.
LEMMA PendingBounded ==
  ASSUME TypeOK
  PROVE  /\ Cardinality(Logins) \in Nat
         /\ \A ip \in Addresses : Pending(ip) \in Nat /\ Pending(ip) <= Cardinality(Logins)
         /\ \A ip \in Addresses, a \in Logins :
               login[a].from # ip => Pending(ip) + 1 <= Cardinality(Logins)
<1>1. IsFiniteSet(Logins) /\ Cardinality(Logins) \in Nat
  BY ConstantsAssumption, FS_CardinalityType
<1>2. ASSUME NEW ip \in Addresses
      PROVE  IsFiniteSet(Admitted(ip)) /\ Pending(ip) \in Nat /\ Pending(ip) <= Cardinality(Logins)
  BY <1>1, FS_Subset, FS_CardinalityType DEF Admitted, Pending
<1>3. ASSUME NEW ip \in Addresses, NEW a \in Logins, login[a].from # ip
      PROVE  Pending(ip) + 1 <= Cardinality(Logins)
  <2>1. Admitted(ip) \cup {a} \subseteq Logins /\ a \notin Admitted(ip)
    BY <1>3 DEF Admitted
  <2>2. Cardinality(Admitted(ip) \cup {a}) = Pending(ip) + 1
    BY <1>2, <2>1, FS_AddElement DEF Pending
  <2> QED
    BY <1>1, <2>1, <2>2, FS_Subset
<1> QED
  BY <1>1, <1>2, <1>3

\* What starting and ending a request do to the requests pending.
LEMMA PendingStep ==
  ASSUME TypeOK, NEW a \in Logins, NEW v, login' = [login EXCEPT ![a] = v], NEW ip \in Addresses
  PROVE  /\ v.from = ip /\ login[a].from # ip => Pending(ip)' = Pending(ip) + 1
         /\ v.from # ip /\ login[a].from = ip => Pending(ip)' = Pending(ip) - 1
         /\ v.from = login[a].from => Pending(ip)' = Pending(ip)
         /\ v.from # ip /\ login[a].from # ip => Pending(ip)' = Pending(ip)
<1>1. IsFiniteSet(Admitted(ip))
  BY ConstantsAssumption, FS_Subset DEF Admitted
<1>2. Admitted(ip)' = IF v.from = ip THEN Admitted(ip) \cup {a} ELSE Admitted(ip) \ {a}
  BY DEF TypeOK, Admitted
<1>3. a \in Admitted(ip) <=> login[a].from = ip
  BY DEF Admitted
<1>4. CASE v.from = ip /\ login[a].from # ip
  BY <1>1, <1>2, <1>3, <1>4, FS_AddElement DEF Pending
<1>5. CASE v.from # ip /\ login[a].from = ip
  BY <1>1, <1>2, <1>3, <1>5, FS_RemoveElement DEF Pending
<1>6. CASE (v.from = ip) <=> (login[a].from = ip)
  <2>1. Admitted(ip)' = Admitted(ip)
    BY <1>2, <1>3, <1>6
  <2> QED
    BY <1>6, <2>1 DEF Pending
<1> QED
  BY <1>4, <1>5, <1>6

LEMMA OvershootStep == TypeOK /\ OvershootInv /\ [Next]_vars => OvershootInv'
<1> SUFFICES ASSUME TypeOK, OvershootInv, [Next]_vars, NEW ip \in Addresses
             PROVE  (failures[ip] + Pending(ip) < Limit)'
  BY DEF OvershootInv
<1>0. /\ failures[ip] \in Nat /\ Pending(ip) \in Nat /\ Cardinality(Logins) \in Nat
      /\ MaxFailures \in Nat \ {0} /\ faults \in Nat
      /\ failures[ip] + Pending(ip) < MaxFailures + Cardinality(Logins) + faults
      /\ \A a \in Logins : login[a].from # ip => Pending(ip) + 1 <= Cardinality(Logins)
  BY ConstantsAssumption, PendingBounded DEF TypeOK, OvershootInv, Limit
<1>f. ASSUME faults' = faults \/ Fault PROVE faults' \in Nat /\ faults' >= faults
  BY <1>0, <1>f DEF Fault
<1>1. ASSUME NEW a \in Logins, NEW from \in Addresses, Lookup(a, from)
      PROVE  (failures[ip] + Pending(ip) < Limit)'
  <2> DEFINE v == [pc |-> "checking", from |-> from]
  <2>1. login' = [login EXCEPT ![a] = v] /\ failures' = failures /\ v.from = from
    BY <1>1 DEF Lookup, Admit
  <2>2. login[a].from = NoAddress /\ login[a].from # ip
    BY <1>1, ConstantsAssumption DEF Lookup, TypeOK
  <2>3. (~Locked(from) /\ faults' = faults) \/ faults' = faults + 1
    BY <1>1 DEF Lookup, Fault
  <2>4. CASE from = ip
    <3>1. Pending(ip)' = Pending(ip) + 1
      BY <2>1, <2>2, <2>4, PendingStep
    <3>2. CASE faults' = faults + 1
      BY <1>0, <2>1, <3>1, <3>2 DEF Limit
    <3>3. CASE ~Locked(ip) /\ faults' = faults
      BY <1>0, <2>1, <2>2, <3>1, <3>3 DEF Limit, Locked
    <3> QED
      BY <2>3, <2>4, <3>2, <3>3
  <2>5. CASE from # ip
    <3>1. Pending(ip)' = Pending(ip)
      BY <2>1, <2>2, <2>5, PendingStep
    <3> QED
      BY <1>0, <2>1, <2>3, <3>1 DEF Limit
  <2> QED
    BY <2>4, <2>5
<1>2. ASSUME NEW a \in Logins, Authenticate(a)
      PROVE  (failures[ip] + Pending(ip) < Limit)'
  <2>1. PICK outcome \in {"wrong", "right"} : login' = [login EXCEPT ![a].pc = outcome]
    BY <1>2 DEF Authenticate
  <2> DEFINE v == [login[a] EXCEPT !.pc = outcome]
  <2>2. login' = [login EXCEPT ![a] = v] /\ v.from = login[a].from
    BY <2>1 DEF TypeOK, Login
  <2>3. Pending(ip)' = Pending(ip)
    BY <2>2, PendingStep
  <2> QED
    BY <1>0, <1>2, <2>3 DEF Authenticate, Limit
<1>3. ASSUME NEW a \in Logins, login' = [login EXCEPT ![a] = Idle], login[a].from \in Addresses,
             faults' = faults \/ Fault, failures'[ip] \in Nat,
             failures'[ip] <= failures[ip] + (IF login[a].from = ip THEN 1 ELSE 0)
      PROVE  (failures[ip] + Pending(ip) < Limit)'
  <2>1. Idle.from # ip
    BY ConstantsAssumption DEF Idle
  <2>2. Pending(ip)' = IF login[a].from = ip THEN Pending(ip) - 1 ELSE Pending(ip)
    BY <1>3, <2>1, PendingStep
  <2> QED
    BY <1>0, <1>3, <1>f, <2>2 DEF Limit
<1>4. ASSUME NEW a \in Logins, RecordFailure(a)
      PROVE  (failures[ip] + Pending(ip) < Limit)'
  <2>1. /\ login' = [login EXCEPT ![a] = Idle] /\ login[a].from \in Addresses
        /\ faults' = faults \/ Fault
    BY <1>4 DEF RecordFailure, TypeOK, Login
  <2>2. Count(login[a].from) \/ UNCHANGED failures
    BY <1>4 DEF RecordFailure
  <2>3. /\ failures'[ip] \in Nat
        /\ failures'[ip] <= failures[ip] + (IF login[a].from = ip THEN 1 ELSE 0)
    BY <1>0, <2>1, <2>2 DEF Count, TypeOK
  <2> QED
    BY <1>3, <2>1, <2>3
<1>5. ASSUME NEW a \in Logins, ClearFailures(a)
      PROVE  (failures[ip] + Pending(ip) < Limit)'
  <2>1. /\ login' = [login EXCEPT ![a] = Idle] /\ login[a].from \in Addresses
        /\ faults' = faults \/ Fault
    BY <1>5 DEF ClearFailures, TypeOK, Login
  <2>2. /\ failures'[ip] \in Nat
        /\ failures'[ip] <= failures[ip] + (IF login[a].from = ip THEN 1 ELSE 0)
    BY <1>0, <1>5, <2>1 DEF ClearFailures, TypeOK
  <2> QED
    BY <1>3, <2>1, <2>2
<1>6. CASE Tick
  <2>1. failures'[ip] \in Nat /\ failures'[ip] <= failures[ip] /\ UNCHANGED <<login, faults>>
    BY <1>0, <1>6 DEF Tick, TypeOK
  <2>2. Pending(ip)' = Pending(ip)
    BY <2>1 DEF Pending, Admitted
  <2> QED
    BY <1>0, <2>1, <2>2 DEF Limit
<1>7. CASE UNCHANGED vars
  BY <1>0, <1>7 DEF vars, Limit, Pending, Admitted
<1> QED
  BY <1>1, <1>2, <1>4, <1>5, <1>6, <1>7 DEF Next, Proceed

\* The counter passes the limit by no more than the requests under way at once and the
\* Redis operations that failed.
THEOREM OvershootIsBounded == Spec => []OvershootBounded
<1>1. Init => OvershootInv
  <2> SUFFICES ASSUME Init, NEW ip \in Addresses PROVE failures[ip] + Pending(ip) < Limit
    BY DEF OvershootInv
  <2>1. Admitted(ip) = {} /\ failures[ip] = 0 /\ faults = 0
    BY ConstantsAssumption DEF Init, Admitted, Idle
  <2>2. Pending(ip) = 0 /\ Cardinality(Logins) \in Nat
    BY <2>1, ConstantsAssumption, FS_EmptySet, FS_CardinalityType DEF Pending
  <2> QED
    BY <2>1, <2>2, ConstantsAssumption DEF Limit
<1>2. TypeOK /\ OvershootInv => OvershootBounded
  <2> SUFFICES ASSUME TypeOK, OvershootInv, NEW ip \in Addresses PROVE failures[ip] < Limit
    BY DEF OvershootBounded, Limit
  <2>1. failures[ip] \in Nat /\ Pending(ip) \in Nat /\ Limit \in Nat
    BY ConstantsAssumption, PendingBounded DEF TypeOK, Limit
  <2> QED
    BY <2>1 DEF OvershootInv
<1> QED
  BY <1>1, <1>2, TypeInit, TypeStep, OvershootStep, PTL DEF Spec

-----------------------------------------------------------------------------
(* Why a lockout ends (the safety half of LockoutEnds): who may still renew the  *)
(* expiry was let in before the lock, or by a Redis operation that failed.       *)

\* The renewals of ip's expiry that can still happen while it is locked.
Renewals(ip) == Pending(ip) + (MaxFaults - faults)

\* While an address stays locked every step leaves fewer renewals, or as many and no more
\* time on the expiry: the expiry is renewed only at the price of one of them.
LockRunsDown ==
    [][\A ip \in Addresses : Locked(ip) /\ Locked(ip)' =>
          \/ Renewals(ip)' < Renewals(ip)
          \/ Renewals(ip)' = Renewals(ip) /\ ttl'[ip] <= ttl[ip]]_vars

LEMMA RunsDownStep ==
  ASSUME TypeOK, [Next]_vars, NEW ip \in Addresses, Locked(ip)
  PROVE  \/ Renewals(ip)' < Renewals(ip)
         \/ Renewals(ip)' = Renewals(ip) /\ ttl'[ip] <= ttl[ip]
<1>0. /\ Pending(ip) \in Nat /\ faults \in Nat /\ MaxFaults \in Nat /\ ttl[ip] \in Nat
      /\ ttl \in [Addresses -> 0..Window] /\ Window \in Nat
  BY ConstantsAssumption, PendingBounded DEF TypeOK
<1>1. ASSUME NEW a \in Logins, NEW from \in Addresses, Lookup(a, from)
      PROVE  Renewals(ip)' < Renewals(ip) \/ (Renewals(ip)' = Renewals(ip) /\ ttl'[ip] <= ttl[ip])
  <2> DEFINE v == [pc |-> "checking", from |-> from]
  <2>1. login' = [login EXCEPT ![a] = v] /\ ttl' = ttl /\ v.from = from
    BY <1>1 DEF Lookup, Admit
  <2>2. login[a].from = NoAddress /\ login[a].from # ip
    BY <1>1, ConstantsAssumption DEF Lookup, TypeOK
  <2>3. (~Locked(from) /\ faults' = faults) \/ faults' = faults + 1
    BY <1>1 DEF Lookup, Fault
  <2>4. CASE from = ip
    <3>1. Pending(ip)' = Pending(ip) + 1 /\ faults' = faults + 1
      BY <2>1, <2>2, <2>3, <2>4, PendingStep
    <3> QED
      BY <1>0, <2>1, <3>1 DEF Renewals
  <2>5. CASE from # ip
    <3>1. Pending(ip)' = Pending(ip)
      BY <2>1, <2>2, <2>5, PendingStep
    <3> QED
      BY <1>0, <2>1, <2>3, <3>1 DEF Renewals
  <2> QED
    BY <2>4, <2>5
<1>2. ASSUME NEW a \in Logins, Authenticate(a)
      PROVE  Renewals(ip)' = Renewals(ip) /\ ttl'[ip] <= ttl[ip]
  <2>1. PICK outcome \in {"wrong", "right"} : login' = [login EXCEPT ![a].pc = outcome]
    BY <1>2 DEF Authenticate
  <2> DEFINE v == [login[a] EXCEPT !.pc = outcome]
  <2>2. login' = [login EXCEPT ![a] = v] /\ v.from = login[a].from
    BY <2>1 DEF TypeOK, Login
  <2>3. Pending(ip)' = Pending(ip)
    BY <2>2, PendingStep
  <2> QED
    BY <1>0, <1>2, <2>3 DEF Authenticate, Renewals
<1>3. ASSUME NEW a \in Logins, RecordFailure(a) \/ ClearFailures(a)
      PROVE  Renewals(ip)' < Renewals(ip) \/ (Renewals(ip)' = Renewals(ip) /\ ttl'[ip] <= ttl[ip])
  <2>1. /\ login' = [login EXCEPT ![a] = Idle] /\ login[a].from \in Addresses
        /\ faults' = faults \/ faults' = faults + 1
    BY <1>3 DEF RecordFailure, ClearFailures, TypeOK, Login, Fault
  <2>2. Idle.from # ip
    BY ConstantsAssumption DEF Idle
  <2>3. CASE login[a].from = ip
    <3>1. Pending(ip)' = Pending(ip) - 1
      BY <2>1, <2>2, <2>3, PendingStep
    <3> QED
      BY <1>0, <2>1, <3>1 DEF Renewals
  <2>4. CASE login[a].from # ip
    <3>1. Pending(ip)' = Pending(ip)
      BY <2>1, <2>2, <2>4, PendingStep
    <3>2. ttl'[ip] = ttl[ip]
      BY <1>0, <1>3, <2>4 DEF RecordFailure, ClearFailures, Count
    <3> QED
      BY <1>0, <2>1, <3>1, <3>2 DEF Renewals
  <2> QED
    BY <2>3, <2>4
<1>4. CASE Tick
  <2>1. UNCHANGED <<login, faults>> /\ ttl'[ip] <= ttl[ip]
    BY <1>0, <1>4 DEF Tick
  <2>2. Pending(ip)' = Pending(ip)
    BY <2>1 DEF Pending, Admitted
  <2> QED
    BY <1>0, <2>1, <2>2 DEF Renewals
<1>5. CASE UNCHANGED vars
  BY <1>0, <1>5 DEF vars, Renewals, Pending, Admitted
<1> QED
  BY <1>1, <1>2, <1>3, <1>4, <1>5 DEF Next, Proceed

\* A lockout cannot be prolonged without end from inside it: what can renew it runs down,
\* and the expiry with it.
THEOREM LockoutsRunDown == Spec => LockRunsDown
<1>1. TypeOK /\ [Next]_vars =>
        \A ip \in Addresses : Locked(ip) /\ Locked(ip)' =>
          \/ Renewals(ip)' < Renewals(ip)
          \/ Renewals(ip)' = Renewals(ip) /\ ttl'[ip] <= ttl[ip]
  BY RunsDownStep
<1> QED
  BY <1>1, TypeInit, TypeStep, PTL DEF Spec, LockRunsDown
=============================================================================

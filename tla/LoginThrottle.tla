---------------------------- MODULE LoginThrottle ----------------------------
(***************************************************************************)
(* The failure count that locks a client address out of login               *)
(* (services/login_throttle.py, called by routers/auth.py).  All guests of  *)
(* the venue share one address.  The count is a Redis key with an expiry;   *)
(* it is read before the password is checked and written afterwards, and    *)
(* every Redis operation fails open.                                        *)
(***************************************************************************)
EXTENDS Naturals, FiniteSets

CONSTANTS
    Addresses,
    Logins,         \* login requests that can be under way at once, over and over
    NoAddress,
    MaxFailures,    \* MAX_FAILURES
    Window,         \* WINDOW_SECONDS
    MaxFaults       \* bound: Redis operations that fail

ASSUME ConstantsAssumption ==
    /\ NoAddress \notin Addresses
    /\ IsFiniteSet(Logins)
    /\ MaxFailures \in Nat \ {0}
    /\ Window \in Nat \ {0}
    /\ MaxFaults \in Nat

VARIABLES
    failures,   \* the counter of each address; 0 when the key is gone
    ttl,        \* the time its key has left
    login,      \* the requests: idle, checking the password, about to count or to clear
    faults      \* Redis operations that failed so far

vars == <<failures, ttl, login, faults>>

Login == [pc: {"idle", "checking", "wrong", "right"}, from: Addresses \cup {NoAddress}]

Idle == [pc |-> "idle", from |-> NoAddress]

Init ==
    /\ failures = [ip \in Addresses |-> 0]
    /\ ttl = [ip \in Addresses |-> 0]
    /\ login = [a \in Logins |-> Idle]
    /\ faults = 0

Locked(ip) == failures[ip] >= MaxFailures

\* The requests from ip that passed is_locked.
Admitted(ip) == {a \in Logins : login[a].from = ip}

-----------------------------------------------------------------------------

\* One Redis operation fails.
Fault ==
    /\ faults < MaxFaults
    /\ faults' = faults + 1

Admit(a, ip) == login' = [login EXCEPT ![a] = [pc |-> "checking", from |-> ip]]

Count(ip) ==
    /\ failures' = [failures EXCEPT ![ip] = @ + 1]
    /\ ttl' = [ttl EXCEPT ![ip] = Window]

\* Mutants: asking for a locked address renews its expiry; > for >=.
LookupRenewing(a, ip) ==
    /\ login[a].pc = "idle"
    /\ IF Locked(ip)
         THEN /\ ttl' = [ttl EXCEPT ![ip] = Window]
              /\ UNCHANGED login
         ELSE /\ Admit(a, ip)
              /\ UNCHANGED ttl
    /\ UNCHANGED <<failures, faults>>

LookupOffByOne(a, ip) ==
    /\ login[a].pc = "idle"
    /\ failures[ip] <= MaxFailures
    /\ Admit(a, ip)
    /\ UNCHANGED <<failures, ttl, faults>>

\* is_locked: below the limit, or Redis does not answer.  Else the answer is 429 and the
\* request is over.
Lookup(a, ip) ==
    /\ login[a].pc = "idle"
    /\ \/ /\ ~Locked(ip)
          /\ UNCHANGED faults
       \/ Fault
    /\ Admit(a, ip)
    /\ UNCHANGED <<failures, ttl>>

\* authenticate: None for a wrong password, and for an account that is not active.
Authenticate(a) ==
    /\ login[a].pc = "checking"
    /\ \E outcome \in {"wrong", "right"} : login' = [login EXCEPT ![a].pc = outcome]
    /\ UNCHANGED <<failures, ttl, faults>>

\* Mutant: INCR without EXPIRE.
RecordFailureUnexpiring(a) ==
    LET ip == login[a].from IN
    /\ login[a].pc = "wrong"
    /\ failures' = [failures EXCEPT ![ip] = @ + 1]
    /\ login' = [login EXCEPT ![a] = Idle]
    /\ UNCHANGED <<ttl, faults>>

\* record_failure: INCR and EXPIRE in one transaction, then 401.  When it fails it may
\* have been executed or not.
RecordFailure(a) ==
    /\ login[a].pc = "wrong"
    /\ \/ /\ Count(login[a].from)
          /\ UNCHANGED faults \/ Fault
       \/ /\ Fault
          /\ UNCHANGED <<failures, ttl>>
    /\ login' = [login EXCEPT ![a] = Idle]

\* clear_failures, then the tokens.
ClearFailures(a) ==
    LET ip == login[a].from IN
    /\ login[a].pc = "right"
    /\ \/ /\ failures' = [failures EXCEPT ![ip] = 0]
          /\ ttl' = [ttl EXCEPT ![ip] = 0]
          /\ UNCHANGED faults \/ Fault
       \/ /\ Fault
          /\ UNCHANGED <<failures, ttl>>
    /\ login' = [login EXCEPT ![a] = Idle]

\* Time passes; a key whose time is up is gone.
Tick ==
    /\ \E ip \in Addresses : ttl[ip] > 0
    /\ ttl' = [ip \in Addresses |-> IF ttl[ip] > 0 THEN ttl[ip] - 1 ELSE 0]
    /\ failures' = [ip \in Addresses |-> IF ttl[ip] = 1 THEN 0 ELSE failures[ip]]
    /\ UNCHANGED <<login, faults>>

Proceed(a) == Authenticate(a) \/ RecordFailure(a) \/ ClearFailures(a)

Next ==
    \/ \E a \in Logins : Proceed(a) \/ \E ip \in Addresses : Lookup(a, ip)
    \/ Tick

Spec == Init /\ [][Next]_vars

\* Time passes, and every request that was let in is answered.
Fairness == WF_vars(Tick) /\ \A a \in Logins : WF_vars(Proceed(a))

FairSpec == Spec /\ Fairness

-----------------------------------------------------------------------------
(* Properties.                                                                *)

\* Every variable keeps its type, and a counter that exists has an expiry.
TypeOK ==
    /\ failures \in [Addresses -> Nat]
    /\ ttl \in [Addresses -> 0..Window]
    /\ login \in [Logins -> Login]
    /\ \A a \in Logins : login[a].pc = "idle" <=> login[a].from = NoAddress
    /\ faults \in 0..MaxFaults
    /\ \A ip \in Addresses : failures[ip] > 0 <=> ttl[ip] > 0

\* The limit is checked before the password and counted after it, so that it can be
\* passed: but by no more than the requests under way at once, and the lookups that
\* Redis did not answer.
OvershootBounded ==
    \A ip \in Addresses : failures[ip] < MaxFailures + Cardinality(Logins) + faults

\* A lockout ends, although every failure renews the expiry of the counter: only the
\* requests let in before the lock (and failed lookups) still count, and they run out.
LockoutEnds ==
    \A ip \in Addresses : Locked(ip) ~> ~Locked(ip)
=============================================================================

---------------------------- MODULE RateLimiter -----------------------------
(***************************************************************************)
(* middleware.RateLimit on cache.RateIncr: requests of one tenant count    *)
(* themselves in a Redis key per minute, with two commands that other      *)
(* requests' commands may come between.  Tenants have keys of their own,   *)
(* so one tenant is all of them.                                           *)
(*                                                                         *)
(* Time is in ticks, Window of them a minute.  A call is given up within   *)
(* Patience ticks (go-redis's timeouts), less than a minute.               *)
(***************************************************************************)
EXTENDS Naturals, FiniteSets

CONSTANTS
  Requests,
  Limit,        \* requestsPerMinute
  Window,       \* time.Minute, and the unit of the key's window number
  Patience,
  MaxTime,      \* bound: the clock stops here
  Resends,      \* how often go-redis sends a call again that failed (its MaxRetries)
  RedisFails    \* whether a call may fail

ASSUME RequestsAssumption == IsFiniteSet(Requests)
ASSUME LimitAssumption == Limit \in Nat /\ Resends \in Nat
ASSUME TimeAssumption == Window \in Nat \ {0} /\ Patience \in 0 .. Window - 1 /\ MaxTime \in Nat

VARIABLES
  now,
  request,      \* per request, where it is, since when, its key, the count it got,
                \* and, as history, when it got it
  count,        \* Redis: per window, the counter, 0 when there is no key
  expiry        \* Redis: per window, when the key goes, or Never

vars == <<now, request, count, expiry>>

Never == MaxTime + Window + 1
Windows == 0 .. MaxTime \div Window

TypeOK ==
  /\ now \in 0 .. MaxTime
  /\ request \in [Requests ->
       [pc : {"new", "incr", "expire", "reply", "admitted", "unlimited", "rejected"},
        since : 0 .. MaxTime, window : Windows, got : Nat, at : 0 .. MaxTime,
        resends : 0 .. Resends]]
  /\ count \in [Windows -> Nat]
  /\ expiry \in [Windows -> 0 .. Never]

Init ==
  /\ now = 0
  /\ request = [r \in Requests |-> [pc |-> "new", since |-> 0, window |-> 0, got |-> 0, at |-> 0,
                               resends |-> 0]]
  /\ count = [w \in Windows |-> 0]
  /\ expiry = [w \in Windows |-> Never]

Calling == {"incr", "expire", "reply"}

WindowOf(t) == t \div Window

\* window := time.Now().Unix() / 60
Arrive(r) ==
  /\ request[r].pc = "new"
  /\ request' = [request EXCEPT ![r] =
       [@ EXCEPT !.pc = "incr", !.since = now, !.window = WindowOf(now)]]
  /\ UNCHANGED <<now, count, expiry>>

Incr(r) ==
  LET w == request[r].window IN
  /\ request[r].pc = "incr"
  /\ count' = [count EXCEPT ![w] = @ + 1]
  /\ request' = [request EXCEPT ![r].pc = "expire", ![r].got = count[w] + 1, ![r].at = now]
  /\ UNCHANGED <<now, expiry>>

\* Mutant: the key lives to the end of half a minute.
HalfLife == Window \div 2

Life == Window

\* EXPIRE, whether the key is new or not; it may be gone already.
Expire(r) ==
  LET w == request[r].window IN
  /\ request[r].pc = "expire"
  /\ expiry' = IF count[w] = 0 THEN expiry ELSE [expiry EXCEPT ![w] = now + Life]
  /\ request' = [request EXCEPT ![r].pc = "reply"]
  /\ UNCHANGED <<now, count>>

\* Mutant: count >= requestsPerMinute.
AtLimit(n) == n >= Limit

OverLimit(n) == n > Limit

Reply(r) ==
  /\ request[r].pc = "reply"
  /\ request' = [request EXCEPT ![r].pc = IF OverLimit(request[r].got) THEN "rejected" ELSE "admitted"]
  /\ UNCHANGED <<now, count, expiry>>

\* pipe.Exec returns an error, after any of its commands: the request is let through.
Fail(r) ==
  /\ RedisFails
  /\ request[r].pc \in Calling
  /\ request' = [request EXCEPT ![r].pc = "unlimited"]
  /\ UNCHANGED <<now, count, expiry>>

\* The connection breaks, after any of the commands: they are all sent again.
Resend(r) ==
  /\ RedisFails
  /\ request[r].pc \in Calling
  /\ request[r].resends < Resends
  /\ request' = [request EXCEPT ![r].pc = "incr", ![r].resends = @ + 1]
  /\ UNCHANGED <<now, count, expiry>>

\* A second passes, and with it the keys that were to live until then.
Tick ==
  /\ now < MaxTime
  /\ \A r \in Requests : request[r].pc \in Calling => now < request[r].since + Patience
  /\ now' = now + 1
  /\ count' = [w \in Windows |-> IF expiry[w] <= now + 1 THEN 0 ELSE count[w]]
  /\ expiry' = [w \in Windows |-> IF expiry[w] <= now + 1 THEN Never ELSE expiry[w]]
  /\ UNCHANGED request

Next ==
  \/ Tick
  \/ \E r \in Requests : Arrive(r) \/ Incr(r) \/ Expire(r) \/ Reply(r) \/ Fail(r) \/ Resend(r)

Spec == Init /\ [][Next]_vars

-----------------------------------------------------------------------------
Admitted(w) == {r \in Requests : request[r].pc = "admitted" /\ request[r].window = w}
Counted(w) == {r \in Requests : request[r].got > 0 /\ request[r].window = w}
InTime(r) == WindowOf(request[r].at) = request[r].window

\* However requests interleave, and whatever becomes of the key's expiry on the
\* way, no more of one minute are admitted than the limit, of those that are
\* counted before the minute is over: until then no key is lost.
LimitHolds == \A w \in Windows : Cardinality({r \in Admitted(w) : InTime(r)}) <= Limit

\* A request is rejected only when more increments than the limit were sent for
\* its own minute, those sent again included: no key of an earlier minute,
\* expired or not, counts against it.
Sent(w) == {x \in Counted(w) \X (0 .. Resends) : x[2] <= request[x[1]].resends}
RejectedForCause ==
  \A r \in Requests :
    request[r].pc = "rejected" => Cardinality(Sent(request[r].window)) > Limit

\* RateLimit enforces a fixed-window request limit.
LimitEnforced == \A w \in Windows : Cardinality(Admitted(w)) <= Limit
=============================================================================

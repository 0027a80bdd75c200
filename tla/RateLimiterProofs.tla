------------------------- MODULE RateLimiterProofs --------------------------
(***************************************************************************)
(* RateLimiter, for any number of requests, any limit, window, patience    *)
(* and number of resends, whether Redis fails or not.                      *)
(***************************************************************************)
EXTENDS RateLimiter, Integers, FiniteSetTheorems, TLAPS

-----------------------------------------------------------------------------
(* Minutes *)

\* Time does not go back to an earlier minute, and a key that lives a minute
\* lives into the next one.
LEMMA Minutes ==
  /\ \A t \in Nat : WindowOf(t) \in Nat
  /\ \A s, t \in Nat : s <= t => WindowOf(s) <= WindowOf(t)
  /\ \A t \in Nat : WindowOf(t + Window) = WindowOf(t) + 1
<1>1. Window \in Nat \ {0}
  BY TimeAssumption
<1>2. ASSUME NEW s \in Nat PROVE s \div Window \in Nat
  BY <1>1, <1>2
<1>3. ASSUME NEW s \in Nat, NEW t \in Nat, s <= t PROVE s \div Window <= t \div Window
  BY <1>1, <1>3
<1>4. ASSUME NEW s \in Nat PROVE (s + Window) \div Window = s \div Window + 1
  BY <1>1, <1>4
<1> QED
  BY <1>2, <1>3, <1>4 DEF WindowOf

-----------------------------------------------------------------------------
(* Types *)

Records ==
  [pc : {"new", "incr", "expire", "reply", "admitted", "unlimited", "rejected"},
   since : 0 .. MaxTime, window : Windows, got : Nat, at : 0 .. MaxTime,
   resends : 0 .. Resends]

LEMMA WindowsAre == Windows = {w \in Nat : w <= WindowOf(MaxTime)} /\ WindowOf(MaxTime) \in Nat
<1>1. WindowOf(MaxTime) \in Nat
  BY Minutes, TimeAssumption
<1> QED
  BY <1>1 DEF Windows, WindowOf

LEMMA TypeInit == Init => TypeOK
<1> SUFFICES ASSUME Init PROVE TypeOK
  OBVIOUS
<1>1. 0 \in Windows /\ 0 \in 0 .. MaxTime /\ 0 \in 0 .. Resends /\ Never \in 0 .. Never
  BY WindowsAre, TimeAssumption, LimitAssumption DEF Never
<1> QED
  BY <1>1 DEF Init, TypeOK

LEMMA TypeNext == TypeOK /\ [Next]_vars => TypeOK'
<1> SUFFICES ASSUME TypeOK, [Next]_vars PROVE TypeOK'
  OBVIOUS
<1>t. /\ now \in 0 .. MaxTime /\ request \in [Requests -> Records]
      /\ count \in [Windows -> Nat] /\ expiry \in [Windows -> 0 .. Never]
  BY DEF TypeOK, Records
<1>k. MaxTime \in Nat /\ Window \in Nat \ {0} /\ Never = MaxTime + Window + 1 /\ Never \in Nat
  BY TimeAssumption DEF Never
<1>s. SUFFICES /\ now' \in 0 .. MaxTime /\ request' \in [Requests -> Records]
               /\ count' \in [Windows -> Nat] /\ expiry' \in [Windows -> 0 .. Never]
  BY DEF TypeOK, Records
<1>1. CASE Tick
  BY <1>t, <1>k, <1>1 DEF Tick
<1>2. ASSUME NEW r \in Requests, Arrive(r) PROVE TypeOK'
  <2>1. WindowOf(now) \in Windows
    BY <1>t, <1>k, Minutes, WindowsAre
  <2>2. request' = [request EXCEPT ![r] = [@ EXCEPT !.pc = "incr", !.since = now, !.window = WindowOf(now)]]
    BY <1>2 DEF Arrive
  <2>3. [request[r] EXCEPT !.pc = "incr", !.since = now, !.window = WindowOf(now)] \in Records
    BY <1>t, <2>1 DEF Records
  <2>4. request' \in [Requests -> Records]
    BY <1>t, <2>2, <2>3
  <2> QED
    BY <1>t, <1>2, <2>4 DEF Arrive, TypeOK, Records
<1>3. ASSUME NEW r \in Requests, Incr(r) PROVE TypeOK'
  <2>1. request[r].window \in Windows /\ count[request[r].window] + 1 \in Nat
    BY <1>t DEF Records
  <2>2. request' \in [Requests -> Records]
    <3> DEFINE q == [request[r] EXCEPT !.pc = "expire", !.got = count[request[r].window] + 1, !.at = now]
    <3>1. q \in Records
      BY <1>t, <2>1 DEF Records
    <3>2. request' = [request EXCEPT ![r] = q]
      BY <1>t, <1>3 DEF Incr, Records
    <3> HIDE DEF q
    <3> QED
      BY <1>t, <3>1, <3>2
  <2>3. count' \in [Windows -> Nat]
    BY <1>t, <1>3, <2>1 DEF Incr
  <2> QED
    BY <1>t, <1>3, <2>2, <2>3 DEF Incr, TypeOK, Records
<1>4. ASSUME NEW r \in Requests, Expire(r) PROVE TypeOK'
  <2>1. request' \in [Requests -> Records]
    BY <1>t, <1>4 DEF Expire, Records
  <2>2. now + Life \in 0 .. Never
    BY <1>t, <1>k DEF Life
  <2>3. expiry' \in [Windows -> 0 .. Never]
    BY <1>t, <1>4, <2>2 DEF Expire
  <2> QED
    BY <1>t, <1>4, <2>1, <2>3 DEF Expire, TypeOK, Records
<1>5. ASSUME NEW r \in Requests, Reply(r) \/ Fail(r) \/ Resend(r) PROVE TypeOK'
  <2>1. CASE Reply(r) \/ Fail(r)
    <3>1. \E pc \in {"admitted", "rejected", "unlimited"} : request' = [request EXCEPT ![r].pc = pc]
      BY <2>1 DEF Reply, Fail
    <3>2. request' \in [Requests -> Records]
      BY <1>t, <3>1 DEF Records
    <3> QED
      BY <1>t, <2>1, <3>2 DEF Reply, Fail, TypeOK, Records
  <2>2. CASE Resend(r)
    <3>1. request[r].resends + 1 \in 0 .. Resends
      BY <1>t, <2>2, LimitAssumption DEF Resend, Records
    <3>2. request' \in [Requests -> Records]
      BY <1>t, <2>2, <3>1 DEF Resend, Records
    <3> QED
      BY <1>t, <2>2, <3>2 DEF Resend, TypeOK, Records
  <2> QED
    BY <1>5, <2>1, <2>2
<1>6. CASE UNCHANGED vars
  BY <1>t, <1>6 DEF vars
<1> QED
  BY <1>s, <1>1, <1>2, <1>3, <1>4, <1>5, <1>6 DEF Next, TypeOK, Records

\* Clock, requests, counters and expiries keep to their types.
THEOREM LimiterTypeCorrect == Spec => []TypeOK
BY TypeInit, TypeNext, PTL DEF Spec

-----------------------------------------------------------------------------
(* The limit holds *)

\* A request is of a minute that has begun.
MinutesBegun == \A r \in Requests : request[r].pc # "new" => request[r].window <= WindowOf(now)

\* No key goes before its minute is over.
KeysOutlive == \A w \in Windows : expiry[w] # Never => WindowOf(expiry[w]) > w

\* Who has counted itself in this minute holds a number the counter has reached,
CountReached ==
  \A r \in Requests :
    request[r].got > 0 /\ InTime(r) /\ request[r].window = WindowOf(now)
      => request[r].got <= count[request[r].window]

\* and one of its own.
CountsDiffer ==
  \A r, s \in Requests :
    /\ r # s /\ request[r].window = request[s].window
    /\ request[r].got > 0 /\ request[s].got > 0
    /\ InTime(r) /\ InTime(s)
    => request[r].got # request[s].got

\* Replies are by that number.
RepliedAsCounted ==
  \A r \in Requests :
    /\ request[r].pc \in {"expire", "reply", "admitted", "rejected"} => request[r].got > 0
    /\ request[r].pc = "admitted" => request[r].got <= Limit
    /\ request[r].pc = "rejected" => request[r].got > Limit
    /\ request[r].pc = "new" => request[r].got = 0

LimitInv ==
  TypeOK /\ MinutesBegun /\ KeysOutlive /\ CountReached /\ CountsDiffer /\ RepliedAsCounted

LEMMA LimitInit == Init => LimitInv
<1> SUFFICES ASSUME Init PROVE LimitInv
  OBVIOUS
<1>1. \A r \in Requests : request[r].pc = "new" /\ request[r].got = 0
  BY DEF Init
<1> QED
  BY <1>1, TypeInit DEF Init, LimitInv, MinutesBegun, KeysOutlive, CountReached, CountsDiffer,
     RepliedAsCounted

\* The clock takes keys, but none of the minute it is.
LEMMA TickLimit == LimitInv /\ TypeOK' /\ Tick => LimitInv'
<1> SUFFICES ASSUME LimitInv, TypeOK', Tick PROVE LimitInv'
  OBVIOUS
<1>t. /\ now \in Nat /\ now' = now + 1 /\ now' \in Nat /\ now' <= MaxTime
      /\ request \in [Requests -> Records] /\ UNCHANGED request
      /\ count \in [Windows -> Nat] /\ expiry \in [Windows -> 0 .. Never]
  BY TimeAssumption DEF LimitInv, TypeOK, Records, Tick
<1>k. MaxTime \in Nat /\ Window \in Nat \ {0} /\ Never = MaxTime + Window + 1 /\ Never \in Nat
  BY TimeAssumption DEF Never
<1>1. WindowOf(now) <= WindowOf(now') /\ WindowOf(now) \in Nat /\ WindowOf(now') \in Nat
  BY <1>t, Minutes
<1>2. \A r \in Requests : request[r].window \in Nat
  BY <1>t, WindowsAre DEF Records
<1>3. MinutesBegun'
  BY <1>t, <1>1, <1>2 DEF LimitInv, MinutesBegun
<1>4. KeysOutlive'
  BY <1>t, <1>k DEF LimitInv, KeysOutlive, Tick
<1>5. ASSUME NEW w \in Windows, expiry[w] <= now + 1 PROVE w < WindowOf(now')
  <2>1. expiry[w] \in Nat /\ expiry[w] # Never /\ w \in Nat
    BY <1>t, <1>k, <1>5, WindowsAre
  <2>2. WindowOf(expiry[w]) > w /\ WindowOf(expiry[w]) <= WindowOf(now') /\ WindowOf(expiry[w]) \in Nat
    BY <1>t, <1>5, <2>1, Minutes DEF LimitInv, KeysOutlive
  <2> QED
    BY <1>1, <2>1, <2>2
<1>6. CountReached'
  <2> SUFFICES ASSUME NEW r \in Requests, request[r].got > 0, InTime(r),
                      request[r].window = WindowOf(now')
               PROVE  request[r].got <= count'[request[r].window]
    BY <1>t DEF CountReached, InTime
  <2>1. request[r].window = WindowOf(now)
    <3>1. request[r].pc # "new"
      BY DEF LimitInv, RepliedAsCounted
    <3> QED
      BY <1>1, <1>2, <3>1 DEF LimitInv, MinutesBegun
  <2>2. request[r].window \in Windows /\ count'[request[r].window] = count[request[r].window]
    <3>1. request[r].window \in Windows
      BY <1>t DEF Records
    <3>2. ~(expiry[request[r].window] <= now + 1)
      BY <1>1, <1>2, <1>5, <3>1
    <3> QED
      BY <3>1, <3>2 DEF Tick
  <2> QED
    BY <2>1, <2>2 DEF LimitInv, CountReached
<1> QED
  BY <1>t, <1>3, <1>4, <1>6 DEF LimitInv, CountsDiffer, RepliedAsCounted, InTime

\* A request that counts itself before its minute is over gets a number that
\* nobody else has.
LEMMA IncrLimit ==
  ASSUME LimitInv, TypeOK', NEW r \in Requests, Incr(r)
  PROVE  LimitInv'
<1> DEFINE w == request[r].window
<1>t. /\ now \in Nat /\ request \in [Requests -> Records] /\ count \in [Windows -> Nat]
      /\ w \in Windows /\ count[w] \in Nat
  BY DEF LimitInv, TypeOK, Records
<1>1. /\ request' = [request EXCEPT ![r].pc = "expire", ![r].got = count[w] + 1, ![r].at = now]
      /\ count' = [count EXCEPT ![w] = @ + 1]
      /\ request[r].pc = "incr" /\ UNCHANGED <<now, expiry>>
  BY DEF Incr
<1>2. /\ request'[r].pc = "expire" /\ request'[r].got = count[w] + 1 /\ request'[r].at = now
      /\ request'[r].window = w
      /\ \A s \in Requests \ {r} : request'[s] = request[s]
      /\ count'[w] = count[w] + 1 /\ \A x \in Windows \ {w} : count'[x] = count[x]
  BY <1>t, <1>1 DEF Records
<1>3. InTime(r)' => w = WindowOf(now)
  BY <1>1, <1>2 DEF InTime
<1>4. ASSUME NEW s \in Requests \ {r}, request[s].window = w, request[s].got > 0, InTime(s),
             w = WindowOf(now)
      PROVE  request[s].got < request'[r].got
  <2>1. request[s].got <= count[w]
    BY <1>4 DEF LimitInv, CountReached
  <2>2. request[s].got \in Nat
    BY <1>t DEF Records
  <2> QED
    BY <1>t, <1>2, <2>1, <2>2
<1>5. CountReached'
  <2> SUFFICES ASSUME NEW s \in Requests, request'[s].got > 0, InTime(s)',
                      request'[s].window = WindowOf(now)
               PROVE  request'[s].got <= count'[request'[s].window]
    BY <1>1 DEF CountReached
  <2>1. CASE s = r
    BY <1>t, <1>2, <2>1
  <2>2. CASE s # r
    <3>1. /\ request'[s] = request[s] /\ request[s].window \in Windows /\ InTime(s)
          /\ request[s].got \in Nat
      BY <1>t, <1>2, <2>2 DEF Records, InTime
    <3>2. request[s].got <= count[request[s].window]
      BY <3>1 DEF LimitInv, CountReached
    <3>3. count[request[s].window] \in Nat /\ count[request[s].window] <= count'[request[s].window]
      BY <1>t, <1>2, <3>1
    <3> QED
      BY <1>t, <1>2, <3>1, <3>2, <3>3
  <2> QED
    BY <2>1, <2>2
<1>6. CountsDiffer'
  <2> SUFFICES ASSUME NEW p \in Requests, NEW q \in Requests, p # q,
                      request'[p].window = request'[q].window,
                      request'[p].got > 0, request'[q].got > 0, InTime(p)', InTime(q)'
               PROVE  request'[p].got # request'[q].got
    BY DEF CountsDiffer
  <2>1. CASE p # r /\ q # r
    BY <1>2, <2>1 DEF LimitInv, CountsDiffer, InTime
  <2>2. CASE p = r
    <3>1. q \in Requests \ {r} /\ request'[q] = request[q] /\ InTime(q) /\ w = WindowOf(now)
      BY <1>2, <1>3, <2>2 DEF InTime
    <3>2. request[q].got < request'[r].got /\ request[q].got \in Nat
      BY <1>t, <1>2, <1>4, <2>2, <3>1 DEF Records
    <3> QED
      BY <1>t, <1>2, <2>2, <3>1, <3>2
  <2>3. CASE q = r
    <3>1. p \in Requests \ {r} /\ request'[p] = request[p] /\ InTime(p) /\ w = WindowOf(now)
      BY <1>2, <1>3, <2>3 DEF InTime
    <3>2. request[p].got < request'[r].got /\ request[p].got \in Nat
      BY <1>t, <1>2, <1>4, <2>3, <3>1 DEF Records
    <3> QED
      BY <1>t, <1>2, <2>3, <3>1, <3>2
  <2> QED
    BY <2>1, <2>2, <2>3
<1>7. MinutesBegun'
  BY <1>1, <1>2 DEF LimitInv, MinutesBegun
<1>8. KeysOutlive'
  BY <1>1 DEF LimitInv, KeysOutlive
<1>9. RepliedAsCounted'
  BY <1>t, <1>2 DEF LimitInv, RepliedAsCounted
<1> QED
  BY <1>5, <1>6, <1>7, <1>8, <1>9 DEF LimitInv

\* The other steps of a request leave its number alone.
LEMMA RequestLimit ==
  ASSUME LimitInv, TypeOK', NEW r \in Requests,
         Arrive(r) \/ Expire(r) \/ Reply(r) \/ Fail(r) \/ Resend(r)
  PROVE  LimitInv'
<1>t. /\ now \in Nat /\ request \in [Requests -> Records] /\ count \in [Windows -> Nat]
      /\ expiry \in [Windows -> 0 .. Never]
  BY DEF LimitInv, TypeOK, Records
<1>1. CASE Arrive(r)
  <2>1. /\ request' = [request EXCEPT ![r] = [@ EXCEPT !.pc = "incr", !.since = now, !.window = WindowOf(now)]]
        /\ request[r].pc = "new" /\ UNCHANGED <<now, count, expiry>>
    BY <1>1 DEF Arrive
  <2>2. /\ request'[r].pc = "incr" /\ request'[r].window = WindowOf(now) /\ request'[r].got = 0
        /\ \A s \in Requests \ {r} : request'[s] = request[s]
    BY <1>t, <2>1 DEF Records, LimitInv, RepliedAsCounted
  <2>3. WindowOf(now) \in Nat
    BY <1>t, Minutes
  <2> QED
    BY <2>1, <2>2, <2>3 DEF LimitInv, MinutesBegun, KeysOutlive, CountReached, CountsDiffer,
                       RepliedAsCounted, InTime
<1>2. ASSUME UNCHANGED <<now, count>>, KeysOutlive',
             \A s \in Requests : /\ request'[s].window = request[s].window
                                 /\ request'[s].got = request[s].got
                                 /\ request'[s].at = request[s].at,
             \A s \in Requests \ {r} : request'[s] = request[s],
             request[r].pc # "new", request'[r].pc # "new",
             request'[r].pc \in {"expire", "reply", "admitted", "rejected"} => request[r].got > 0,
             request'[r].pc = "admitted" => request[r].got <= Limit,
             request'[r].pc = "rejected" => request[r].got > Limit
      PROVE  LimitInv'
  <2>1. MinutesBegun'
    BY <1>2 DEF LimitInv, MinutesBegun
  <2>2. CountReached' /\ CountsDiffer'
    BY <1>2 DEF LimitInv, CountReached, CountsDiffer, InTime
  <2>3. RepliedAsCounted'
    BY <1>2 DEF LimitInv, RepliedAsCounted
  <2> QED
    BY <1>2, <2>1, <2>2, <2>3 DEF LimitInv
<1>3. CASE Expire(r)
  <2>1. /\ request' = [request EXCEPT ![r].pc = "reply"] /\ UNCHANGED <<now, count>>
        /\ request[r].pc = "expire"
        /\ expiry' = expiry \/ expiry' = [expiry EXCEPT ![request[r].window] = now + Life]
    BY <1>3 DEF Expire
  <2>2. KeysOutlive'
    <3>1. request[r].window \in Windows /\ request[r].window \in Nat
          /\ request[r].window <= WindowOf(now) /\ WindowOf(now) \in Nat
          /\ WindowOf(now + Life) = WindowOf(now) + 1
      BY <1>t, <2>1, Minutes, WindowsAre DEF Records, LimitInv, MinutesBegun, Life
    <3>2. WindowOf(now + Life) > request[r].window
      BY <3>1
    <3> QED
      BY <1>t, <2>1, <3>1, <3>2 DEF LimitInv, KeysOutlive, WindowOf
  <2> QED
    BY <1>t, <1>2, <2>1, <2>2 DEF Records, LimitInv, RepliedAsCounted
<1>4. CASE Reply(r) \/ Fail(r)
  <2>1. /\ UNCHANGED <<now, count, expiry>>
        /\ \E pc \in {"admitted", "rejected", "unlimited"} :
             /\ request' = [request EXCEPT ![r].pc = pc]
             /\ pc \in {"admitted", "rejected"} =>
                  request[r].pc = "reply" /\ (pc = "rejected" <=> request[r].got > Limit)
        /\ request[r].pc \in Calling
    BY <1>4 DEF Reply, Fail, OverLimit, Calling
  <2>2. request[r].got \in Nat /\ Limit \in Nat /\ (request[r].pc = "reply" => request[r].got > 0)
    BY <1>t, LimitAssumption DEF Records, LimitInv, RepliedAsCounted
  <2>3. KeysOutlive'
    BY <2>1 DEF LimitInv, KeysOutlive
  <2> QED
    BY <1>t, <1>2, <2>1, <2>2, <2>3 DEF Records, Calling
<1>5. CASE Resend(r)
  <2>1. /\ request' = [request EXCEPT ![r].pc = "incr", ![r].resends = @ + 1]
        /\ UNCHANGED <<now, count, expiry>> /\ request[r].pc \in Calling
    BY <1>5 DEF Resend
  <2>2. KeysOutlive'
    BY <2>1 DEF LimitInv, KeysOutlive
  <2> QED
    BY <1>t, <1>2, <2>1, <2>2 DEF Records, Calling
<1> QED
  BY <1>1, <1>3, <1>4, <1>5

LEMMA LimitNext == LimitInv /\ [Next]_vars => LimitInv'
<1> SUFFICES ASSUME LimitInv, [Next]_vars PROVE LimitInv'
  OBVIOUS
<1>1. TypeOK'
  BY TypeNext DEF LimitInv
<1>2. CASE UNCHANGED vars
  BY <1>1, <1>2 DEF vars, LimitInv, MinutesBegun, KeysOutlive, CountReached, CountsDiffer,
                    RepliedAsCounted, InTime
<1> QED
  BY <1>1, <1>2, TickLimit, IncrLimit, RequestLimit DEF Next

\* Different numbers from 1 to the limit: no more requests than that.
LEMMA NumbersAreFew ==
  ASSUME LimitInv, NEW w \in Windows
  PROVE  Cardinality({r \in Admitted(w) : InTime(r)}) <= Limit
<1> DEFINE A == {r \in Admitted(w) : InTime(r)}
           f == [r \in A |-> request[r].got]
<1>1. \A r \in A : /\ r \in Requests /\ request[r].window = w /\ InTime(r)
                   /\ request[r].got \in Nat /\ request[r].got > 0 /\ request[r].got <= Limit
  BY DEF Admitted, LimitInv, RepliedAsCounted, TypeOK
<1>2. f \in Injection(A, 1 .. Limit)
  <2>1. f \in [A -> 1 .. Limit]
    BY <1>1, LimitAssumption
  <2>2. \A r, s \in A : f[r] = f[s] => r = s
    BY <1>1 DEF LimitInv, CountsDiffer
  <2> QED
    BY <2>1, <2>2 DEF Injection, IsInjective
<1> HIDE DEF A, f
<1>3. IsFiniteSet(1 .. Limit) /\ Cardinality(1 .. Limit) = Limit
  BY LimitAssumption, FS_Interval
<1>4. Cardinality(A) <= Limit
  BY <1>2, <1>3, FS_Injection
<1> QED
  BY <1>4 DEF A

\* Of the requests that are counted before their minute is over no more are
\* admitted than the limit, however calls interleave, fail and are sent again.
THEOREM LimitIsKept == Spec => []LimitHolds
<1>1. LimitInv => LimitHolds
  BY NumbersAreFew DEF LimitHolds
<1> QED
  BY LimitInit, LimitNext, <1>1, PTL DEF Spec

-----------------------------------------------------------------------------
(* Rejections have a cause *)

\* The increments of a minute that may have executed.
Executed(w) ==
  {x \in Requests \X (0 .. Resends) :
     /\ request[x[1]].window = w /\ request[x[1]].got > 0
     /\ x[2] <= request[x[1]].resends
     /\ request[x[1]].pc = "incr" => x[2] < request[x[1]].resends}

Accounted ==
  /\ \A w \in Windows : count[w] <= Cardinality(Executed(w))
  /\ \A r \in Requests :
       request[r].got > 0 => request[r].got <= Cardinality(Executed(request[r].window))

CauseInv == LimitInv /\ Accounted

LEMMA IncrementsFinite == IsFiniteSet(Requests \X (0 .. Resends))
<1>1. IsFiniteSet(0 .. Resends)
  BY LimitAssumption, FS_Interval
<1> QED
  BY <1>1, RequestsAssumption, FS_Product

LEMMA ExecutedFinite ==
  ASSUME NEW w
  PROVE  /\ IsFiniteSet(Executed(w)) /\ Cardinality(Executed(w)) \in Nat
         /\ IsFiniteSet(Executed(w)') /\ Cardinality(Executed(w)') \in Nat
<1>1. Executed(w) \in SUBSET (Requests \X (0 .. Resends)) /\ Executed(w)' \in SUBSET (Requests \X (0 .. Resends))
  BY DEF Executed
<1>2. IsFiniteSet(Executed(w)) /\ IsFiniteSet(Executed(w)')
  BY <1>1, IncrementsFinite, FS_Subset
<1> QED
  BY <1>2, FS_CardinalityType

LEMMA CauseInit == Init => Accounted
<1> SUFFICES ASSUME Init PROVE Accounted
  OBVIOUS
<1>1. \A w \in Windows : count[w] = 0 /\ Cardinality(Executed(w)) \in Nat
  BY ExecutedFinite DEF Init
<1>2. \A r \in Requests : request[r].got = 0
  BY DEF Init
<1> QED
  BY <1>1, <1>2 DEF Accounted

\* What has executed has executed, and an increment adds one.
LEMMA ExecutedGrows ==
  ASSUME LimitInv, LimitInv', [Next]_vars, NEW w \in Windows
  PROVE  Executed(w) \subseteq Executed(w)'
<1>t. request \in [Requests -> Records] /\ request' \in [Requests -> Records]
  BY DEF LimitInv, TypeOK, Records
<1>1. CASE UNCHANGED request
  BY <1>1 DEF Executed
<1>2. ASSUME NEW r \in Requests,
             Arrive(r) \/ Incr(r) \/ Expire(r) \/ Reply(r) \/ Fail(r) \/ Resend(r)
      PROVE  Executed(w) \subseteq Executed(w)'
  <2>1. \A s \in Requests \ {r} : request'[s] = request[s]
    BY <1>t, <1>2 DEF Arrive, Incr, Expire, Reply, Fail, Resend
  <2>2. /\ request[r].got > 0 => request'[r].got > 0 /\ request'[r].window = request[r].window
        /\ \/ request'[r].resends = request[r].resends /\ request'[r].pc # "incr"
           \/ request'[r].resends = request[r].resends /\ request[r].pc = "new"
           \/ request'[r].resends = request[r].resends + 1
    <3>1. CASE Arrive(r)
      BY <1>t, <3>1 DEF Arrive, Records, LimitInv, RepliedAsCounted
    <3>2. CASE Incr(r)
      <4>1. count[request[r].window] \in Nat
        BY <1>t DEF LimitInv, TypeOK, Records
      <4> QED
        BY <1>t, <3>2, <4>1 DEF Incr, Records
    <3>3. CASE Expire(r) \/ Reply(r) \/ Fail(r)
      <4>1. \E pc \in {"reply", "admitted", "rejected", "unlimited"} : request' = [request EXCEPT ![r].pc = pc]
        BY <3>3 DEF Expire, Reply, Fail
      <4> QED
        BY <1>t, <4>1 DEF Records
    <3>4. CASE Resend(r)
      BY <1>t, <3>4 DEF Resend, Records
    <3> QED
      BY <1>2, <3>1, <3>2, <3>3, <3>4
  <2>3. request[r].pc = "new" => request[r].got = 0
    BY DEF LimitInv, RepliedAsCounted
  <2>4. ASSUME NEW x \in Executed(w) PROVE x \in Executed(w)'
    <3>1. /\ x \in Requests \X (0 .. Resends) /\ x[1] \in Requests /\ x[2] \in 0 .. Resends
          /\ request[x[1]].window = w /\ request[x[1]].got > 0
          /\ x[2] <= request[x[1]].resends
          /\ request[x[1]].pc = "incr" => x[2] < request[x[1]].resends
      BY <2>4 DEF Executed
    <3>2. CASE x[1] # r
      BY <2>1, <3>1, <3>2 DEF Executed
    <3>3. CASE x[1] = r
      <4>1. request[r].resends \in Nat /\ request[r].got \in Nat
        BY <1>t, LimitAssumption DEF Records
      <4> QED
        BY <2>2, <2>3, <3>1, <3>3, <4>1, LimitAssumption DEF Executed
    <3> QED
      BY <3>2, <3>3
  <2> QED
    BY <2>4
<1> QED
  BY <1>1, <1>2 DEF Next, Tick, vars

LEMMA CauseNext == CauseInv /\ [Next]_vars => CauseInv'
<1> SUFFICES ASSUME CauseInv, [Next]_vars PROVE CauseInv'
  OBVIOUS
<1>1. LimitInv /\ LimitInv' /\ Accounted
  BY LimitNext DEF CauseInv
<1>t. /\ request \in [Requests -> Records] /\ request' \in [Requests -> Records]
      /\ count \in [Windows -> Nat] /\ count' \in [Windows -> Nat]
  BY <1>1 DEF LimitInv, TypeOK, Records
<1>2. ASSUME NEW w \in Windows
      PROVE  /\ Cardinality(Executed(w)) <= Cardinality(Executed(w)')
             /\ Cardinality(Executed(w)) \in Nat /\ Cardinality(Executed(w)') \in Nat
  <2>1. Executed(w) \in SUBSET Executed(w)'
    BY <1>1, ExecutedGrows
  <2> QED
    BY <2>1, ExecutedFinite, FS_Subset
<1>3. CASE \E r \in Requests : Incr(r)
  <2>1. PICK r \in Requests : Incr(r)
    BY <1>3
  <2>2. PICK w \in Windows : w = request[r].window
    BY <1>t DEF Records
  <2>3. /\ request[r].pc = "incr" /\ request'[r].pc = "expire" /\ request'[r].got = count[w] + 1
        /\ request'[r].window = w /\ request'[r].resends = request[r].resends
        /\ \A s \in Requests \ {r} : request'[s] = request[s]
        /\ count'[w] = count[w] + 1 /\ \A v \in Windows \ {w} : count'[v] = count[v]
    BY <1>t, <2>1, <2>2 DEF Incr, Records
  <2>4. PICK k \in 0 .. Resends : k = request[r].resends
    BY <1>t DEF Records
  <2>5. <<r, k>> \in Executed(w)' /\ <<r, k>> \notin Executed(w)
    BY <1>t, <2>3, <2>4, LimitAssumption DEF Executed
  <2>6. Cardinality(Executed(w)) + 1 <= Cardinality(Executed(w)')
    <3>1. Executed(w) \cup {<<r, k>>} \in SUBSET Executed(w)'
      BY <1>1, <2>5, ExecutedGrows
    <3>2. Cardinality(Executed(w) \cup {<<r, k>>}) <= Cardinality(Executed(w)')
      BY <3>1, ExecutedFinite, FS_Subset
    <3>3. Cardinality(Executed(w) \cup {<<r, k>>}) = Cardinality(Executed(w)) + 1
      BY <2>5, ExecutedFinite, FS_AddElement
    <3> QED
      BY <3>2, <3>3
  <2>7. count[w] \in Nat /\ count[w] <= Cardinality(Executed(w))
    BY <1>1, <1>t DEF Accounted
  <2>8. \A v \in Windows : count'[v] <= Cardinality(Executed(v)')
    <3>1. count'[w] <= Cardinality(Executed(w)')
      BY <1>2, <2>3, <2>6, <2>7
    <3>2. \A v \in Windows \ {w} : count'[v] <= Cardinality(Executed(v)')
      BY <1>1, <1>2, <1>t, <2>3 DEF Accounted
    <3> QED
      BY <3>1, <3>2
  <2>9. ASSUME NEW s \in Requests, NEW v \in Windows, v = request'[s].window, request'[s].got > 0
        PROVE  request'[s].got <= Cardinality(Executed(v)')
    <3>1. CASE s = r
      BY <1>2, <2>3, <2>6, <2>7, <2>9, <3>1
    <3>2. CASE s # r
      <4>1. request[s].got <= Cardinality(Executed(v)) /\ request[s].got \in Nat
        BY <1>1, <1>t, <2>3, <2>9, <3>2 DEF Accounted, Records
      <4> QED
        BY <1>2, <2>3, <3>2, <4>1
    <3> QED
      BY <3>1, <3>2
  <2>10. \A s \in Requests : request'[s].window \in Windows
    BY <1>t DEF Records
  <2>11. ASSUME NEW s \in Requests, request'[s].got > 0
         PROVE  request'[s].got <= Cardinality(Executed(request[s].window)')
    BY <2>9, <2>10, <2>11
  <2> QED
    BY <1>1, <2>8, <2>11 DEF CauseInv, Accounted
<1>4. CASE ~\E r \in Requests : Incr(r)
  <2>1. \A w \in Windows : count'[w] = count[w] \/ count'[w] = 0
    BY <1>t, <1>4 DEF Next, vars, Tick, Arrive, Expire, Reply, Fail, Resend
  <2>2. \A w \in Windows : count'[w] <= Cardinality(Executed(w)')
    BY <1>1, <1>2, <1>t, <2>1 DEF Accounted
  <2>3. ASSUME NEW s \in Requests, request'[s].got > 0
        PROVE  request'[s].got = request[s].got /\ request'[s].window = request[s].window
    <3>1. CASE UNCHANGED request
      BY <3>1
    <3>2. ASSUME NEW r \in Requests, Arrive(r) PROVE r # s /\ request'[s] = request[s]
      BY <1>1, <1>t, <2>3, <3>2 DEF Arrive, Records, LimitInv, RepliedAsCounted
    <3>3. ASSUME NEW r \in Requests, Expire(r) \/ Reply(r) \/ Fail(r)
          PROVE  request'[s].got = request[s].got /\ request'[s].window = request[s].window
      <4>1. \E pc : request' = [request EXCEPT ![r].pc = pc]
        BY <3>3 DEF Expire, Reply, Fail
      <4> QED
        BY <1>t, <4>1 DEF Records
    <3>4. ASSUME NEW r \in Requests, Resend(r)
          PROVE  request'[s].got = request[s].got /\ request'[s].window = request[s].window
      BY <1>t, <3>4 DEF Resend, Records
    <3> QED
      BY <1>4, <3>1, <3>2, <3>3, <3>4 DEF Next, Tick, vars
  <2>4. ASSUME NEW s \in Requests, NEW v \in Windows, v = request'[s].window, request'[s].got > 0
        PROVE  request'[s].got <= Cardinality(Executed(v)')
    <3>1. request[s].got <= Cardinality(Executed(v)) /\ request[s].got \in Nat
      BY <1>1, <1>t, <2>3, <2>4 DEF Accounted, Records
    <3> QED
      BY <1>2, <2>3, <2>4, <3>1
  <2>5. \A s \in Requests : request'[s].window \in Windows
    BY <1>t DEF Records
  <2>6. ASSUME NEW s \in Requests, request'[s].got > 0
         PROVE  request'[s].got <= Cardinality(Executed(request[s].window)')
    BY <2>4, <2>5, <2>6
  <2> QED
    BY <1>1, <2>2, <2>6 DEF CauseInv, Accounted
<1> QED
  BY <1>3, <1>4

\* Nobody is rejected but for more increments of its own minute than the limit.
THEOREM RejectionsHaveCause == Spec => []RejectedForCause
<1>1. CauseInv => RejectedForCause
  <2> SUFFICES ASSUME CauseInv, NEW r \in Requests, request[r].pc = "rejected"
               PROVE  Cardinality(Sent(request[r].window)) > Limit
    BY DEF RejectedForCause
  <2> DEFINE w == request[r].window
  <2>1. request[r].got \in Nat /\ request[r].got > Limit /\ request[r].got > 0
    BY DEF CauseInv, LimitInv, RepliedAsCounted, TypeOK
  <2>2. request[r].got <= Cardinality(Executed(w))
    BY <2>1 DEF CauseInv, Accounted
  <2>3. Executed(w) \in SUBSET Sent(w)
    BY DEF Executed, Sent, Counted
  <2>4. IsFiniteSet(Sent(w))
    <3>1. Sent(w) \in SUBSET (Requests \X (0 .. Resends))
      BY DEF Sent, Counted
    <3> QED
      BY <3>1, IncrementsFinite, FS_Subset
  <2>5. Cardinality(Executed(w)) <= Cardinality(Sent(w))
    BY <2>3, <2>4, FS_Subset
  <2>6. Cardinality(Executed(w)) \in Nat /\ Cardinality(Sent(w)) \in Nat
    BY <2>4, ExecutedFinite, FS_CardinalityType
  <2> QED
    BY <2>1, <2>2, <2>5, <2>6, LimitAssumption
<1>2. Init => CauseInv
  BY LimitInit, CauseInit DEF CauseInv
<1> QED
  BY <1>1, <1>2, CauseNext, PTL DEF Spec
=============================================================================

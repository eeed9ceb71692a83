----------------------------- MODULE RateLimiter ------------------------------
(***************************************************************************)
(* The rate limit guard of the API and its Redis limiter.                  *)
(*                                                                         *)
(* An API task reads its own clock and sends the reading to Redis, where a *)
(* script runs atomically some time later.  So the script sees timestamps  *)
(* that are late, or early where the task's clock is fast, and not in      *)
(* order.  Redis drops a key in its own time.                              *)
(*                                                                         *)
(* Redis keeps what it was told: its restarts and evictions are left out.  *)
(* Calls for /health and /metrics are not counted and are no calls here.   *)
(***************************************************************************)
EXTENDS Integers, Folds

CONSTANTS
    Clients,      \* rate limit keys: client addresses
    Calls,        \* requests that can be with the limiter at once
    Window,       \* RATE_LIMIT_WINDOW_MS, in ticks
    MaxRequests,  \* RATE_LIMIT_MAX
    MaxDelay,     \* ticks a timestamp takes to the script, at most
    MaxSkew,      \* ticks the clock of a task is fast, at most
    MaxResends,   \* maxRetriesPerRequest of the Redis client
    MaxTime,      \* bound: the clock stops here
    NoBucket

ASSUME LimiterAssumption ==
    /\ Window \in Nat \ {0} /\ MaxRequests \in Nat \ {0}
    /\ MaxDelay \in Nat /\ MaxSkew \in Nat /\ MaxResends \in Nat /\ MaxTime \in Nat

\* What Redis keeps under a rate limit key.
Bucket == [start: Nat, count: 1..MaxRequests, expires: Nat]

ASSUME NoBucketIsNoRecord == NoBucket \notin Bucket

VARIABLES
    now,       \* true time, which is also the clock of Redis
    ready,     \* the connection to Redis the guard waits for
    bucket,    \* Redis: [Clients -> window or NoBucket]
    asking,    \* calls on their way to the script: [Calls -> call or NoCall]
    counted    \* history: how many calls of a client the script counted at a time

limiterVars == <<now, ready, bucket, asking, counted>>

NoCall == [client |-> NoBucket, stamp |-> 0, sent |-> 0, resent |-> 0]

-----------------------------------------------------------------------------
\* CONSUME_SCRIPT

\* The window is held to be over only when the key has expired.
IsOver_KeyOnly(c, stamp) == bucket[c] = NoBucket

\* There is no window, or it is over.
IsOver(c, stamp) ==
    bucket[c] = NoBucket \/ stamp - bucket[c].start >= Window

windowStart(c, stamp) == IF IsOver(c, stamp) THEN stamp ELSE bucket[c].start

nextCount(c, stamp) == 1 + IF IsOver(c, stamp) THEN 0 ELSE bucket[c].count

Fits_OneMore(c, stamp) == nextCount(c, stamp) <= MaxRequests + 1

Fits(c, stamp) == nextCount(c, stamp) <= MaxRequests

Answered(x) == asking' = [asking EXCEPT ![x] = NoCall]

\* The script runs and finds room: the call is counted.
Count(x) ==
    LET c == asking[x].client  stamp == asking[x].stamp IN
    /\ asking[x] # NoCall /\ Fits(c, stamp)
    /\ bucket' = [bucket EXCEPT ![c] = [start   |-> windowStart(c, stamp),
                                        count   |-> nextCount(c, stamp),
                                        expires |-> now + Window]]
    /\ counted' = [counted EXCEPT ![c][now] = @ + 1]
    /\ UNCHANGED <<now, ready>>

Admit(x) == Count(x) /\ Answered(x)

\* A refused call leaves the window as it is: it does not count.
Refuse(x) ==
    LET c == asking[x].client  stamp == asking[x].stamp IN
    /\ asking[x] # NoCall /\ ~Fits(c, stamp)
    /\ Answered(x)
    /\ UNCHANGED <<now, ready, bucket, counted>>

-----------------------------------------------------------------------------
\* RateLimitGuard

\* The guard is constructed with a connection attempt, made once; it awaits that
\* attempt before every call, and a call it rejects is an error for ever.
Connect(outcome) ==
    /\ ready = "pending"
    /\ ready' = outcome
    /\ UNCHANGED <<now, bucket, asking, counted>>

\* canActivate and RedisRateLimiter.consume up to the call of the script.
canActivateLimited(x, c, skew) ==
    /\ ready = "connected" /\ asking[x] = NoCall
    /\ asking' = [asking EXCEPT ![x] = [client |-> c, stamp |-> now + skew, sent |-> now,
                                        resent |-> 0]]
    /\ UNCHANGED <<now, ready, bucket, counted>>

\* The connection is lost: the Redis client sends the same call again, or gives up
\* and the caller gets an error and is not let through.
ResentOrFails(x) ==
    \/ asking[x].resent < MaxResends /\ asking' = [asking EXCEPT ![x].resent = @ + 1]
    \/ Answered(x)

\* Before the script ran, or after it refused.
ConsumeFails(x) ==
    /\ asking[x] # NoCall
    /\ ResentOrFails(x)
    /\ UNCHANGED <<now, ready, bucket, counted>>

\* After the script counted the call.
ReplyLost(x) == Count(x) /\ ResentOrFails(x)

-----------------------------------------------------------------------------
\* Time passes, but not while a call is overdue; Redis drops expired keys.
Tick ==
    /\ now < MaxTime
    /\ \A x \in Calls : asking[x] # NoCall => now < asking[x].sent + MaxDelay
    /\ now' = now + 1
    /\ bucket' = [c \in Clients |->
                    IF bucket[c] # NoBucket /\ bucket[c].expires < now' THEN NoBucket
                    ELSE bucket[c]]
    /\ UNCHANGED <<ready, asking, counted>>

LimiterInit ==
    /\ now = 0 /\ ready = "pending"
    /\ bucket = [c \in Clients |-> NoBucket]
    /\ asking = [x \in Calls |-> NoCall]
    /\ counted = [c \in Clients |-> [t \in 0..MaxTime |-> 0]]

LimiterNext ==
    \/ \E outcome \in {"connected", "failed"} : Connect(outcome)
    \/ \E x \in Calls :
         \/ \E c \in Clients, skew \in 0..MaxSkew : canActivateLimited(x, c, skew)
         \/ Admit(x)
         \/ Refuse(x)
         \/ ConsumeFails(x)
         \/ ReplyLost(x)
    \/ Tick

LimiterSpec == LimiterInit /\ [][LimiterNext]_limiterVars

-----------------------------------------------------------------------------
\* Properties.

\* Buckets, calls and the history have their types; no bucket holds more than the
\* limit.
LimiterTypeOK ==
    /\ now \in 0..MaxTime /\ ready \in {"pending", "connected", "failed"}
    /\ bucket \in [Clients -> {NoBucket} \cup Bucket]
    /\ asking \in [Calls -> [client: Clients \cup {NoBucket}, stamp: Nat, sent: 0..MaxTime,
                               resent: 0..MaxResends]]
    /\ counted \in [Clients -> [0..MaxTime -> Nat]]

Slack == MaxDelay + MaxSkew

SumOver(f, T) ==
    MapThenFoldSet(+, 0, LAMBDA t : f[t], LAMBDA S : CHOOSE t \in S : TRUE, T)

\* How many calls of c were counted from time `from` to time `to`: those that were let
\* through, and those whose reply was lost.
CountedBetween(c, from, to) ==
    SumOver(counted[c], {t \in 0..MaxTime : from <= t /\ t <= to})

\* A burst across the edge of a window is bounded: however late, early or out of
\* order timestamps arrive, two windows' worth of calls is the most that is counted,
\* and so let through, between two moments that are a window less the slack apart.
BurstsAreBounded ==
    \A c \in Clients, t \in 0..MaxTime :
        CountedBetween(c, t, t + Window - Slack) <= 2 * MaxRequests

\* Nobody is locked out: a client is refused only if its calls were counted the full
\* number of times within the last window and slack, so one that keeps asking and
\* being refused is let through again.  (A call that lost its reply is counted, once
\* for each time it was sent, though the client had nothing of it.)
RefusedOnlyWhenSpent ==
    [][\A x \in Calls : Refuse(x) =>
          CountedBetween(asking[x].client, now - Window - Slack + 1, now) >= MaxRequests
      ]_limiterVars

=============================================================================

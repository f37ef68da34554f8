----------------------------- MODULE RateLimiter -----------------------------
(***************************************************************************)
(* The sliding windows of backend/rate_limit/limiter.py, shared by the      *)
(* threads of the request handlers.  A thread reads the clock before it     *)
(* takes the counter's lock, so hits enter a bucket in the order of the     *)
(* lock and not of their times.  Time is in ticks.                          *)
(***************************************************************************)
EXTENDS Integers, FiniteSets, Sequences

CONSTANTS
  Keys,           \* "analyst:<id>" and "org:<id>"
  Limit,          \* [Keys -> the hits allowed in a window]
  Window,         \* window_seconds, in ticks
  TicksPerSecond,
  LockDelay,      \* ticks a thread may wait between the clock and the lock
  Threads,
  Requests,       \* the sequences of keys a request hits
  MaxClock        \* bound on the clock

VARIABLES
  clock,   \* time.monotonic()
  hits,    \* every recorded hit: key, time and the tick it got the lock
  bucket,  \* _hits: [Keys -> deque of hits, as indices of hits]
  calls    \* [Threads -> the state of the thread's request]

limiterVars == <<clock, hits, bucket, calls>>

ASSUME LimiterAssumption ==
  /\ Limit \in [Keys -> Nat \ {0}]
  /\ Window \in Nat \ {0}
  /\ TicksPerSecond \in Nat \ {0}
  /\ LockDelay \in Nat
  /\ MaxClock \in Nat
  /\ Requests \subseteq Seq(Keys) \ {<< >>}

Hits == [key : Keys, at : Nat, locked : Nat]

(* pc: "idle", "waiting" for the lock of the first key of todo with the     *)
(* time now, or "refused", to try again at retry_at; seen is the number of  *)
(* hits recorded when it was refused.                                       *)
Calls == [pc : {"idle", "waiting", "refused"}, todo : Seq(Keys), now : Nat,
          retry_at : Nat, seen : Nat]

Resting == [pc |-> "idle", todo |-> << >>, now |-> 0, retry_at |-> 0, seen |-> 0]

(* Mutant: the thread keeps the cutoff and not the time.                    *)
WaitingWithCutoff(keys) ==
  [Resting EXCEPT !.pc = "waiting", !.todo = keys, !.now = clock - Window]

Waiting(keys) == [Resting EXCEPT !.pc = "waiting", !.todo = keys, !.now = clock]

LimiterTypeOK ==
  /\ clock \in Nat
  /\ hits \in Seq(Hits)
  /\ bucket \in [Keys -> Seq(Nat)]
  /\ calls \in [Threads -> Calls]

LimiterInit ==
  /\ clock = 0
  /\ hits = << >>
  /\ bucket = [k \in Keys |-> << >>]
  /\ calls = [t \in Threads |-> Resting]

(* A submission hits its analyst's window and then its organisation's, a    *)
(* read its analyst's.                                                      *)
Call(t, keys) ==
  /\ calls[t].pc # "waiting"
  /\ calls' = [calls EXCEPT ![t] = Waiting(keys)]
  /\ UNCHANGED <<clock, hits, bucket>>

(* Mutant: a hit leaves the window at its very end.                         *)
OldAtTheEnd(i, now) == hits[i].at <= now - Window

Old(i, now) == hits[i].at < now - Window

(* The while loop of hit leaves the bucket from its k-th hit on.            *)
EvictsTo(b, k, now) ==
  /\ \A i \in 1..(k - 1) : Old(b[i], now)
  /\ k <= Len(b) => ~Old(b[k], now)

(* Mutant: the seconds are rounded down.                                    *)
RetryAfterRoundedDown(oldest, now) ==
  TicksPerSecond * ((Window - (now - oldest)) \div TicksPerSecond)

(* window_seconds - (now - bucket[0]), in the Retry-After header as whole   *)
(* seconds plus one.                                                        *)
RetryAfter(oldest, now) ==
  TicksPerSecond * ((Window - (now - oldest)) \div TicksPerSecond + 1)

(* What hit does under the lock; the next window's hit reads the clock anew.*)
(* A refusal by the second window leaves the first one's hit recorded.      *)
Hit(t) ==
  LET key == Head(calls[t].todo)
      now == calls[t].now
      b   == bucket[key]
  IN
  /\ calls[t].pc = "waiting"
  /\ \E k \in 1..(Len(b) + 1) :
       LET rest == SubSeq(b, k, Len(b)) IN
       /\ EvictsTo(b, k, now)
       /\ IF Len(rest) >= Limit[key]
          THEN /\ bucket' = [bucket EXCEPT ![key] = rest]
               /\ calls' = [calls EXCEPT ![t].pc = "refused", ![t].seen = Len(hits),
                              ![t].retry_at = clock + RetryAfter(hits[rest[1]].at, now)]
               /\ UNCHANGED hits
          ELSE /\ hits' = Append(hits, [key |-> key, at |-> now, locked |-> clock])
               /\ bucket' = [bucket EXCEPT ![key] = Append(rest, Len(hits) + 1)]
               /\ calls' = [calls EXCEPT ![t] = IF Len(calls[t].todo) = 1 THEN Resting
                                                ELSE Waiting(Tail(calls[t].todo))]
  /\ UNCHANGED clock

Tick ==
  /\ clock < MaxClock
  /\ \A t \in Threads : calls[t].pc = "waiting" => clock < calls[t].now + LockDelay
  /\ clock' = clock + 1
  /\ UNCHANGED <<hits, bucket, calls>>

LimiterNext ==
  \/ \E t \in Threads, keys \in Requests : Call(t, keys)
  \/ \E t \in Threads : Hit(t)
  \/ Tick

LimiterSpec == LimiterInit /\ [][LimiterNext]_limiterVars

-------------------------------------------------------------------------------
(* Properties *)

(* The hits of a key satisfying a condition on their index.                 *)
HitsOf(key) == {i \in DOMAIN hits : hits[i].key = key}

(***************************************************************************)
(* However hits race for the lock, no more of a key than its limit are      *)
(* admitted within a window, ends included; the wait for the lock is all    *)
(* that the window may lose.                                                *)
(***************************************************************************)
LimitHolds ==
  \A k \in Keys :
    Cardinality({i \in HitsOf(k) : hits[i].locked >= clock - (Window - LockDelay)})
      <= Limit[k]

(***************************************************************************)
(* A refused request met the limit: so many hits, some perhaps of requests  *)
(* that were refused later, lie in the window before its time, stretched by *)
(* the wait for the lock.  And who comes back after Retry-After is not      *)
(* refused again unless a hit was recorded meanwhile.                       *)
(***************************************************************************)
RefusalsAreFair ==
  \A t \in Threads : calls[t].pc = "refused" =>
    LET key == Head(calls[t].todo) IN
    /\ Cardinality({i \in HitsOf(key) : hits[i].at >= calls[t].now - Window - LockDelay})
         >= Limit[key]
    /\ \A s \in Threads \ {t} :
         /\ calls[s].pc = "refused"
         /\ Head(calls[s].todo) = key
         /\ calls[s].seen = calls[t].seen
         => calls[t].now < calls[s].retry_at
===============================================================================

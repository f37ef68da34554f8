------------------------- MODULE RequestHandlingProofs -------------------------
(***************************************************************************)
(* Proofs about RequestHandling.                                            *)
(***************************************************************************)
EXTENDS RequestHandling, TLAPS, FiniteSetTheorems, SequenceTheorems

-------------------------------------------------------------------------------
(* The limiter *)

(* A hit gets the lock no later than LockDelay after its time.              *)
HitsInTime ==
  \A i \in DOMAIN hits :
    /\ hits[i].at <= hits[i].locked
    /\ hits[i].locked <= hits[i].at + LockDelay
    /\ hits[i].locked <= clock

WaitsInTime ==
  \A t \in Threads : calls[t].pc = "waiting" =>
    /\ calls[t].todo # << >>
    /\ calls[t].now <= clock
    /\ clock <= calls[t].now + LockDelay

(* A bucket holds no more than its limit, and of the key's hits all that    *)
(* got the lock within the window less the wait.                            *)
BucketOK(k) ==
  /\ Len(bucket[k]) <= Limit[k]
  /\ \A j \in 1..Len(bucket[k]) : bucket[k][j] \in DOMAIN hits
  /\ \A i \in DOMAIN hits :
       hits[i].key = k /\ hits[i].locked >= clock - (Window - LockDelay)
         => \E j \in 1..Len(bucket[k]) : bucket[k][j] = i

LimiterInv ==
  /\ LimiterTypeOK
  /\ HitsInTime
  /\ WaitsInTime
  /\ \A k \in Keys : BucketOK(k)

LEMMA LimiterInvInit == LimiterInit => LimiterInv
<1> SUFFICES ASSUME LimiterInit PROVE LimiterInv
  OBVIOUS
<1>1. << >> \in Seq(Hits) /\ << >> \in Seq(Nat) /\ << >> \in Seq(Keys)
  OBVIOUS
<1>2. LimiterTypeOK
  BY <1>1 DEF LimiterInit, LimiterTypeOK, Calls, Resting
<1>3. HitsInTime /\ WaitsInTime
  BY DEF LimiterInit, HitsInTime, WaitsInTime, Resting
<1>4. ASSUME NEW k \in Keys PROVE BucketOK(k)
  <2>1. Limit[k] \in Nat /\ bucket[k] = << >> /\ hits = << >>
    BY LimiterAssumption DEF LimiterInit
  <2>2. QED
    BY <2>1 DEF BucketOK
<1>5. QED
  BY <1>2, <1>3, <1>4 DEF LimiterInv

(* What waits has a sequence of keys and the present time.                  *)
LEMMA WaitingType ==
  ASSUME clock \in Nat, NEW keys \in Seq(Keys)
  PROVE  /\ Waiting(keys) \in Calls
         /\ Waiting(keys).pc = "waiting"
         /\ Waiting(keys).todo = keys
         /\ Waiting(keys).now = clock
BY DEF Waiting, Resting, Calls

(* The types of one hit.                                                    *)
LEMMA HitType ==
  ASSUME LimiterInv, NEW i \in DOMAIN hits
  PROVE  /\ hits[i].key \in Keys
         /\ hits[i].at \in Nat
         /\ hits[i].locked \in Nat
<1>1. hits[i] \in Hits
  BY DEF LimiterInv, LimiterTypeOK
<1>2. QED
  BY <1>1 DEF Hits

LEMMA CallKeepsLimiter ==
  ASSUME LimiterInv, NEW t \in Threads, NEW keys \in Requests, Call(t, keys)
  PROVE  LimiterInv'
<1>1. keys \in Seq(Keys) /\ keys # << >>
  BY LimiterAssumption
<1>2. /\ calls' = [calls EXCEPT ![t] = Waiting(keys)]
      /\ UNCHANGED <<clock, hits, bucket>>
      /\ clock \in Nat /\ calls \in [Threads -> Calls]
  BY DEF Call, LimiterInv, LimiterTypeOK
<1>3. LimiterTypeOK'
  BY <1>1, <1>2, WaitingType DEF LimiterInv, LimiterTypeOK
<1>4. WaitsInTime'
  <2>1. clock <= clock + LockDelay
    BY <1>2, LimiterAssumption
  <2>2. QED
    BY <1>1, <1>2, <2>1, WaitingType DEF LimiterInv, WaitsInTime
<1>5. HitsInTime' /\ \A k \in Keys : BucketOK(k)'
  BY <1>2 DEF LimiterInv, HitsInTime, BucketOK
<1>6. QED
  BY <1>3, <1>4, <1>5 DEF LimiterInv

LEMMA TickKeepsLimiter ==
  ASSUME LimiterInv, Tick
  PROVE  LimiterInv'
<1>1. /\ clock \in Nat /\ clock' = clock + 1
      /\ UNCHANGED <<hits, bucket, calls>>
      /\ hits \in Seq(Hits) /\ calls \in [Threads -> Calls]
      /\ Window \in Nat /\ LockDelay \in Nat
  BY LimiterAssumption DEF Tick, LimiterInv, LimiterTypeOK
<1>2. \A i \in DOMAIN hits : hits[i].at \in Nat /\ hits[i].locked \in Nat
  BY HitType
<1>3. LimiterTypeOK' /\ HitsInTime'
  BY <1>1, <1>2 DEF LimiterInv, LimiterTypeOK, HitsInTime
<1>4. WaitsInTime'
  <2>1. \A t \in Threads : calls[t].now \in Nat
    BY <1>1 DEF Calls
  <2>2. \A t \in Threads : calls[t].pc = "waiting" => clock < calls[t].now + LockDelay
    BY DEF Tick
  <2>3. QED
    BY <1>1, <2>1, <2>2 DEF LimiterInv, WaitsInTime
<1>5. ASSUME NEW k \in Keys PROVE BucketOK(k)'
  BY <1>1, <1>2 DEF LimiterInv, BucketOK
<1>6. QED
  BY <1>3, <1>4, <1>5 DEF LimiterInv

(* What the loop of hit leaves of a bucket: hits of the bucket, and all of  *)
(* them that are within the window less the wait.                           *)
LEMMA EvictionKeeps ==
  ASSUME LimiterInv, NEW k \in Keys, NEW n \in 1..(Len(bucket[k]) + 1), NEW now \in Nat,
         EvictsTo(bucket[k], n, now), now <= clock
  PROVE  LET rest == SubSeq(bucket[k], n, Len(bucket[k])) IN
         /\ rest \in Seq(Nat)
         /\ Len(rest) \in Nat
         /\ Len(rest) <= Len(bucket[k])
         /\ \A j \in 1..Len(rest) : rest[j] \in DOMAIN hits
         /\ Len(rest) # 0 => ~Old(rest[1], now)
         /\ \A i \in DOMAIN hits :
              hits[i].key = k /\ hits[i].locked >= clock - (Window - LockDelay)
                => \E j \in 1..Len(rest) : rest[j] = i
<1> DEFINE b == bucket[k]
           rest == SubSeq(b, n, Len(b))
<1>1. b \in Seq(Nat) /\ Len(b) \in Nat /\ hits \in Seq(Hits) /\ clock \in Nat
  BY DEF LimiterInv, LimiterTypeOK
<1>2. \A j \in n..Len(b) : b[j] \in Nat
  BY <1>1
<1>3. /\ rest \in Seq(Nat)
      /\ Len(rest) = IF n <= Len(b) THEN Len(b) - n + 1 ELSE 0
      /\ \A j \in 1..(Len(b) - n + 1) : rest[j] = b[n + j - 1]
  BY <1>1, <1>2, SubSeqProperties
<1> HIDE DEF rest
<1>4. Len(rest) \in Nat /\ Len(rest) = Len(b) - n + 1 /\ Len(rest) <= Len(b)
  <2>1. n \in Nat /\ 1 <= n /\ n <= Len(b) + 1
    BY <1>1
  <2>2. Len(rest) = IF n <= Len(b) THEN Len(b) - n + 1 ELSE 0
    BY <1>3
  <2> HIDE DEF b
  <2>3. QED
    BY <1>1, <2>1, <2>2
<1>5. \A j \in 1..Len(b) : b[j] \in DOMAIN hits
  BY DEF LimiterInv, BucketOK
<1>6. \A j \in 1..Len(rest) : rest[j] \in DOMAIN hits
  <2>1. ASSUME NEW j \in 1..Len(rest) PROVE rest[j] \in DOMAIN hits
    <3>1. rest[j] = b[n + j - 1] /\ n + j - 1 \in 1..Len(b)
      BY <1>1, <1>3, <1>4, <2>1
    <3>2. QED
      BY <1>5, <3>1
  <2>2. QED
    BY <2>1
<1>7. ASSUME NEW i \in DOMAIN hits, hits[i].key = k,
             hits[i].locked >= clock - (Window - LockDelay)
      PROVE  \E j \in 1..Len(rest) : rest[j] = i
  <2>1. PICK m \in 1..Len(b) : b[m] = i
    BY <1>7 DEF LimiterInv, BucketOK
  <2>2. /\ hits[i].at \in Nat /\ hits[i].locked \in Nat
        /\ hits[i].locked <= hits[i].at + LockDelay
        /\ Window \in Nat /\ LockDelay \in Nat
    BY HitType, LimiterAssumption DEF LimiterInv, HitsInTime
  <2>3. ~Old(i, now)
    BY <1>1, <1>7, <2>2 DEF Old
  <2>4. m >= n
    BY <1>1, <2>1, <2>3 DEF EvictsTo
  <2>5. m - n + 1 \in 1..Len(rest)
    BY <1>1, <1>4, <2>1, <2>4
  <2>8. rest[m - n + 1] = b[n + (m - n + 1) - 1]
    BY <1>3, <1>4, <2>5
  <2>6. n + (m - n + 1) - 1 = m
    BY <1>1, <2>1
  <2>7. QED
    BY <2>1, <2>5, <2>6, <2>8
<1>8. Len(rest) # 0 => ~Old(rest[1], now)
  <2>1. SUFFICES ASSUME Len(rest) # 0 PROVE ~Old(rest[1], now)
    OBVIOUS
  <2>2. n <= Len(b) /\ 1 \in 1..(Len(b) - n + 1) /\ n + 1 - 1 = n
    BY <1>1, <1>4, <2>1
  <2>3. rest[1] = b[n]
    BY <1>3, <2>2
  <2>4. QED
    BY <2>2, <2>3 DEF EvictsTo
<1>9. QED
  BY <1>3, <1>4, <1>6, <1>7, <1>8 DEF rest

(* Who is refused is told a time to come.                                   *)
LEMMA RetryAfterType ==
  ASSUME NEW at \in Nat, NEW now \in Nat, ~(at < now - Window)
  PROVE  RetryAfter(at, now) \in Nat
<1>1. Window \in Nat /\ TicksPerSecond \in Nat /\ TicksPerSecond > 0
  BY LimiterAssumption
<1>2. Window - (now - at) \in Nat
  BY <1>1
<1>3. (Window - (now - at)) \div TicksPerSecond \in Nat
  BY <1>1, <1>2
<1>4. \A m, n \in Nat : m * (n + 1) \in Nat
  OBVIOUS
<1>5. QED
  BY <1>1, <1>3, <1>4 DEF RetryAfter

(* The state after a hit, admitted or refused, of the key of a bucket.      *)
LEMMA HitKeepsLimiter ==
  ASSUME LimiterInv, NEW t \in Threads, Hit(t)
  PROVE  LimiterInv'
<1> DEFINE key == Head(calls[t].todo)
           now == calls[t].now
           rest(n) == SubSeq(bucket[key], n, Len(bucket[key]))
           new == [key |-> key, at |-> now, locked |-> clock]
<1>1. /\ clock \in Nat /\ clock' = clock /\ hits \in Seq(Hits)
      /\ bucket \in [Keys -> Seq(Nat)] /\ calls \in [Threads -> Calls]
      /\ Window \in Nat /\ LockDelay \in Nat /\ Limit \in [Keys -> Nat \ {0}]
      /\ TicksPerSecond \in Nat \ {0}
  BY LimiterAssumption DEF Hit, LimiterInv, LimiterTypeOK
<1>2. calls[t].pc = "waiting" /\ calls[t].todo # << >> /\ calls[t].todo \in Seq(Keys)
  BY <1>1 DEF Hit, LimiterInv, WaitsInTime, Calls
<1>3. key \in Keys /\ Tail(calls[t].todo) \in Seq(Keys)
      /\ Len(Tail(calls[t].todo)) = Len(calls[t].todo) - 1
  BY <1>2, HeadTailProperties
<1>4. now \in Nat /\ now <= clock /\ clock <= now + LockDelay
  BY <1>1, <1>2 DEF LimiterInv, WaitsInTime, Calls
<1>5. PICK n \in 1..(Len(bucket[key]) + 1) :
        /\ EvictsTo(bucket[key], n, now)
        /\ IF Len(rest(n)) >= Limit[key]
           THEN /\ bucket' = [bucket EXCEPT ![key] = rest(n)]
                /\ calls' = [calls EXCEPT ![t].pc = "refused", ![t].seen = Len(hits),
                               ![t].retry_at = clock + RetryAfter(hits[rest(n)[1]].at, now)]
                /\ UNCHANGED hits
           ELSE /\ hits' = Append(hits, new)
                /\ bucket' = [bucket EXCEPT ![key] = Append(rest(n), Len(hits) + 1)]
                /\ calls' = [calls EXCEPT ![t] = IF Len(calls[t].todo) = 1 THEN Resting
                                                 ELSE Waiting(Tail(calls[t].todo))]
  BY DEF Hit
<1>6. /\ rest(n) \in Seq(Nat)
      /\ Len(rest(n)) \in Nat
      /\ Len(rest(n)) <= Len(bucket[key])
      /\ \A j \in 1..Len(rest(n)) : rest(n)[j] \in DOMAIN hits
      /\ Len(rest(n)) # 0 => ~Old(rest(n)[1], now)
      /\ \A i \in DOMAIN hits :
           hits[i].key = key /\ hits[i].locked >= clock - (Window - LockDelay)
             => \E j \in 1..Len(rest(n)) : rest(n)[j] = i
  BY <1>3, <1>4, <1>5, EvictionKeeps
<1>7. Len(bucket[key]) \in Nat /\ Len(bucket[key]) <= Limit[key]
  BY <1>1, <1>3 DEF LimiterInv, BucketOK
<1> HIDE DEF rest
<1>8. CASE Len(rest(n)) >= Limit[key]
  <2>1. /\ bucket' = [bucket EXCEPT ![key] = rest(n)]
        /\ calls' = [calls EXCEPT ![t].pc = "refused", ![t].seen = Len(hits),
                       ![t].retry_at = clock + RetryAfter(hits[rest(n)[1]].at, now)]
        /\ hits' = hits
    BY <1>5, <1>8
  <2>2. LimiterTypeOK'
    <3>1. rest(n)[1] \in DOMAIN hits
      BY <1>1, <1>3, <1>6, <1>8, SMTT(30)
    <3>2. clock + RetryAfter(hits[rest(n)[1]].at, now) \in Nat
      <4>1. Len(rest(n)) # 0
        BY <1>1, <1>3, <1>6, <1>8, SMTT(30)
      <4>4. hits[rest(n)[1]].at \in Nat
        BY <3>1, HitType
      <4>5. ~Old(rest(n)[1], now)
        BY <1>6, <4>1
      <4>2. RetryAfter(hits[rest(n)[1]].at, now) \in Nat
        BY <1>4, <4>4, <4>5, RetryAfterType DEF Old
      <4>3. QED
        BY <1>1, <4>2
    <3>3. Len(hits) \in Nat
      BY <1>1
    <3>4. calls' \in [Threads -> Calls]
      <4>1. calls[t] \in Calls
        BY <1>1
      <4>2. [calls[t] EXCEPT !.pc = "refused", !.seen = Len(hits),
               !.retry_at = clock + RetryAfter(hits[rest(n)[1]].at, now)] \in Calls
        BY <3>2, <3>3, <4>1 DEF Calls
      <4>3. QED
        BY <1>1, <2>1, <4>2
    <3>5. QED
      BY <1>1, <1>3, <1>6, <2>1, <3>4 DEF LimiterTypeOK
  <2>3. HitsInTime' /\ WaitsInTime'
    BY <1>1, <2>1 DEF LimiterInv, HitsInTime, WaitsInTime
  <2>4. ASSUME NEW k \in Keys PROVE BucketOK(k)'
    <3>1. CASE k = key
      <4>1. bucket'[k] = rest(n) /\ Limit[k] \in Nat
        BY <1>1, <1>3, <2>1, <3>1
      <4>2. Len(rest(n)) <= Limit[k]
        BY <1>6, <1>7, <3>1, <4>1
      <4>3. QED
        BY <1>1, <1>6, <2>1, <3>1, <4>1, <4>2 DEF BucketOK
    <3>2. CASE k # key
      BY <1>1, <1>3, <2>1, <2>4, <3>2 DEF LimiterInv, BucketOK
    <3>3. QED
      BY <3>1, <3>2
  <2>5. QED
    BY <2>2, <2>3, <2>4 DEF LimiterInv
<1>9. CASE ~(Len(rest(n)) >= Limit[key])
  <2> DEFINE i == Len(hits) + 1
  <2>1. /\ hits' = Append(hits, new)
        /\ bucket' = [bucket EXCEPT ![key] = Append(rest(n), i)]
        /\ calls' = [calls EXCEPT ![t] = IF Len(calls[t].todo) = 1 THEN Resting
                                         ELSE Waiting(Tail(calls[t].todo))]
    BY <1>5, <1>9
  <2>2. new \in Hits /\ i \in Nat
    BY <1>1, <1>3, <1>4 DEF Hits
  <2>3. /\ hits' \in Seq(Hits)
        /\ DOMAIN hits = 1..Len(hits)
        /\ DOMAIN hits' = 1..i
        /\ \A j \in DOMAIN hits : hits'[j] = hits[j]
        /\ hits'[i] = new
    BY <1>1, <2>1, <2>2, AppendProperties
  <2>4. /\ bucket'[key] \in Seq(Nat)
        /\ Len(bucket'[key]) = Len(rest(n)) + 1
        /\ \A j \in 1..Len(rest(n)) : bucket'[key][j] = rest(n)[j]
        /\ bucket'[key][Len(rest(n)) + 1] = i
    <3>1. bucket'[key] = Append(rest(n), i)
      BY <1>1, <1>3, <2>1
    <3>2. rest(n) \in Seq(Nat) /\ i \in Nat
      BY <1>6, <2>2
    <3>3. QED
      BY <3>1, <3>2, AppendProperties
  <2>5. \A k \in Keys \ {key} : bucket'[k] = bucket[k]
    BY <1>1, <2>1
  <2>6. calls' \in [Threads -> Calls]
    <3>1. Resting \in Calls
      BY DEF Resting, Calls
    <3>2. Waiting(Tail(calls[t].todo)) \in Calls
      BY <1>1, <1>3, WaitingType
    <3>3. QED
      BY <1>1, <2>1, <3>1, <3>2
  <2>7. LimiterTypeOK'
    BY <1>1, <1>3, <2>1, <2>3, <2>4, <2>6 DEF LimiterTypeOK
  <2>8. HitsInTime'
    <3>1. ASSUME NEW j \in DOMAIN hits'
          PROVE  /\ hits'[j].at <= hits'[j].locked
                 /\ hits'[j].locked <= hits'[j].at + LockDelay
                 /\ hits'[j].locked <= clock
      <4>1. CASE j = i
        BY <1>1, <1>4, <2>3, <4>1
      <4>2. CASE j # i
        <5>1. j \in DOMAIN hits
          BY <1>1, <2>2, <2>3, <3>1, <4>2
        <5>2. QED
          BY <2>3, <5>1 DEF LimiterInv, HitsInTime
      <4>3. QED
        BY <4>1, <4>2
    <3>2. QED
      BY <1>1, <3>1 DEF HitsInTime
  <2>9. WaitsInTime'
    <3>1. ASSUME NEW s \in Threads, calls'[s].pc = "waiting"
          PROVE  /\ calls'[s].todo # << >>
                 /\ calls'[s].now <= clock
                 /\ clock <= calls'[s].now + LockDelay
      <4>1. CASE s # t
        BY <1>1, <2>1, <3>1, <4>1 DEF LimiterInv, WaitsInTime
      <4>2. CASE s = t
        <5>1. Len(calls[t].todo) # 1 /\ calls'[s] = Waiting(Tail(calls[t].todo))
          BY <1>1, <2>1, <3>1, <4>2 DEF Resting
        <5>2. Tail(calls[t].todo) # << >>
          <6>1. Len(calls[t].todo) \in Nat \ {0}
            BY <1>2, EmptySeq
          <6>2. Len(Tail(calls[t].todo)) # 0
            BY <1>3, <5>1, <6>1
          <6>3. Len(<< >>) = 0
            BY EmptySeq
          <6>4. QED
            BY <6>2, <6>3
        <5>3. calls'[s].todo = Tail(calls[t].todo) /\ calls'[s].now = clock
          BY <1>1, <1>3, <5>1, WaitingType
        <5>4. clock <= clock + LockDelay
          BY <1>1
        <5>5. QED
          BY <1>1, <5>2, <5>3, <5>4
      <4>3. QED
        BY <4>1, <4>2
    <3>2. QED
      BY <1>1, <3>1 DEF WaitsInTime
  <2>10. ASSUME NEW k \in Keys PROVE BucketOK(k)'
    <3>1. CASE k # key
      <4>1. bucket'[k] = bucket[k] /\ BucketOK(k)
        BY <2>5, <2>10, <3>1 DEF LimiterInv
      <4>2. \A j \in DOMAIN hits' : hits'[j].key = k => j \in DOMAIN hits
        BY <1>1, <2>2, <2>3, <3>1
      <4>3. DOMAIN hits \subseteq DOMAIN hits'
        BY <1>1, <2>3
      <4>4. QED
        BY <1>1, <2>3, <4>1, <4>2, <4>3 DEF BucketOK
    <3>2. CASE k = key
      <4>1. Len(bucket'[key]) <= Limit[key]
        <5>1. Limit[key] \in Nat /\ Len(rest(n)) \in Nat
          BY <1>1, <1>3, <1>6
        <5>2. ~(Len(rest(n)) >= Limit[key]) /\ Len(bucket'[key]) = Len(rest(n)) + 1
          BY <1>9, <2>4
        <5>3. QED
          BY <5>1, <5>2
      <4>2. ASSUME NEW j \in 1..Len(bucket'[key]) PROVE bucket'[key][j] \in DOMAIN hits'
        <5>1. DOMAIN hits \subseteq DOMAIN hits' /\ i \in DOMAIN hits'
          BY <1>1, <2>3
        <5>2. j \in 1..Len(rest(n)) \/ j = Len(rest(n)) + 1
          BY <1>6, <2>4, <4>2
        <5>3. QED
          BY <1>6, <2>4, <5>1, <5>2
      <4>3. ASSUME NEW h \in DOMAIN hits', hits'[h].key = key,
                   hits'[h].locked >= clock - (Window - LockDelay)
            PROVE  \E j \in 1..Len(bucket'[key]) : bucket'[key][j] = h
        <5>1. CASE h = i
          <6>1. Len(rest(n)) + 1 \in 1..Len(bucket'[key])
            BY <1>6, <2>4
          <6>2. QED
            BY <2>4, <5>1, <6>1
        <5>2. CASE h # i
          <6>1. h \in DOMAIN hits /\ hits'[h] = hits[h]
            BY <1>1, <2>2, <2>3, <4>3, <5>2
          <6>2. PICK j \in 1..Len(rest(n)) : rest(n)[j] = h
            BY <1>6, <4>3, <6>1
          <6>3. j \in 1..Len(bucket'[key])
            BY <1>6, <2>4, <6>2
          <6>4. QED
            BY <2>4, <6>2, <6>3
        <5>3. QED
          BY <5>1, <5>2
      <4>4. QED
        BY <1>1, <3>2, <4>1, <4>2, <4>3 DEF BucketOK
    <3>3. QED
      BY <3>1, <3>2
  <2>11. QED
    BY <2>7, <2>8, <2>9, <2>10 DEF LimiterInv
<1>10. QED
  BY <1>8, <1>9

LEMMA LimiterInvStep == LimiterInv /\ [LimiterNext]_limiterVars => LimiterInv'
<1> SUFFICES ASSUME LimiterInv, [LimiterNext]_limiterVars PROVE LimiterInv'
  OBVIOUS
<1>1. CASE \E t \in Threads, keys \in Requests : Call(t, keys)
  BY <1>1, CallKeepsLimiter
<1>2. CASE \E t \in Threads : Hit(t)
  BY <1>2, HitKeepsLimiter
<1>3. CASE Tick
  BY <1>3, TickKeepsLimiter
<1>4. CASE UNCHANGED limiterVars
  BY <1>4 DEF limiterVars, LimiterInv, LimiterTypeOK, HitsInTime, WaitsInTime, BucketOK, Calls
<1>5. QED
  BY <1>1, <1>2, <1>3, <1>4 DEF LimiterNext

(* The hits a bucket holds are no more than its limit.                      *)
LEMMA LimiterInvLimits == LimiterInv => LimitHolds
<1> SUFFICES ASSUME LimiterInv, NEW k \in Keys
             PROVE  Cardinality({i \in HitsOf(k) :
                                   hits[i].locked >= clock - (Window - LockDelay)}) <= Limit[k]
  BY DEF LimitHolds
<1> DEFINE S == {i \in HitsOf(k) : hits[i].locked >= clock - (Window - LockDelay)}
           D == {j \in 1..Len(bucket[k]) : bucket[k][j] \in S}
           f == [j \in D |-> bucket[k][j]]
<1>1. BucketOK(k) /\ Len(bucket[k]) \in Nat /\ Limit[k] \in Nat
  BY LimiterAssumption DEF LimiterInv, LimiterTypeOK
<1>2. IsFiniteSet(1..Len(bucket[k])) /\ Cardinality(1..Len(bucket[k])) = Len(bucket[k])
  <2>1. /\ IsFiniteSet(1..Len(bucket[k]))
        /\ Cardinality(1..Len(bucket[k])) =
             IF 1 > Len(bucket[k]) THEN 0 ELSE Len(bucket[k]) - 1 + 1
    <3>1. 1 \in Int /\ Len(bucket[k]) \in Int
      BY <1>1
    <3>2. QED
      BY <3>1, FS_Interval, Zenon
  <2>2. (IF 1 > Len(bucket[k]) THEN 0 ELSE Len(bucket[k]) - 1 + 1) = Len(bucket[k])
    BY <1>1
  <2>3. QED
    BY <2>1, <2>2
<1>3. IsFiniteSet(D) /\ Cardinality(D) <= Len(bucket[k])
  BY <1>2, FS_Subset
<1>4. f \in Surjection(D, S)
  <2>1. \A i \in S : \E j \in D : f[j] = i
    BY <1>1 DEF BucketOK, HitsOf
  <2>2. f \in [D -> S]
    OBVIOUS
  <2>3. QED
    BY <2>1, <2>2 DEF Surjection
<1>5. IsFiniteSet(S) /\ Cardinality(S) <= Cardinality(D)
  BY <1>3, <1>4, FS_Surjection
<1>6. Cardinality(S) \in Nat /\ Cardinality(D) \in Nat
  BY <1>3, <1>5, FS_CardinalityType
<1>7. QED
  BY <1>1, <1>3, <1>5, <1>6 DEF BucketOK

(* The limiter's invariant: buckets hold what the limits count.             *)
THEOREM LimiterInvariant == Spec => []LimiterInv
<1>1. Init => LimiterInv
  BY LimiterInvInit DEF Init
<1>2. LimiterInv /\ [Next]_vars => LimiterInv'
  BY LimiterInvStep DEF Next, vars
<1>3. QED
  BY <1>1, <1>2, PTL DEF Spec

(* No window admits more than its limit, however threads race for its lock. *)
THEOREM LimitsHold == Spec => []LimitHolds
BY LimiterInvariant, LimiterInvLimits, PTL

-------------------------------------------------------------------------------
(* Refusals *)

(* Hits are recorded in the order of the lock ...                           *)
HitsInOrder ==
  \A i, j \in DOMAIN hits : i <= j => hits[i].locked <= hits[j].locked

(* ... and so they lie in the bucket of their key.                          *)
BucketInOrder(k) ==
  /\ \A j \in 1..Len(bucket[k]) : hits[bucket[k][j]].key = k
  /\ \A i, j \in 1..Len(bucket[k]) : i < j => bucket[k][i] < bucket[k][j]

Oldest(k) == hits[bucket[k][1]]

(* While no hit follows a refusal, its bucket is full and no other refusal  *)
(* evicts from it: the oldest hit is within the window of the refused time, *)
(* and past it at retry_at.                                                 *)
LastRefusal(t) ==
  LET key == Head(calls[t].todo) IN
  /\ calls[t].todo # << >>
  /\ calls[t].seen <= Len(hits)
  /\ calls[t].seen = Len(hits) =>
       /\ Len(bucket[key]) = Limit[key]
       /\ calls[t].now <= Oldest(key).at + Window
       /\ Oldest(key).at + Window < calls[t].retry_at

RefusalInv ==
  /\ HitsInOrder
  /\ \A k \in Keys : BucketInOrder(k)
  /\ \A t \in Threads : calls[t].pc = "refused" => LastRefusal(t)
  /\ RefusalsAreFair

(* Of the hits H those of the key in the window before a time, stretched by *)
(* the wait for the lock: what a refusal at that time met.                  *)
Near(H, key, now) ==
  {i \in {j \in DOMAIN H : H[j].key = key} : H[i].at >= now - Window - LockDelay}

MetLimit(t) ==
  LET key == Head(calls[t].todo)
  IN  Cardinality(Near(hits, key, calls[t].now)) >= Limit[key]

(* RefusalsAreFair in two parts, now and after a step.                      *)
LEMMA FairnessParts ==
  RefusalsAreFair <=>
    /\ \A t \in Threads : calls[t].pc = "refused" => MetLimit(t)
    /\ \A t \in Threads : \A s \in Threads \ {t} :
         /\ calls[t].pc = "refused" /\ calls[s].pc = "refused"
         /\ Head(calls[s].todo) = Head(calls[t].todo)
         /\ calls[s].seen = calls[t].seen
         => calls[t].now < calls[s].retry_at
BY Zenon DEF RefusalsAreFair, MetLimit, Near, HitsOf

LEMMA FairnessPartsNext ==
  ASSUME \A t \in Threads : calls'[t].pc = "refused" => MetLimit(t)',
         \A t \in Threads : \A s \in Threads \ {t} :
           /\ calls'[t].pc = "refused" /\ calls'[s].pc = "refused"
           /\ Head(calls'[s].todo) = Head(calls'[t].todo)
           /\ calls'[s].seen = calls'[t].seen
           => calls'[t].now < calls'[s].retry_at
  PROVE  RefusalsAreFair'
BY Zenon DEF RefusalsAreFair, MetLimit, Near, HitsOf

LEMMA RefusalInvInit == LimiterInit => RefusalInv
<1> SUFFICES ASSUME LimiterInit PROVE RefusalInv
  OBVIOUS
<1>1. /\ hits = << >> /\ DOMAIN hits = {}
      /\ \A k \in Keys : bucket[k] = << >> /\ Len(bucket[k]) = 0
      /\ \A t \in Threads : calls[t].pc = "idle"
  BY DEF LimiterInit, Resting
<1>2. QED
  BY <1>1 DEF RefusalInv, HitsInOrder, BucketInOrder, LastRefusal, RefusalsAreFair

(* The rounded Retry-After is longer than what is left of the window.       *)
LEMMA RetryAfterExceeds ==
  ASSUME NEW at \in Nat, NEW now \in Nat, ~(at < now - Window)
  PROVE  RetryAfter(at, now) > Window - (now - at)
<1> DEFINE left == Window - (now - at)
           T == TicksPerSecond
<1>1. left \in Nat /\ T \in Nat /\ T > 0
  BY LimiterAssumption
<1> HIDE DEF left, T
<1>2. /\ left \div T \in Nat /\ left % T \in Nat /\ left % T < T
      /\ left = T * (left \div T) + (left % T)
  BY <1>1
<1>3. \A q \in Nat : T * (q + 1) = T * q + T
  BY <1>1
<1>4. \A q \in Nat : T * q \in Nat
  BY <1>1
<1>5. T * (left \div T + 1) > left
  BY <1>1, <1>2, <1>3, <1>4
<1>6. QED
  BY <1>5 DEF RetryAfter, left, T

(* Only the times and keys of a thread that is refused count.               *)
LEMMA CallKeepsRefusals ==
  ASSUME LimiterInv, RefusalInv, NEW t \in Threads, NEW keys \in Requests, Call(t, keys)
  PROVE  RefusalInv'
<1>1. /\ UNCHANGED <<clock, hits, bucket>>
      /\ calls'[t].pc = "waiting"
      /\ \A s \in Threads \ {t} : calls'[s] = calls[s]
  BY DEF Call, LimiterInv, LimiterTypeOK, Waiting, Resting
<1>2. HitsInOrder' /\ \A k \in Keys : BucketInOrder(k)'
  BY <1>1 DEF RefusalInv, HitsInOrder, BucketInOrder
<1>3. \A s \in Threads : calls'[s].pc = "refused" => LastRefusal(s)'
  BY <1>1 DEF RefusalInv, LastRefusal, Oldest
<1>4. RefusalsAreFair'
  BY <1>1 DEF RefusalInv, RefusalsAreFair, HitsOf
<1>5. QED
  BY <1>2, <1>3, <1>4 DEF RefusalInv

LEMMA TickKeepsRefusals ==
  ASSUME RefusalInv, UNCHANGED <<hits, bucket, calls>>
  PROVE  RefusalInv'
BY DEF RefusalInv, HitsInOrder, BucketInOrder, LastRefusal, Oldest, RefusalsAreFair, HitsOf

(* The hits of a full bucket whose oldest is within the window: so many     *)
(* within the window stretched by the wait for the lock.                    *)
LEMMA FullBucketMetLimit ==
  ASSUME LimiterInv, RefusalInv, NEW k \in Keys, NEW now \in Nat,
         Len(bucket[k]) = Limit[k], ~Old(bucket[k][1], now)
  PROVE  Cardinality(Near(hits, k, now)) >= Limit[k]
<1> DEFINE S == Near(hits, k, now)
           D == 1..Len(bucket[k])
           f == [j \in D |-> bucket[k][j]]
<1>1. /\ Len(bucket[k]) \in Nat /\ Limit[k] \in Nat \ {0} /\ hits \in Seq(Hits)
      /\ Window \in Nat /\ LockDelay \in Nat /\ bucket[k] \in Seq(Nat)
      /\ DOMAIN hits = 1..Len(hits) /\ Len(hits) \in Nat
  BY LimiterAssumption DEF LimiterInv, LimiterTypeOK
<1>2. \A j \in D : bucket[k][j] \in DOMAIN hits /\ hits[bucket[k][j]].key = k
  BY DEF LimiterInv, BucketOK, RefusalInv, BucketInOrder
<1>3. 1 \in D /\ bucket[k][1] \in Nat
  BY <1>1, SMTT(30)
<1>4. ASSUME NEW j \in D PROVE bucket[k][j] \in S
  <2> DEFINE h == hits[bucket[k][j]]
             o == hits[bucket[k][1]]
  <2>1. bucket[k][1] <= bucket[k][j]
    <3>1. bucket[k][j] \in Nat
      BY <1>1
    <3>2. j = 1 \/ 1 < j
      BY <1>1
    <3>3. 1 < j => bucket[k][1] < bucket[k][j]
      BY <1>3 DEF RefusalInv, BucketInOrder
    <3>4. QED
      BY <1>3, <3>1, <3>2, <3>3
  <2>2. o.locked <= h.locked
    BY <1>2, <1>3, <2>1 DEF RefusalInv, HitsInOrder
  <2>3. o.at <= o.locked /\ h.locked <= h.at + LockDelay
    BY <1>2, <1>3 DEF LimiterInv, HitsInTime
  <2>4. o.at \in Nat /\ o.locked \in Nat /\ h.at \in Nat /\ h.locked \in Nat
    BY <1>2, <1>3, HitType
  <2>5. o.at >= now - Window
    BY <1>1, <2>4 DEF Old
  <2> HIDE DEF h, o
  <2>6. h.at >= now - Window - LockDelay
    BY <1>1, <2>2, <2>3, <2>4, <2>5
  <2>7. QED
    BY <1>2, <2>6 DEF Near, h
<1>5. f \in Injection(D, S)
  <2>1. f \in [D -> S]
    BY <1>4
  <2>2. \A i, j \in D : f[i] = f[j] => i = j
    <3>1. ASSUME NEW i \in D, NEW j \in D, i < j PROVE bucket[k][i] # bucket[k][j]
      <4>1. BucketInOrder(k)
        BY DEF RefusalInv
      <4>2. bucket[k][i] < bucket[k][j]
        BY <3>1, <4>1 DEF BucketInOrder
      <4>3. bucket[k][i] \in Nat /\ bucket[k][j] \in Nat
        <5>1. bucket[k] \in Seq(Nat)
          BY <1>1
        <5>2. QED
          BY <5>1, ElementOfSeq, Zenon
      <4>4. \A x, y \in Nat : x < y => x # y
        OBVIOUS
      <4> HIDE DEF D
      <4>5. QED
        BY <4>2, <4>3, <4>4, Zenon
    <3>2. \A i, j \in D : i < j \/ j < i \/ i = j
      BY <1>1
    <3>3. \A i \in D : f[i] = bucket[k][i]
      OBVIOUS
    <3> HIDE DEF D, f
    <3>4. QED
      BY <3>1, <3>2, <3>3
  <2> HIDE DEF f
  <2>3. QED
    BY <2>1, <2>2 DEF Injection, IsInjective
<1>6. IsFiniteSet(S)
  <2>1. IsFiniteSet(DOMAIN hits)
    BY <1>1, FS_Interval
  <2>2. S \in SUBSET DOMAIN hits
    BY DEF Near
  <2>3. QED
    BY <2>1, <2>2, FS_Subset
<1>7. Cardinality(D) <= Cardinality(S)
  BY <1>5, <1>6, FS_Injection
<1>8. Cardinality(D) = Len(bucket[k])
  <2>1. Cardinality(D) = IF 1 > Len(bucket[k]) THEN 0 ELSE Len(bucket[k]) - 1 + 1
    <3>1. 1 \in Int /\ Len(bucket[k]) \in Int
      BY <1>1
    <3>2. QED
      BY <3>1, FS_Interval, Zenon
  <2>2. QED
    BY <1>1, <2>1
<1>9. Cardinality(S) \in Nat
  BY <1>6, FS_CardinalityType
<1>10. QED
  BY <1>1, <1>7, <1>8, <1>9

(* What the loop of hit leaves is the end of the bucket.                    *)
LEMMA RestIsSuffix ==
  ASSUME LimiterInv, NEW k \in Keys, NEW n \in 1..(Len(bucket[k]) + 1)
  PROVE  LET rest == SubSeq(bucket[k], n, Len(bucket[k])) IN
         /\ Len(rest) = Len(bucket[k]) - n + 1
         /\ \A j \in 1..Len(rest) : /\ n + j - 1 \in 1..Len(bucket[k])
                                    /\ rest[j] = bucket[k][n + j - 1]
         /\ n = 1 => rest = bucket[k]
<1> DEFINE b == bucket[k]
           rest == SubSeq(b, n, Len(b))
<1>1. b \in Seq(Nat) /\ Len(b) \in Nat /\ n \in Nat /\ 1 <= n /\ n <= Len(b) + 1
  BY DEF LimiterInv, LimiterTypeOK
<1>2. \A j \in n..Len(b) : b[j] \in Nat
  BY <1>1
<1>3. /\ rest \in Seq(Nat)
      /\ Len(rest) = IF n <= Len(b) THEN Len(b) - n + 1 ELSE 0
      /\ \A j \in 1..(Len(b) - n + 1) : rest[j] = b[n + j - 1]
  BY <1>1, <1>2, SubSeqProperties
<1> HIDE DEF rest, b
<1>4. Len(rest) = Len(b) - n + 1
  BY <1>1, <1>3
<1>5. ASSUME NEW j \in 1..Len(rest)
      PROVE  n + j - 1 \in 1..Len(b) /\ rest[j] = b[n + j - 1]
  BY <1>1, <1>3, <1>4
<1>6. n = 1 => rest = b
  BY <1>1, SubSeqFull DEF rest
<1>7. QED
  BY <1>4, <1>5, <1>6 DEF rest, b

(* The two ends of hit, once the hits before the n-th have left the bucket. *)
Refuses(t, n) ==
  LET key  == Head(calls[t].todo)
      rest == SubSeq(bucket[key], n, Len(bucket[key]))
  IN  /\ EvictsTo(bucket[key], n, calls[t].now)
      /\ Len(rest) >= Limit[key]
      /\ bucket' = [bucket EXCEPT ![key] = rest]
      /\ calls' = [calls EXCEPT ![t].pc = "refused", ![t].seen = Len(hits),
                     ![t].retry_at = clock + RetryAfter(hits[rest[1]].at, calls[t].now)]
      /\ UNCHANGED <<hits, clock>>

Admits(t, n) ==
  LET key  == Head(calls[t].todo)
      rest == SubSeq(bucket[key], n, Len(bucket[key]))
  IN  /\ hits' = Append(hits, [key |-> key, at |-> calls[t].now, locked |-> clock])
      /\ bucket' = [bucket EXCEPT ![key] = Append(rest, Len(hits) + 1)]
      /\ calls' = [calls EXCEPT ![t] = IF Len(calls[t].todo) = 1 THEN Resting
                                       ELSE Waiting(Tail(calls[t].todo))]

(* A bucket that is full after evictions has lost nothing to them.          *)
LEMMA FullLostNothing ==
  ASSUME NEW length \in Nat, NEW n \in Nat, NEW left, NEW limit \in Nat,
         1 <= n, left = length - n + 1, length <= limit, left >= limit
  PROVE  n = 1 /\ length = limit
OBVIOUS

(* A refusal leaves its bucket as it was: full, with an oldest hit that the *)
(* time of the refusal finds in the window and retry_at does not.           *)
LEMMA RefusalKeepsRefusals ==
  ASSUME LimiterInv, RefusalInv, NEW t \in Threads, calls[t].pc = "waiting",
         NEW n \in 1..(Len(bucket[Head(calls[t].todo)]) + 1), Refuses(t, n)
  PROVE  RefusalInv'
<1> DEFINE key == Head(calls[t].todo)
           now == calls[t].now
           b == bucket[key]
           rest == SubSeq(b, n, Len(b))
<1>a. /\ clock \in Nat /\ hits \in Seq(Hits)
      /\ bucket \in [Keys -> Seq(Nat)] /\ calls \in [Threads -> Calls]
      /\ Window \in Nat /\ Limit \in [Keys -> Nat \ {0}]
  BY LimiterAssumption DEF LimiterInv, LimiterTypeOK
<1>b. Len(hits) \in Nat
  BY <1>a
<1>1. /\ clock \in Nat /\ hits \in Seq(Hits) /\ Len(hits) \in Nat
      /\ bucket \in [Keys -> Seq(Nat)] /\ calls \in [Threads -> Calls]
      /\ Window \in Nat /\ Limit \in [Keys -> Nat \ {0}]
  BY <1>a, <1>b
<1>2. /\ calls[t].todo # << >> /\ calls[t].todo \in Seq(Keys) /\ key \in Keys
      /\ now \in Nat /\ now <= clock
  BY <1>1, HeadTailProperties DEF LimiterInv, WaitsInTime, Calls
<1>c. n \in 1..(Len(b) + 1) /\ b = bucket[key]
  OBVIOUS
<1>d. EvictsTo(b, n, now) /\ Len(rest) >= Limit[key] /\ UNCHANGED <<hits, clock>>
  BY DEF Refuses
<1>e. /\ bucket' = [bucket EXCEPT ![key] = rest]
      /\ calls' = [calls EXCEPT ![t].pc = "refused", ![t].seen = Len(hits),
                     ![t].retry_at = clock + RetryAfter(hits[rest[1]].at, now)]
  BY DEF Refuses
<1>4. Len(rest) = Len(b) - n + 1 /\ (n = 1 => rest = b)
  BY <1>2, RestIsSuffix
<1> HIDE DEF b, rest, key, now
<1>3. Len(b) \in Nat /\ Len(b) <= Limit[key] /\ Limit[key] \in Nat /\ Limit[key] # 0
  <2>1. b \in Seq(Nat) /\ Limit[key] \in Nat \ {0}
    BY <1>1, <1>2, <1>c
  <2>2. Len(b) <= Limit[key]
    BY <1>2, <1>c DEF LimiterInv, BucketOK
  <2>3. QED
    BY <2>1, <2>2
<1>5. n = 1 /\ rest = b /\ Len(b) = Limit[key]
  <2>1. n \in Nat /\ 1 <= n
    BY <1>3, <1>c
  <2>2. n = 1 /\ Len(b) = Limit[key]
    BY <1>3, <1>4, <1>d, <2>1, FullLostNothing
  <2>3. QED
    BY <1>4, <2>2
<1>6. /\ UNCHANGED <<hits, bucket>>
      /\ calls' = [calls EXCEPT ![t].pc = "refused", ![t].seen = Len(hits),
                     ![t].retry_at = clock + RetryAfter(Oldest(key).at, now)]
  BY <1>1, <1>c, <1>d, <1>e, <1>5 DEF Oldest
<1>7. ~Old(b[1], now) /\ b[1] \in DOMAIN hits
  <2>1. 1 <= Len(b) /\ 1 \in 1..Len(b)
    BY <1>3, <1>5
  <2>2. ~Old(b[1], now)
    BY <1>5, <1>d, <2>1 DEF EvictsTo
  <2>3. QED
    BY <1>2, <1>c, <2>1, <2>2 DEF LimiterInv, BucketOK
<1>8. Oldest(key).at \in Nat /\ now <= Oldest(key).at + Window
  <2>1. Oldest(key).at \in Nat
    BY <1>7, <1>c, HitType DEF Oldest
  <2>2. ~(Oldest(key).at < now - Window)
    BY <1>7, <1>c DEF Old, Oldest
  <2>3. QED
    BY <1>1, <1>2, <2>1, <2>2
<1>9. Oldest(key).at + Window < clock + RetryAfter(Oldest(key).at, now)
  <2>1. RetryAfter(Oldest(key).at, now) > Window - (now - Oldest(key).at)
    <3>1. ~(Oldest(key).at < now - Window)
      BY <1>1, <1>2, <1>8
    <3>2. QED
      BY <1>2, <1>8, <3>1, RetryAfterExceeds
  <2>2. RetryAfter(Oldest(key).at, now) \in Nat
    <3>1. ~(Oldest(key).at < now - Window)
      BY <1>1, <1>2, <1>8
    <3>2. QED
      BY <1>2, <1>8, <3>1, RetryAfterType
  <2>3. QED
    BY <1>1, <1>2, <1>8, <2>1, <2>2
<1>10. /\ \A s \in Threads \ {t} : calls'[s] = calls[s]
       /\ calls'[t].pc = "refused" /\ calls'[t].seen = Len(hits)
       /\ calls'[t].todo = calls[t].todo /\ calls'[t].now = now
       /\ calls'[t].retry_at = clock + RetryAfter(Oldest(key).at, now)
  <2>1. \A s \in Threads \ {t} : calls'[s] = calls[s]
    BY <1>1, <1>6
  <2>2. calls[t] \in Calls
    BY <1>1
  <2>3. calls'[t] = [calls[t] EXCEPT !.pc = "refused", !.seen = Len(hits),
                       !.retry_at = clock + RetryAfter(Oldest(key).at, now)]
    BY <1>1, <1>6
  <2>4. PICK c : c = calls[t]
    OBVIOUS
  <2>5. PICK d : d = calls'[t]
    OBVIOUS
  <2>6. PICK seen : seen = Len(hits)
    OBVIOUS
  <2>7. PICK at : at = clock + RetryAfter(Oldest(key).at, now)
    OBVIOUS
  <2>8. c \in Calls /\ d = [c EXCEPT !.pc = "refused", !.seen = seen, !.retry_at = at]
    BY <2>2, <2>3, <2>4, <2>5, <2>6, <2>7
  <2>9. /\ d.pc = "refused" /\ d.seen = seen /\ d.retry_at = at
        /\ d.todo = c.todo /\ d.now = c.now
    BY <2>8 DEF Calls
  <2>10. QED
    BY <2>1, <2>4, <2>5, <2>6, <2>7, <2>9 DEF now
<1>11. HitsInOrder' /\ \A k \in Keys : BucketInOrder(k)'
  BY <1>6 DEF RefusalInv, HitsInOrder, BucketInOrder
<1>12. ASSUME NEW s \in Threads, calls'[s].pc = "refused" PROVE LastRefusal(s)'
  <2>1. CASE s = t
    <3>1. Head(calls'[t].todo) = key /\ calls'[t].todo # << >>
      BY <1>2, <1>10 DEF key
    <3>2. calls'[t].seen <= Len(hits)
      <4>1. \A m \in Nat : m <= m
        OBVIOUS
      <4>2. QED
        BY <1>1, <1>10, <4>1, Zenon
    <3>3. QED
      BY <1>5, <1>6, <1>8, <1>9, <1>10, <1>c, <2>1, <3>1, <3>2 DEF LastRefusal, Oldest
  <2>2. CASE s # t
    BY <1>6, <1>10, <1>12, <2>2 DEF RefusalInv, LastRefusal, Oldest
  <2>3. QED
    BY <2>1, <2>2
<1>13. RefusalsAreFair'
  <2>1. ASSUME NEW s \in Threads, calls'[s].pc = "refused"
        PROVE  MetLimit(s)'
    <3>1. CASE s = t
      <4>1. Cardinality(Near(hits, key, now)) >= Limit[key]
        BY <1>2, <1>5, <1>7, <1>c, FullBucketMetLimit
      <4>2. hits' = hits /\ Head(calls'[s].todo) = key /\ calls'[s].now = now
        BY <1>6, <1>10, <3>1 DEF key
      <4>3. QED
        BY <4>1, <4>2 DEF MetLimit
    <3>2. CASE s # t
      <4>1. MetLimit(s) /\ calls'[s] = calls[s] /\ hits' = hits
        BY <1>6, <1>10, <2>1, <3>2, FairnessParts DEF RefusalInv
      <4>2. QED
        BY <4>1 DEF MetLimit
    <3>3. QED
      BY <3>1, <3>2
  <2>2. ASSUME NEW r \in Threads, NEW s \in Threads \ {r},
               calls'[r].pc = "refused", calls'[s].pc = "refused",
               Head(calls'[s].todo) = Head(calls'[r].todo), calls'[s].seen = calls'[r].seen
        PROVE  calls'[r].now < calls'[s].retry_at
    <3>1. CASE r # t /\ s # t
      BY <1>10, <2>2, <3>1 DEF RefusalInv, RefusalsAreFair
    <3>2. CASE r = t \/ s = t
      <4> DEFINE at == hits[bucket[Head(calls'[s].todo)][1]].at
      <4>1. calls'[s].seen = Len(hits) /\ calls'[r].seen = Len(hits)
        BY <1>10, <2>2, <3>2
      <4>2. LastRefusal(r)' /\ LastRefusal(s)' /\ hits' = hits
        BY <1>6, <1>12, <2>2
      <4>3. calls'[r].now <= at + Window
        BY <1>6, <2>2, <4>1, <4>2 DEF LastRefusal, Oldest
      <4>4. at + Window < calls'[s].retry_at
        BY <1>6, <2>2, <4>1, <4>2 DEF LastRefusal, Oldest
      <4>5. Head(calls'[s].todo) = key
        BY <1>10, <2>2, <3>2 DEF key
      <4>6. at \in Nat
        BY <1>8, <4>5 DEF Oldest
      <4>7. calls'[r].now \in Nat /\ calls'[s].retry_at \in Nat
        <5>1. calls' \in [Threads -> Calls]
          <6>1. RetryAfter(Oldest(key).at, now) \in Nat
            <7>1. ~(Oldest(key).at < now - Window)
              BY <1>1, <1>2, <1>8
            <7>2. QED
              BY <1>2, <1>8, <7>1, RetryAfterType
          <6>2. clock + RetryAfter(Oldest(key).at, now) \in Nat
            BY <1>1, <6>1
          <6>3. [calls[t] EXCEPT !.pc = "refused", !.seen = Len(hits),
                   !.retry_at = clock + RetryAfter(Oldest(key).at, now)] \in Calls
            BY <1>1, <6>2 DEF Calls
          <6>4. QED
            BY <1>1, <1>6, <6>3
        <5>2. QED
          BY <5>1 DEF Calls
      <4>8. \A x, y, z \in Nat : x <= y + Window /\ y + Window < z => x < z
        BY <1>1
      <4> HIDE DEF at
      <4>9. QED
        BY <4>3, <4>4, <4>6, <4>7, <4>8, Zenon
    <3>3. QED
      BY <3>1, <3>2
  <2>3. QED
    BY <2>1, <2>2, FairnessPartsNext
<1>14. QED
  BY <1>11, <1>12, <1>13 DEF RefusalInv

(* An admitted hit is the last of its bucket and ends every refusal's claim *)
(* on its bucket.                                                           *)
LEMMA AdmissionKeepsRefusals ==
  ASSUME LimiterInv, RefusalInv, NEW t \in Threads, calls[t].pc = "waiting",
         NEW n \in 1..(Len(bucket[Head(calls[t].todo)]) + 1), Admits(t, n)
  PROVE  RefusalInv'
<1> DEFINE key == Head(calls[t].todo)
           now == calls[t].now
           b == bucket[key]
           rest == SubSeq(b, n, Len(b))
           new == [key |-> key, at |-> now, locked |-> clock]
           last == Len(hits) + 1
<1>a. /\ clock \in Nat /\ hits \in Seq(Hits)
      /\ bucket \in [Keys -> Seq(Nat)] /\ calls \in [Threads -> Calls]
      /\ Window \in Nat /\ LockDelay \in Nat /\ Limit \in [Keys -> Nat \ {0}]
  BY LimiterAssumption DEF LimiterInv, LimiterTypeOK
<1>b. Len(hits) \in Nat
  BY <1>a
<1>1. /\ clock \in Nat /\ hits \in Seq(Hits) /\ Len(hits) \in Nat
      /\ bucket \in [Keys -> Seq(Nat)] /\ calls \in [Threads -> Calls]
      /\ Window \in Nat /\ LockDelay \in Nat /\ Limit \in [Keys -> Nat \ {0}]
  BY <1>a, <1>b
<1>2. key \in Keys /\ now \in Nat
  BY <1>1, HeadTailProperties DEF LimiterInv, WaitsInTime, Calls
<1>c. /\ hits' = Append(hits, new)
      /\ bucket' = [bucket EXCEPT ![key] = Append(rest, last)]
      /\ calls' = [calls EXCEPT ![t] = IF Len(calls[t].todo) = 1 THEN Resting
                                       ELSE Waiting(Tail(calls[t].todo))]
      /\ n \in 1..(Len(b) + 1)
      /\ b = bucket[key]
      /\ last = Len(hits) + 1
  BY DEF Admits
<1>5. /\ Len(rest) = Len(b) - n + 1
      /\ \A j \in 1..Len(rest) : n + j - 1 \in 1..Len(b) /\ rest[j] = b[n + j - 1]
  BY <1>2, RestIsSuffix
<1>3. new \in Hits /\ last \in Nat
  BY <1>1, <1>2 DEF Hits
<1> HIDE DEF key, now, b, new, last
<1>4. /\ hits' \in Seq(Hits)
      /\ Len(hits') = last
      /\ DOMAIN hits = 1..Len(hits)
      /\ DOMAIN hits' = 1..last
      /\ \A j \in DOMAIN hits : hits'[j] = hits[j]
      /\ hits'[last] = new
  BY <1>1, <1>3, <1>c, AppendProperties
<1>6. b \in Seq(Nat) /\ Len(b) \in Nat /\ n \in Nat /\ Len(rest) \in Nat /\ rest \in Seq(Nat)
  <2>1. b \in Seq(Nat) /\ Len(b) \in Nat /\ n \in Nat /\ n <= Len(b) + 1 /\ 1 <= n
    BY <1>1, <1>2, <1>c
  <2>2. \A j \in n..Len(b) : b[j] \in Nat
    BY <2>1
  <2>3. rest \in Seq(Nat)
    BY <2>1, <2>2, SubSeqProperties
  <2> HIDE DEF rest
  <2>4. QED
    BY <2>1, <2>3
<1> HIDE DEF rest
<1>7. /\ Len(bucket'[key]) = Len(rest) + 1
      /\ \A j \in 1..Len(rest) : bucket'[key][j] = b[n + j - 1]
      /\ bucket'[key][Len(rest) + 1] = last
  <2>1. bucket'[key] = Append(rest, last)
    BY <1>1, <1>2, <1>c
  <2>2. /\ Len(Append(rest, last)) = Len(rest) + 1
        /\ \A j \in 1..Len(rest) : Append(rest, last)[j] = rest[j]
        /\ Append(rest, last)[Len(rest) + 1] = last
    BY <1>3, <1>6, AppendProperties
  <2>3. QED
    BY <1>5, <2>1, <2>2
<1>8. \A k \in Keys \ {key} : bucket'[k] = bucket[k]
  BY <1>1, <1>c
<1>9. /\ \A s \in Threads \ {t} : calls'[s] = calls[s]
      /\ calls'[t].pc # "refused"
  BY <1>1, <1>c DEF Resting, Waiting
<1>10. \A i \in DOMAIN hits : i \in Nat /\ i < last
  BY <1>1, <1>4, <1>c
<1>d. \A i \in DOMAIN hits' : i # last => i \in DOMAIN hits
  <2>1. \A l \in Nat : \A i \in 1..(l + 1) : i # l + 1 => i \in 1..l
    OBVIOUS
  <2>2. QED
    BY <1>1, <1>4, <1>c, <2>1, Zenon
<1>11. HitsInOrder'
  <2>1. ASSUME NEW i \in DOMAIN hits', NEW j \in DOMAIN hits', i <= j
        PROVE  hits'[i].locked <= hits'[j].locked
    <3>1. CASE j = last
      <4>1. CASE i = last
        <5>1. hits'[last].locked = clock
          BY <1>4 DEF new
        <5>2. QED
          BY <1>1, <3>1, <4>1, <5>1
      <4>2. CASE i # last
        <5>1. i \in DOMAIN hits
          BY <1>d, <4>2
        <5>2. QED
          BY <1>4, <3>1, <5>1 DEF LimiterInv, HitsInTime, new
      <4>3. QED
        BY <4>1, <4>2
    <3>2. CASE j # last
      <4>1. i \in DOMAIN hits /\ j \in DOMAIN hits
        <5>1. i # last
          <6>1. j \in DOMAIN hits
            BY <1>d, <3>2
          <6>2. \A x, y \in Nat : x <= y /\ y < last => x # last
            BY <1>3
          <6>3. i \in Nat
            BY <1>4
          <6>4. QED
            BY <1>10, <2>1, <6>1, <6>2, <6>3, Zenon
        <5>2. QED
          BY <1>d, <3>2, <5>1
      <4>2. QED
        BY <1>4, <2>1, <4>1 DEF RefusalInv, HitsInOrder
    <3>3. QED
      BY <3>1, <3>2
  <2>2. QED
    BY <2>1 DEF HitsInOrder
<1>12. ASSUME NEW k \in Keys PROVE BucketInOrder(k)'
  <2>1. \A j \in 1..Len(bucket[k]) : bucket[k][j] \in DOMAIN hits
    BY DEF LimiterInv, BucketOK
  <2>2. BucketInOrder(k)
    BY DEF RefusalInv
  <2>3. CASE k # key
    BY <1>4, <1>8, <2>1, <2>2, <2>3, SMTT(30) DEF BucketInOrder
  <2>4. CASE k = key
    <3>1. \A j \in 1..Len(rest) : /\ n + j - 1 \in 1..Len(bucket[k])
                                  /\ bucket'[k][j] = bucket[k][n + j - 1]
      BY <1>5, <1>7, <2>4 DEF b
    <3>2. \A j \in 1..Len(bucket'[k]) : j \in 1..Len(rest) \/ j = Len(rest) + 1
      BY <1>6, <1>7, <2>4, SMTT(30)
    <3>3. ASSUME NEW j \in 1..Len(bucket'[k]) PROVE hits'[bucket'[k][j]].key = k
      <4>1. CASE j \in 1..Len(rest)
        <5>1. PICK m \in 1..Len(bucket[k]) : bucket'[k][j] = bucket[k][m]
          BY <3>1, <4>1
        <5>2. bucket[k][m] \in DOMAIN hits /\ hits[bucket[k][m]].key = k
          BY <2>1, <2>2 DEF BucketInOrder
        <5>3. hits'[bucket[k][m]] = hits[bucket[k][m]]
          BY <1>4, <5>2
        <5>4. QED
          BY <5>1, <5>2, <5>3
      <4>2. CASE j = Len(rest) + 1
        <5>1. bucket'[k][j] = last
          BY <1>7, <2>4, <4>2
        <5>2. hits'[last].key = key
          BY <1>4 DEF new
        <5>3. QED
          BY <2>4, <5>1, <5>2
      <4>3. QED
        BY <3>2, <4>1, <4>2
    <3>4. ASSUME NEW i \in 1..Len(bucket'[k]), NEW j \in 1..Len(bucket'[k]), i < j
          PROVE  bucket'[k][i] < bucket'[k][j]
      <4>1. i \in 1..Len(rest)
        <5>1. Len(bucket'[k]) = Len(rest) + 1
          BY <1>7, <2>4
        <5>2. i \in 1..(Len(rest) + 1) /\ j \in 1..(Len(rest) + 1)
          BY <3>4, <5>1
        <5>3. QED
          BY <1>6, <3>4, <5>2
      <4>2. CASE j \in 1..Len(rest)
        <5>1. n + i - 1 < n + j - 1
          BY <1>6, <3>4
        <5>2. QED
          BY <2>2, <3>1, <4>1, <4>2, <5>1 DEF BucketInOrder
      <4>3. CASE j = Len(rest) + 1
        BY <1>7, <1>10, <2>1, <2>4, <3>1, <4>1, <4>3
      <4>4. QED
        BY <3>2, <4>2, <4>3
    <3>5. QED
      BY <3>3, <3>4 DEF BucketInOrder
  <2>5. QED
    BY <2>3, <2>4
<1>13. ASSUME NEW s \in Threads, calls'[s].pc = "refused" PROVE LastRefusal(s)'
  <2>1. calls'[s] = calls[s] /\ LastRefusal(s)
    BY <1>9, <1>13 DEF RefusalInv
  <2>2. calls[s].seen \in Nat
    BY <1>1 DEF Calls
  <2>3. calls[s].seen <= Len(hits') /\ calls[s].seen # Len(hits')
    BY <1>1, <1>4, <2>1, <2>2 DEF LastRefusal, last
  <2>4. QED
    BY <2>1, <2>3 DEF LastRefusal
<1>14. RefusalsAreFair'
  <2>1. ASSUME NEW s \in Threads, calls'[s].pc = "refused"
        PROVE  MetLimit(s)'
    <3> DEFINE k == Head(calls[s].todo)
               S == Near(hits, k, calls[s].now)
               T == Near(hits', k, calls[s].now)
    <3>1. calls'[s] = calls[s] /\ Cardinality(S) >= Limit[k] /\ k \in Keys
      <4>1. calls[s].todo # << >> /\ calls[s].todo \in Seq(Keys) /\ calls[s].pc = "refused"
        BY <1>1, <1>9, <2>1 DEF RefusalInv, LastRefusal, Calls
      <4>2. MetLimit(s)
        BY <4>1, FairnessParts DEF RefusalInv
      <4>3. QED
        BY <1>9, <2>1, <4>1, <4>2, HeadTailProperties DEF MetLimit
    <3> HIDE DEF k
    <3>2. S \subseteq T /\ T \subseteq 1..last
      <4>1. ASSUME NEW i \in S PROVE i \in T
        <5>1. i \in DOMAIN hits /\ hits[i].key = k
              /\ hits[i].at >= calls[s].now - Window - LockDelay
          BY <4>1 DEF Near
        <5>2. i \in DOMAIN hits' /\ hits'[i] = hits[i]
          BY <1>1, <1>4, <5>1 DEF last
        <5>3. QED
          BY <5>1, <5>2 DEF Near
      <4>2. T \subseteq DOMAIN hits'
        BY DEF Near
      <4>3. QED
        BY <1>4, <4>1, <4>2
    <3>3. IsFiniteSet(T)
      <4>1. 1 \in Int /\ last \in Int
        BY <1>3
      <4>2. IsFiniteSet(1..last)
        BY <4>1, FS_Interval
      <4>3. QED
        BY <3>2, <4>2, FS_Subset
    <3>4. IsFiniteSet(S) /\ Cardinality(S) <= Cardinality(T)
      BY <3>2, <3>3, FS_Subset
    <3>5. Cardinality(S) \in Nat /\ Cardinality(T) \in Nat /\ Limit[k] \in Nat
      BY <1>1, <3>1, <3>3, <3>4, FS_CardinalityType
    <3> HIDE DEF S, T
    <3>6. Cardinality(T) >= Limit[k]
      BY <3>1, <3>4, <3>5
    <3>7. QED
      BY <3>1, <3>6 DEF T, k, MetLimit
  <2>2. ASSUME NEW r \in Threads, NEW s \in Threads \ {r},
               calls'[r].pc = "refused", calls'[s].pc = "refused",
               Head(calls'[s].todo) = Head(calls'[r].todo), calls'[s].seen = calls'[r].seen
        PROVE  calls'[r].now < calls'[s].retry_at
    BY <1>9, <2>2 DEF RefusalInv, RefusalsAreFair
  <2>3. QED
    BY <2>1, <2>2, FairnessPartsNext
<1>15. QED
  BY <1>11, <1>12, <1>13, <1>14 DEF RefusalInv

LEMMA HitKeepsRefusals ==
  ASSUME LimiterInv, RefusalInv, NEW t \in Threads, Hit(t)
  PROVE  RefusalInv'
<1> DEFINE key == Head(calls[t].todo)
           rest(n) == SubSeq(bucket[key], n, Len(bucket[key]))
<1>1. calls[t].pc = "waiting" /\ UNCHANGED clock
  BY DEF Hit
<1>2. PICK n \in 1..(Len(bucket[key]) + 1) :
        /\ EvictsTo(bucket[key], n, calls[t].now)
        /\ IF Len(rest(n)) >= Limit[key]
           THEN /\ bucket' = [bucket EXCEPT ![key] = rest(n)]
                /\ calls' = [calls EXCEPT ![t].pc = "refused", ![t].seen = Len(hits),
                               ![t].retry_at = clock
                                  + RetryAfter(hits[rest(n)[1]].at, calls[t].now)]
                /\ UNCHANGED hits
           ELSE /\ hits' = Append(hits, [key |-> key, at |-> calls[t].now, locked |-> clock])
                /\ bucket' = [bucket EXCEPT ![key] = Append(rest(n), Len(hits) + 1)]
                /\ calls' = [calls EXCEPT ![t] = IF Len(calls[t].todo) = 1 THEN Resting
                                                 ELSE Waiting(Tail(calls[t].todo))]
  BY DEF Hit
<1>3. CASE Len(rest(n)) >= Limit[key]
  BY <1>1, <1>2, <1>3, RefusalKeepsRefusals DEF Refuses
<1>4. CASE ~(Len(rest(n)) >= Limit[key])
  BY <1>1, <1>2, <1>4, AdmissionKeepsRefusals DEF Admits
<1>5. QED
  BY <1>3, <1>4

LEMMA RefusalInvStep ==
  LimiterInv /\ RefusalInv /\ [LimiterNext]_limiterVars => RefusalInv'
<1> SUFFICES ASSUME LimiterInv, RefusalInv, [LimiterNext]_limiterVars PROVE RefusalInv'
  OBVIOUS
<1>1. CASE \E t \in Threads, keys \in Requests : Call(t, keys)
  BY <1>1, CallKeepsRefusals
<1>2. CASE \E t \in Threads : Hit(t)
  BY <1>2, HitKeepsRefusals
<1>3. CASE Tick \/ UNCHANGED limiterVars
  BY <1>3, TickKeepsRefusals DEF Tick, limiterVars
<1>4. QED
  BY <1>1, <1>2, <1>3 DEF LimiterNext

(* Whoever is refused met the limit, and who comes back after Retry-After   *)
(* is refused again only if a hit was recorded meanwhile.                   *)
THEOREM RefusedFairly == Spec => []RefusalsAreFair
<1>1. Init => LimiterInv /\ RefusalInv
  BY LimiterInvInit, RefusalInvInit DEF Init
<1>2. LimiterInv /\ RefusalInv /\ [Next]_vars => LimiterInv' /\ RefusalInv'
  BY LimiterInvStep, RefusalInvStep DEF Next, vars
<1>3. RefusalInv => RefusalsAreFair
  BY DEF RefusalInv
<1>4. QED
  BY <1>1, <1>2, <1>3, PTL DEF Spec

-------------------------------------------------------------------------------
(* Review and deletion *)

(* What threads at work hold.                                               *)
ThreadsOK ==
  /\ \A r \in Reviewers : reviews[r].pc = "loaded" =>
       /\ reviews[r].case \in Cases
       /\ reviews[r].decision_type \in DECISION_TYPES
       /\ reviews[r].status \in ALL_STATUSES
  /\ \A r \in Readers : reads[r].left # << >> => reads[r].case \in Cases
  /\ worker.pc # "idle" => worker.case \in Cases
  /\ IF sweep.pc = "read" THEN sweep.case \in sweep.todo ELSE sweep.case = None

TypesInv == ReviewTypeOK /\ ThreadsOK

(* Of a case: content and deletion event go together.                       *)
Deleted(c) ==
  /\ ~messages[c] <=> c \in deleted
  /\ evidence[c] = "cleared" => c \in deleted
  /\ c \in deleted => c \in expired /\ c \notin held
  /\ c \in deleted /\ evidence[c] = "shown" => c \in overtaken

(* The sweep is at expired cases without a hold, and a result it did not    *)
(* select came after it looked.                                             *)
SweepOK ==
  /\ sweep.todo \subseteq expired
  /\ sweep.pc = "read" =>
       /\ sweep.case \notin held
       /\ ~sweep.results /\ evidence[sweep.case] # "none" => sweep.case \in overtaken
       /\ sweep.results => evidence[sweep.case] # "none"

DeletionInv == (\A c \in Cases : Deleted(c)) /\ SweepOK

(* The order of a reader: evidence it saw cleared means messages it will    *)
(* not see.                                                                 *)
ReadOK(r) ==
  \/ reads[r].left = ResponseOrder /\ reads[r].evidence = "none"
  \/ /\ reads[r].left = << "messages" >>
     /\ reads[r].evidence = "cleared" => ~messages[reads[r].case]
  \/ /\ reads[r].left = << >>
     /\ reads[r].evidence = "cleared" => ~reads[r].messages

AnswerInv == \A r \in Readers : ReadOK(r)

LEMMA Statuses ==
  /\ QUEUED \in ALL_STATUSES /\ ANALYZING \in ALL_STATUSES
  /\ READY_FOR_REVIEW \in ALL_STATUSES /\ UNDER_REVIEW \in ALL_STATUSES
  /\ REFERRED \in ALL_STATUSES /\ CLOSED \in ALL_STATUSES
  /\ MORE_INFO_REQUIRED \in ALL_STATUSES
  /\ PROCESSING_FAILED \in ALL_STATUSES /\ DLQ_INVESTIGATION \in ALL_STATUSES
BY DEF ALL_STATUSES, TRANSITIONS, QUEUED, ANALYZING, READY_FOR_REVIEW, UNDER_REVIEW, REFERRED,
       CLOSED, MORE_INFO_REQUIRED, PROCESSING_FAILED, DLQ_INVESTIGATION

(* Where the edges to the statuses of a decision come from.                 *)
LEMMA DecisionEdges ==
  ASSUME NEW status \in ALL_STATUSES
  PROVE  /\ REFERRED \in TRANSITIONS[status] => status = UNDER_REVIEW
         /\ MORE_INFO_REQUIRED \in TRANSITIONS[status] => status = UNDER_REVIEW
         /\ CLOSED \in TRANSITIONS[status] =>
              status \in {UNDER_REVIEW, VALIDATION_FAILED, DLQ_INVESTIGATION}
BY DEF ALL_STATUSES, TRANSITIONS, SUBMITTED, VALIDATING, PRIVACY_PROCESSING, QUEUED, ANALYZING,
       READY_FOR_REVIEW, UNDER_REVIEW, REFERRED, CLOSED, MORE_INFO_REQUIRED, VALIDATION_FAILED,
       PROCESSING_FAILED, DLQ_INVESTIGATION

(* The status a decision other than monitor leads to.                       *)
LEMMA DecisionStatus ==
  ASSUME NEW decision_type \in DECISION_TYPES, decision_type # "monitor"
  PROVE  STATUS_BY_DECISION[decision_type] \in {REFERRED, CLOSED, MORE_INFO_REQUIRED}
BY DEF DECISION_TYPES, STATUS_BY_DECISION

(* Where a decision's path leads, if it is valid.                           *)
LEMMA DecisionPath ==
  ASSUME NEW status \in ALL_STATUSES, NEW decision_type \in DECISION_TYPES,
         NEW path, path = StatusPath(status, decision_type), IsValidPath(path)
  PROVE  IF decision_type = "monitor"
         THEN IF status = READY_FOR_REVIEW
              THEN Len(path) # 1 /\ Last(path) = UNDER_REVIEW
              ELSE Len(path) = 1
         ELSE /\ Len(path) # 1 /\ Last(path) = STATUS_BY_DECISION[decision_type]
              /\ status \in {READY_FOR_REVIEW, UNDER_REVIEW, VALIDATION_FAILED,
                            DLQ_INVESTIGATION}
<1> DEFINE X == STATUS_BY_DECISION[decision_type]
<1>1. CASE decision_type = "monitor" /\ status = READY_FOR_REVIEW
  <2>1. path = << status, UNDER_REVIEW >>
    BY <1>1 DEF StatusPath
  <2>2. QED
    BY <1>1, <2>1 DEF Last
<1>2. CASE decision_type = "monitor" /\ status # READY_FOR_REVIEW
  <2>1. path = << status >>
    BY <1>2 DEF StatusPath
  <2>2. QED
    BY <1>2, <2>1
<1>3. CASE decision_type # "monitor" /\ status = READY_FOR_REVIEW
  <2>1. path = Append(<< status, UNDER_REVIEW >>, X)
    BY <1>3 DEF StatusPath
  <2>2. X \in ALL_STATUSES /\ << status, UNDER_REVIEW >> \in Seq(ALL_STATUSES)
    BY <1>3, DecisionStatus, Statuses
  <2>3. Len(path) = 3 /\ path[3] = X
    <3>1. Len(<< status, UNDER_REVIEW >>) = 2
      OBVIOUS
    <3>2. QED
      BY <2>1, <2>2, <3>1, AppendProperties
  <2>4. Last(path) = X /\ Len(path) # 1
    BY <2>3 DEF Last
  <2>5. QED
    BY <1>3, <2>4
<1>4. CASE decision_type # "monitor" /\ status # READY_FOR_REVIEW
  <2>1. path = Append(<< status >>, X)
    BY <1>4 DEF StatusPath
  <2>2. X \in ALL_STATUSES /\ << status >> \in Seq(ALL_STATUSES)
    BY <1>4, DecisionStatus, Statuses
  <2>3. Len(path) = 2 /\ path[1] = status /\ path[2] = X
    <3>1. Len(<< status >>) = 1 /\ << status >>[1] = status
      OBVIOUS
    <3>2. QED
      BY <2>1, <2>2, <3>1, AppendProperties
  <2>4. X \in TRANSITIONS[status]
    BY <2>3 DEF IsValidPath, IsValidTransition
  <2>5. status \in {UNDER_REVIEW, VALIDATION_FAILED, DLQ_INVESTIGATION}
    BY <1>4, <2>4, DecisionStatus, DecisionEdges
  <2>6. Last(path) = X /\ Len(path) # 1
    BY <2>3 DEF Last
  <2>7. QED
    BY <1>4, <2>5, <2>6
<1>5. QED
  BY <1>1, <1>2, <1>3, <1>4

LEMMA ReviewInvInit == ReviewInit => TypesInv /\ DeletionInv /\ AnswerInv
<1> SUFFICES ASSUME ReviewInit PROVE TypesInv /\ DeletionInv /\ AnswerInv
  OBVIOUS
<1>1. ReviewTypeOK
  <2>1. QUEUED \in ALL_STATUSES
    BY Statuses
  <2>2. << >> \in Seq({"results", "messages"}) /\ << >> \in Seq(DECISION_TYPES)
    OBVIOUS
  <2>3. QED
    BY <2>1, <2>2 DEF ReviewInit, ReviewTypeOK, NoReview, NoRead, NoSweep, NoJob
<1>2. ThreadsOK
  BY DEF ReviewInit, ThreadsOK, NoReview, NoRead, NoSweep, NoJob
<1>3. DeletionInv
  BY DEF ReviewInit, DeletionInv, Deleted, SweepOK, NoSweep
<1>4. AnswerInv
  BY DEF ReviewInit, AnswerInv, ReadOK, NoRead
<1>5. QED
  BY <1>1, <1>2, <1>3, <1>4 DEF TypesInv

-------------------------------------------------------------------------------
(* The steps of a decision *)

LEMMA LoadCaseStep ==
  ASSUME TypesInv, NEW r \in Reviewers, NEW user \in Users, NEW c \in Cases,
         NEW decision_type \in DECISION_TYPES, LoadCase(r, user, c, decision_type)
  PROVE  TypesInv'
<1>1. /\ reviews' = [reviews EXCEPT ![r] = Loaded(c, decision_type)]
      /\ UNCHANGED <<rows, expired, worker, reads, sweep>>
  BY DEF LoadCase
<1>2. caseStatus[c] \in ALL_STATUSES
  BY DEF TypesInv, ReviewTypeOK
<1>3. QED
  BY <1>1, <1>2 DEF TypesInv, ReviewTypeOK, ThreadsOK, Loaded, rows

(* What recording a decision changes.                                       *)
LEMMA RecordDecisionStep ==
  ASSUME TypesInv, NEW r \in Reviewers, RecordDecision(r)
  PROVE  LET c == reviews[r].case
             decision_type == reviews[r].decision_type
             path == StatusPath(reviews[r].status, decision_type)
         IN  /\ c \in Cases /\ decision_type \in DECISION_TYPES
             /\ reviews[r].pc = "loaded"
             /\ IsValidPath(path)
             /\ caseStatus' =
                  [caseStatus EXCEPT ![c] = IF Len(path) = 1 THEN caseStatus[c] ELSE Last(path)]
             /\ decisions' = [decisions EXCEPT ![c] = Append(decisions[c], decision_type)]
             /\ reviews' = [reviews EXCEPT ![r] = NoReview]
             /\ UNCHANGED <<held, messages, evidence, deleted, overtaken, expired, worker, reads,
                            sweep>>
BY DEF RecordDecision, TypesInv, ThreadsOK

LEMMA RecordDecisionTypes ==
  ASSUME TypesInv, NEW r \in Reviewers, RecordDecision(r), reviews[r].status \in ALL_STATUSES
  PROVE  TypesInv'
<1> DEFINE c == reviews[r].case
           decision_type == reviews[r].decision_type
           path == StatusPath(reviews[r].status, decision_type)
<1>1. /\ c \in Cases /\ decision_type \in DECISION_TYPES /\ IsValidPath(path)
      /\ caseStatus' =
           [caseStatus EXCEPT ![c] = IF Len(path) = 1 THEN caseStatus[c] ELSE Last(path)]
      /\ decisions' = [decisions EXCEPT ![c] = Append(decisions[c], decision_type)]
      /\ reviews' = [reviews EXCEPT ![r] = NoReview]
      /\ UNCHANGED <<held, messages, evidence, deleted, overtaken, expired, worker, reads, sweep>>
  BY RecordDecisionStep
<1> HIDE DEF path
<1>2. Len(path) # 1 => Last(path) \in ALL_STATUSES
  BY <1>1, DecisionPath, DecisionStatus, Statuses DEF path
<1>3. Append(decisions[c], decision_type) \in Seq(DECISION_TYPES)
  BY <1>1, AppendProperties DEF TypesInv, ReviewTypeOK
<1>4. caseStatus' \in [Cases -> ALL_STATUSES] /\ decisions' \in [Cases -> Seq(DECISION_TYPES)]
  BY <1>1, <1>2, <1>3 DEF TypesInv, ReviewTypeOK
<1>5. QED
  BY <1>1, <1>4 DEF TypesInv, ReviewTypeOK, ThreadsOK, NoReview

LEMMA TypesInvStep ==
  ASSUME TypesInv, [ReviewNext]_reviewVars
  PROVE  TypesInv'
<1>1. ASSUME NEW r \in Reviewers, NEW user \in Users, NEW c \in Cases,
             NEW decision_type \in DECISION_TYPES, LoadCase(r, user, c, decision_type)
      PROVE  TypesInv'
  BY <1>1, LoadCaseStep
<1>2. ASSUME NEW r \in Reviewers, RecordDecision(r)
      PROVE  TypesInv'
  <2>1. reviews[r].status \in ALL_STATUSES
    BY <1>2 DEF RecordDecision, TypesInv, ThreadsOK
  <2>2. QED
    BY <1>2, <2>1, RecordDecisionTypes
<1>3. ASSUME NEW r \in Reviewers, RefuseDecision(r)
      PROVE  TypesInv'
  BY <1>3 DEF RefuseDecision, TypesInv, ReviewTypeOK, ThreadsOK, NoReview, rows
<1>4. ASSUME NEW r \in Readers, NEW user \in Users, NEW c \in Cases, ReadCase(r, user, c)
      PROVE  TypesInv'
  <2>1. ResponseOrder \in Seq({"results", "messages"})
    BY DEF ResponseOrder
  <2>2. QED
    BY <1>4, <2>1 DEF ReadCase, TypesInv, ReviewTypeOK, ThreadsOK, NoRead, rows
<1>5. ASSUME NEW r \in Readers, ReadResults(r) \/ ReadMessages(r)
      PROVE  TypesInv'
  <2>1. reads[r].left # << >> /\ reads[r].left \in Seq({"results", "messages"})
    BY <1>5 DEF ReadResults, ReadMessages, TypesInv, ReviewTypeOK
  <2>2. Tail(reads[r].left) \in Seq({"results", "messages"})
    BY <2>1, HeadTailProperties
  <2>3. reads[r].case \in Cases
    BY <2>1 DEF TypesInv, ThreadsOK
  <2>4. QED
    <3>1. CASE ReadResults(r)
      <4>1. reads' = [reads EXCEPT ![r].left = Tail(reads[r].left),
                                   ![r].evidence = evidence[reads[r].case]]
        BY <3>1 DEF ReadResults
      <4>2. reads[r] \in [pc : {"idle", "reading"}, left : Seq({"results", "messages"}),
                          case : Cases \cup {None}, evidence : {"none", "shown", "cleared"},
                          messages : BOOLEAN]
        BY <1>5 DEF TypesInv, ReviewTypeOK
      <4>3. evidence[reads[r].case] \in {"none", "shown", "cleared"}
        BY <2>3 DEF TypesInv, ReviewTypeOK
      <4>4. reads' \in [Readers ->
                         [pc : {"idle", "reading"}, left : Seq({"results", "messages"}),
                          case : Cases \cup {None}, evidence : {"none", "shown", "cleared"},
                          messages : BOOLEAN]]
        BY <1>5, <2>2, <4>1, <4>2, <4>3 DEF TypesInv, ReviewTypeOK
      <4>5. \A q \in Readers : reads'[q].case = reads[q].case /\ (q # r => reads'[q] = reads[q])
        BY <4>1 DEF TypesInv, ReviewTypeOK
      <4>6. QED
        BY <2>3, <3>1, <4>4, <4>5 DEF ReadResults, TypesInv, ReviewTypeOK, ThreadsOK, rows
    <3>2. CASE ReadMessages(r)
      <4>1. reads' = [reads EXCEPT ![r].left = Tail(reads[r].left),
                                   ![r].messages = messages[reads[r].case]]
        BY <3>2 DEF ReadMessages
      <4>2. reads[r] \in [pc : {"idle", "reading"}, left : Seq({"results", "messages"}),
                          case : Cases \cup {None}, evidence : {"none", "shown", "cleared"},
                          messages : BOOLEAN]
        BY <1>5 DEF TypesInv, ReviewTypeOK
      <4>3. messages[reads[r].case] \in BOOLEAN
        BY <2>3 DEF TypesInv, ReviewTypeOK
      <4>4. reads' \in [Readers ->
                         [pc : {"idle", "reading"}, left : Seq({"results", "messages"}),
                          case : Cases \cup {None}, evidence : {"none", "shown", "cleared"},
                          messages : BOOLEAN]]
        BY <1>5, <2>2, <4>1, <4>2, <4>3 DEF TypesInv, ReviewTypeOK
      <4>5. \A q \in Readers : reads'[q].case = reads[q].case /\ (q # r => reads'[q] = reads[q])
        BY <4>1 DEF TypesInv, ReviewTypeOK
      <4>6. QED
        BY <2>3, <3>2, <4>4, <4>5 DEF ReadMessages, TypesInv, ReviewTypeOK, ThreadsOK, rows
    <3>3. QED
      BY <1>5, <3>1, <3>2
<1>6. ASSUME NEW c \in Cases, StartJob(c) \/ ResolveDLQEntry(c)
      PROVE  TypesInv'
  <2>1. caseStatus' \in [Cases -> ALL_STATUSES]
    <3>1. PICK status \in ALL_STATUSES : caseStatus' = [caseStatus EXCEPT ![c] = status]
      BY <1>6, Statuses DEF StartJob, ResolveDLQEntry
    <3>2. QED
      BY <3>1 DEF TypesInv, ReviewTypeOK
  <2>2. CASE StartJob(c)
    BY <1>6, <2>1, <2>2 DEF StartJob, TypesInv, ReviewTypeOK, ThreadsOK, NoJob
  <2>3. CASE ResolveDLQEntry(c)
    BY <2>1, <2>3 DEF ResolveDLQEntry, TypesInv, ReviewTypeOK, ThreadsOK, threads
  <2>4. QED
    BY <1>6, <2>2, <2>3
<1>7. CASE LoadMessages
  <2>1. worker.case \in Cases
    BY <1>7 DEF LoadMessages, TypesInv, ThreadsOK
  <2>2. messages[worker.case] \in BOOLEAN
    BY <2>1 DEF TypesInv, ReviewTypeOK
  <2>3. QED
    BY <1>7, <2>1, <2>2 DEF LoadMessages, TypesInv, ReviewTypeOK, ThreadsOK, rows
<1>8. CASE Publish
  <2>1. worker.case \in Cases
    BY <1>8 DEF Publish, TypesInv, ThreadsOK
  <2>2. QED
    BY <1>8, <2>1, Statuses DEF Publish, TypesInv, ReviewTypeOK, ThreadsOK, NoJob
<1>9. CASE FailJob \/ DeadLetter
  <2>1. worker.case \in Cases
    BY <1>9 DEF FailJob, DeadLetter, TypesInv, ThreadsOK
  <2>2. CASE FailJob
    <3>1. PICK status \in ALL_STATUSES :
            caseStatus' = [caseStatus EXCEPT ![worker.case] = status]
      BY <2>2, Statuses DEF FailJob
    <3>2. caseStatus' \in [Cases -> ALL_STATUSES]
      BY <3>1 DEF TypesInv, ReviewTypeOK
    <3>3. worker' = NoJob \/ worker' = [worker EXCEPT !.pc = "failing"]
      BY <2>2 DEF FailJob
    <3>4. worker' \in [pc : {"idle", "started", "loaded", "failing"},
                      case : Cases \cup {None}, messages : BOOLEAN]
          /\ (worker'.pc # "idle" => worker'.case \in Cases)
      <4>1. worker \in [pc : {"idle", "started", "loaded", "failing"},
                        case : Cases \cup {None}, messages : BOOLEAN]
        BY DEF TypesInv, ReviewTypeOK
      <4>2. [worker EXCEPT !.pc = "failing"] \in
              [pc : {"idle", "started", "loaded", "failing"}, case : Cases \cup {None},
               messages : BOOLEAN]
            /\ [worker EXCEPT !.pc = "failing"].case = worker.case
        BY <4>1
      <4>3. NoJob \in [pc : {"idle", "started", "loaded", "failing"}, case : Cases \cup {None},
                       messages : BOOLEAN]
            /\ NoJob.pc = "idle"
        BY DEF NoJob
      <4>4. QED
        BY <2>1, <3>3, <4>2, <4>3
    <3>5. QED
      BY <2>2, <3>2, <3>4 DEF FailJob, TypesInv, ReviewTypeOK, ThreadsOK
  <2>3. CASE DeadLetter
    <3>1. PICK status \in ALL_STATUSES :
            caseStatus' = [caseStatus EXCEPT ![worker.case] = status]
      BY <2>3, Statuses DEF DeadLetter
    <3>2. caseStatus' \in [Cases -> ALL_STATUSES]
      BY <3>1 DEF TypesInv, ReviewTypeOK
    <3>3. QED
      BY <2>3, <3>2 DEF DeadLetter, TypesInv, ReviewTypeOK, ThreadsOK, NoJob
  <2>4. QED
    BY <1>9, <2>2, <2>3
<1>10. ASSUME NEW c \in Cases, Expire(c) \/ SweepDefer(c) \/ SweepSelect(c)
       PROVE  TypesInv'
  <2>1. CASE Expire(c)
    BY <1>10, <2>1 DEF Expire, TypesInv, ReviewTypeOK, ThreadsOK, rows, threads
  <2>2. CASE SweepDefer(c)
    BY <1>10, <2>2 DEF SweepDefer, TypesInv, ReviewTypeOK, ThreadsOK, rows
  <2>3. CASE SweepSelect(c)
    BY <1>10, <2>3 DEF SweepSelect, TypesInv, ReviewTypeOK, ThreadsOK, rows
  <2>4. QED
    BY <1>10, <2>1, <2>2, <2>3
<1>11. CASE BeginSweep
  <2>1. expired \in SUBSET Cases
    BY DEF TypesInv, ReviewTypeOK
  <2>2. QED
    BY <1>11, <2>1 DEF BeginSweep, TypesInv, ReviewTypeOK, ThreadsOK, NoSweep, rows
<1>12. CASE SweepCommit
  <2>1. sweep.case \in Cases
    BY <1>12 DEF SweepCommit, TypesInv, ReviewTypeOK, ThreadsOK
  <2>2. QED
    BY <1>12, <2>1 DEF SweepCommit, TypesInv, ReviewTypeOK, ThreadsOK
<1>13. CASE EndSweep
  BY <1>13 DEF EndSweep, TypesInv, ReviewTypeOK, ThreadsOK, NoSweep, rows
<1>14. CASE Crash
  <2>1. caseStatus' \in [Cases -> ALL_STATUSES]
    <3>1. CASE worker.pc \in {"idle", "failing"}
      BY <1>14, <3>1 DEF Crash, TypesInv, ReviewTypeOK
    <3>2. CASE worker.pc \notin {"idle", "failing"}
      <4>1. PICK status \in ALL_STATUSES :
              caseStatus' = [caseStatus EXCEPT ![worker.case] = status]
        BY <1>14, <3>2, Statuses DEF Crash
      <4>2. QED
        BY <4>1 DEF TypesInv, ReviewTypeOK
    <3>3. QED
      BY <3>1, <3>2
  <2>2. << >> \in Seq({"results", "messages"})
    OBVIOUS
  <2>3. QED
    BY <1>14, <2>1, <2>2 DEF Crash, TypesInv, ReviewTypeOK, ThreadsOK, NoJob, NoReview, NoRead, NoSweep
<1>15. CASE UNCHANGED reviewVars
  BY <1>15 DEF reviewVars, TypesInv, ReviewTypeOK, ThreadsOK
<1>16. QED
  BY <1>1, <1>2, <1>3, <1>4, <1>5, <1>6, <1>7, <1>8, <1>9, <1>10, <1>11, <1>12, <1>13, <1>14,
     <1>15 DEF ReviewNext

-------------------------------------------------------------------------------
(* Content and deletion events *)

LEMMA DeletionInvStep ==
  ASSUME TypesInv, DeletionInv, [ReviewNext]_reviewVars
  PROVE  DeletionInv'
<1> DEFINE contents == <<held, messages, evidence, deleted, overtaken, expired>>
<1>1. CASE UNCHANGED <<contents, sweep>>
  BY <1>1 DEF DeletionInv, Deleted, SweepOK
<1>2. CASE Publish
  <2>1. /\ worker.case \in Cases
        /\ evidence' = [evidence EXCEPT ![worker.case] = "shown"]
        /\ overtaken' = IF worker.case \in deleted \/ sweep.case = worker.case
                        THEN overtaken \cup {worker.case} ELSE overtaken
        /\ UNCHANGED <<held, messages, deleted, expired, sweep>>
    BY <1>2 DEF Publish, TypesInv, ThreadsOK
  <2>2. ASSUME NEW c \in Cases PROVE Deleted(c)'
    BY <2>1 DEF DeletionInv, Deleted, TypesInv, ReviewTypeOK
  <2>3. SweepOK'
    BY <2>1 DEF DeletionInv, SweepOK, TypesInv, ReviewTypeOK, ThreadsOK
  <2>4. QED
    BY <2>2, <2>3 DEF DeletionInv
<1>3. ASSUME NEW c \in Cases, Expire(c)
      PROVE  DeletionInv'
  BY <1>3 DEF Expire, DeletionInv, Deleted, SweepOK, rows, threads
<1>4. CASE BeginSweep
  BY <1>4 DEF BeginSweep, DeletionInv, Deleted, SweepOK, NoSweep, rows
<1>5. ASSUME NEW c \in Cases, SweepDefer(c)
      PROVE  DeletionInv'
  BY <1>5 DEF SweepDefer, DeletionInv, Deleted, SweepOK, rows, TypesInv, ReviewTypeOK
<1>6. ASSUME NEW c \in Cases, SweepSelect(c)
      PROVE  DeletionInv'
  BY <1>6 DEF SweepSelect, DeletionInv, Deleted, SweepOK, rows, TypesInv, ReviewTypeOK
<1>7. CASE SweepCommit
  <2>1. sweep.case \in Cases /\ sweep.case \in expired /\ sweep.case \notin held
    BY <1>7 DEF SweepCommit, TypesInv, ReviewTypeOK, ThreadsOK, DeletionInv, SweepOK
  <2>2. ASSUME NEW c \in Cases PROVE Deleted(c)'
    <3>1. CASE c # sweep.case
      BY <1>7, <2>1, <3>1 DEF SweepCommit, DeletionInv, Deleted, TypesInv, ReviewTypeOK
    <3>2. CASE c = sweep.case
      BY <1>7, <2>1, <3>2 DEF SweepCommit, DeletionInv, Deleted, SweepOK, TypesInv, ReviewTypeOK
    <3>3. QED
      BY <3>1, <3>2
  <2>3. SweepOK'
    BY <1>7 DEF SweepCommit, DeletionInv, SweepOK, TypesInv, ReviewTypeOK
  <2>4. QED
    BY <2>2, <2>3 DEF DeletionInv
<1>8. CASE EndSweep \/ Crash
  BY <1>8 DEF EndSweep, Crash, DeletionInv, Deleted, SweepOK, NoSweep, rows
<1>9. QED
  <2>1. ASSUME NEW r \in Reviewers, NEW user \in Users, NEW c \in Cases,
               NEW decision_type \in DECISION_TYPES, LoadCase(r, user, c, decision_type)
        PROVE  UNCHANGED <<contents, sweep>>
    BY <2>1 DEF LoadCase, rows
  <2>2. ASSUME NEW r \in Reviewers, RecordDecision(r) \/ RefuseDecision(r)
        PROVE  UNCHANGED <<contents, sweep>>
    BY <2>2 DEF RecordDecision, RefuseDecision, rows
  <2>3. ASSUME NEW r \in Readers, NEW user \in Users, NEW c \in Cases, ReadCase(r, user, c)
        PROVE  UNCHANGED <<contents, sweep>>
    BY <2>3 DEF ReadCase, rows
  <2>4. ASSUME NEW r \in Readers, ReadResults(r) \/ ReadMessages(r)
        PROVE  UNCHANGED <<contents, sweep>>
    BY <2>4 DEF ReadResults, ReadMessages, rows
  <2>5. ASSUME NEW c \in Cases, StartJob(c) \/ ResolveDLQEntry(c)
        PROVE  UNCHANGED <<contents, sweep>>
    BY <2>5 DEF StartJob, ResolveDLQEntry, threads
  <2>6. LoadMessages \/ FailJob \/ DeadLetter \/ UNCHANGED reviewVars
          => UNCHANGED <<contents, sweep>>
    BY DEF LoadMessages, FailJob, DeadLetter, reviewVars, rows
  <2> HIDE DEF contents
  <2>7. QED
    BY <1>1, <1>2, <1>3, <1>4, <1>5, <1>6, <1>7, <1>8, <2>1, <2>2, <2>3, <2>4, <2>5, <2>6
       DEF ReviewNext

-------------------------------------------------------------------------------
(* Answers *)

LEMMA AnswerInvStep ==
  ASSUME TypesInv, DeletionInv, AnswerInv, [ReviewNext]_reviewVars
  PROVE  AnswerInv'
<1>1. CASE UNCHANGED <<messages, reads>>
  BY <1>1 DEF AnswerInv, ReadOK
<1>2. CASE SweepCommit
  <2>1. messages' = [messages EXCEPT ![sweep.case] = FALSE] /\ UNCHANGED reads
    BY <1>2 DEF SweepCommit
  <2>2. \A c \in Cases : messages'[c] => messages[c]
    BY <2>1 DEF TypesInv, ReviewTypeOK
  <2>3. ASSUME NEW r \in Readers PROVE ReadOK(r)'
    <3>1. ReadOK(r)
      BY DEF AnswerInv
    <3>2. CASE reads[r].left = << "messages" >>
      <4>1. reads[r].case \in Cases
        <5>1. << "messages" >> # << >>
          OBVIOUS
        <5>2. QED
          BY <3>2, <5>1 DEF TypesInv, ThreadsOK
      <4>2. QED
        BY <2>1, <2>2, <3>1, <3>2, <4>1 DEF ReadOK, ResponseOrder
    <3>3. CASE reads[r].left # << "messages" >>
      BY <2>1, <3>1, <3>3 DEF ReadOK
    <3>4. QED
      BY <3>2, <3>3
  <2>4. QED
    BY <2>3 DEF AnswerInv
<1>3. ASSUME NEW r \in Readers, NEW user \in Users, NEW c \in Cases, ReadCase(r, user, c)
      PROVE  AnswerInv'
  BY <1>3 DEF ReadCase, AnswerInv, ReadOK, NoRead, rows, TypesInv, ReviewTypeOK
<1>4. ASSUME NEW r \in Readers, ReadResults(r)
      PROVE  AnswerInv'
  <2>1. /\ reads[r].left = ResponseOrder
        /\ reads[r].case \in Cases
    BY <1>4 DEF ReadResults, AnswerInv, ReadOK, TypesInv, ThreadsOK
  <2>2. Tail(reads[r].left) = << "messages" >>
    BY <2>1 DEF ResponseOrder
  <2>3. evidence[reads[r].case] = "cleared" => ~messages[reads[r].case]
    BY <2>1 DEF DeletionInv, Deleted
  <2>4. QED
    BY <1>4, <2>1, <2>2, <2>3 DEF ReadResults, AnswerInv, ReadOK, rows, TypesInv, ReviewTypeOK
<1>5. ASSUME NEW r \in Readers, ReadMessages(r)
      PROVE  AnswerInv'
  <2>1. reads[r].left = << "messages" >>
    BY <1>5 DEF ReadMessages, AnswerInv, ReadOK, ResponseOrder
  <2>2. Tail(reads[r].left) = << >>
    BY <2>1
  <2>3. QED
    <3>1. /\ reads' = [reads EXCEPT ![r].left = << >>, ![r].messages = messages[reads[r].case]]
          /\ UNCHANGED messages
      BY <1>5, <2>2 DEF ReadMessages, rows
    <3>2. << "messages" >> # << >> /\ ResponseOrder # << "messages" >>
      BY DEF ResponseOrder
    <3>3. reads[r].evidence = "cleared" => ~messages[reads[r].case]
      BY <2>1, <3>2 DEF AnswerInv, ReadOK
    <3>4. /\ reads'[r].left = << >>
          /\ reads'[r].messages = messages[reads[r].case]
          /\ reads'[r].evidence = reads[r].evidence
      BY <3>1 DEF TypesInv, ReviewTypeOK
    <3>5. ReadOK(r)'
      BY <3>3, <3>4 DEF ReadOK
    <3>6. ASSUME NEW q \in Readers, q # r PROVE ReadOK(q)'
      BY <3>1, <3>6 DEF AnswerInv, ReadOK, TypesInv, ReviewTypeOK
    <3>7. QED
      BY <3>5, <3>6 DEF AnswerInv
<1>6. CASE Crash
  BY <1>6 DEF Crash, AnswerInv, ReadOK, NoRead
<1>7. QED
  <2>1. ASSUME NEW r \in Reviewers, NEW user \in Users, NEW c \in Cases,
               NEW decision_type \in DECISION_TYPES, LoadCase(r, user, c, decision_type)
        PROVE  UNCHANGED <<messages, reads>>
    BY <2>1 DEF LoadCase, rows
  <2>2. ASSUME NEW r \in Reviewers, RecordDecision(r) \/ RefuseDecision(r)
        PROVE  UNCHANGED <<messages, reads>>
    BY <2>2 DEF RecordDecision, RefuseDecision, rows
  <2>3. ASSUME NEW c \in Cases, StartJob(c) \/ ResolveDLQEntry(c)
        PROVE  UNCHANGED <<messages, reads>>
    BY <2>3 DEF StartJob, ResolveDLQEntry, threads
  <2>4. ASSUME NEW c \in Cases, Expire(c) \/ SweepDefer(c) \/ SweepSelect(c)
        PROVE  UNCHANGED <<messages, reads>>
    BY <2>4 DEF Expire, SweepDefer, SweepSelect, rows, threads
  <2>5. LoadMessages \/ Publish \/ FailJob \/ DeadLetter \/ BeginSweep \/ EndSweep
          \/ UNCHANGED reviewVars => UNCHANGED <<messages, reads>>
    BY DEF LoadMessages, Publish, FailJob, DeadLetter, BeginSweep, EndSweep, reviewVars, rows
  <2>6. QED
    BY <1>1, <1>2, <1>3, <1>4, <1>5, <1>6, <2>1, <2>2, <2>3, <2>4, <2>5 DEF ReviewNext

-------------------------------------------------------------------------------
(* Decisions *)

(* The statuses of a case the worker has no result for.                     *)
PROCESSING == {QUEUED, ANALYZING, PROCESSING_FAILED, DLQ_INVESTIGATION}

(* A case's status tells its decisions, and evidence comes with a result.   *)
Decided(c) ==
  /\ caseStatus[c] \in PROCESSING \cup {READY_FOR_REVIEW, UNDER_REVIEW, REFERRED, CLOSED,
                                        MORE_INFO_REQUIRED}
  /\ caseStatus[c] \in PROCESSING => evidence[c] = "none"
  /\ \A i, j \in FinalDecisions(c) : i = j
  /\ \A i \in FinalDecisions(c) : caseStatus[c] = STATUS_BY_DECISION[decisions[c][i]]
  /\ caseStatus[c] \in {REFERRED, MORE_INFO_REQUIRED} => FinalDecisions(c) # {}
  /\ caseStatus[c] = CLOSED => FinalDecisions(c) # {} \/ evidence[c] = "none"
  /\ caseStatus[c] = UNDER_REVIEW => decisions[c] # << >>

(* Who holds the lock of a case has its present status.                     *)
LocksOK ==
  /\ \A r, s \in Reviewers :
       reviews[r].pc = "loaded" /\ reviews[s].pc = "loaded" /\ reviews[r].case = reviews[s].case
         => r = s
  /\ \A r \in Reviewers :
       reviews[r].pc = "loaded" => reviews[r].status = caseStatus[reviews[r].case]
  /\ worker.pc # "idle" =>
       caseStatus[worker.case] = IF worker.pc = "failing" THEN PROCESSING_FAILED ELSE ANALYZING

DecisionInv == RowLocks => LocksOK /\ \A c \in Cases : Decided(c)

(* A step that leaves the decisions as they are, and moves one case between *)
(* statuses without a decision.                                             *)
LEMMA DecidedMoves ==
  ASSUME TypesInv, RowLocks, NEW c \in Cases, Decided(c), decisions' = decisions,
         caseStatus[c] \in PROCESSING,
         caseStatus'[c] \in PROCESSING \cup {READY_FOR_REVIEW, CLOSED},
         caseStatus'[c] # READY_FOR_REVIEW => evidence'[c] = evidence[c]
  PROVE  Decided(c)'
<1>1. ASSUME NEW i \in FinalDecisions(c) PROVE FALSE
  <2>1. i \in DOMAIN decisions[c] /\ decisions[c][i] # "monitor" /\ decisions[c][i] \in DECISION_TYPES
    BY <1>1 DEF FinalDecisions, TypesInv, ReviewTypeOK
  <2>2. caseStatus[c] \in {REFERRED, CLOSED, MORE_INFO_REQUIRED}
    BY <1>1, <2>1, DecisionStatus DEF Decided
  <2>3. QED
    BY <2>2 DEF PROCESSING, QUEUED, ANALYZING, PROCESSING_FAILED, DLQ_INVESTIGATION, REFERRED,
         CLOSED, MORE_INFO_REQUIRED
<1>2. FinalDecisions(c)' = {}
  <2>1. FinalDecisions(c)' = FinalDecisions(c)
    BY DEF FinalDecisions
  <2>2. QED
    BY <1>1, <2>1
<1>3. caseStatus'[c] \notin {REFERRED, MORE_INFO_REQUIRED, UNDER_REVIEW}
  BY DEF PROCESSING, QUEUED, ANALYZING, PROCESSING_FAILED, DLQ_INVESTIGATION, READY_FOR_REVIEW,
         CLOSED, REFERRED, MORE_INFO_REQUIRED, UNDER_REVIEW
<1>4. caseStatus'[c] # READY_FOR_REVIEW => evidence'[c] = "none"
  BY DEF Decided
<1>5. READY_FOR_REVIEW \notin PROCESSING \cup {CLOSED}
  BY DEF PROCESSING, QUEUED, ANALYZING, PROCESSING_FAILED, DLQ_INVESTIGATION, READY_FOR_REVIEW,
         CLOSED
<1>6. QED
  BY <1>2, <1>3, <1>4, <1>5 DEF Decided

(* A decision recorded by the holder of the lock.                           *)
LEMMA RecordKeepsDecided ==
  ASSUME TypesInv, RowLocks, LocksOK, NEW r \in Reviewers, RecordDecision(r),
         NEW c \in Cases, c = reviews[r].case, Decided(c),
         NEW decision_type, decision_type = reviews[r].decision_type
  PROVE  Decided(c)'
<1> DEFINE path == StatusPath(reviews[r].status, decision_type)
<1>1. /\ decision_type \in DECISION_TYPES /\ IsValidPath(path)
      /\ reviews[r].pc = "loaded"
      /\ caseStatus' =
           [caseStatus EXCEPT ![c] = IF Len(path) = 1 THEN caseStatus[c] ELSE Last(path)]
      /\ decisions' = [decisions EXCEPT ![c] = Append(decisions[c], decision_type)]
      /\ UNCHANGED evidence
  BY RecordDecisionStep
<1>2. reviews[r].status = caseStatus[c] /\ caseStatus[c] \in ALL_STATUSES
  BY <1>1 DEF LocksOK, TypesInv, ReviewTypeOK
<1> HIDE DEF path
<1>3. IF decision_type = "monitor"
      THEN IF caseStatus[c] = READY_FOR_REVIEW
           THEN Len(path) # 1 /\ Last(path) = UNDER_REVIEW
           ELSE Len(path) = 1
      ELSE /\ Len(path) # 1 /\ Last(path) = STATUS_BY_DECISION[decision_type]
           /\ caseStatus[c] \in {READY_FOR_REVIEW, UNDER_REVIEW, VALIDATION_FAILED,
                                DLQ_INVESTIGATION}
  BY <1>1, <1>2, DecisionPath DEF path
<1> DEFINE n == Len(decisions[c]) + 1
<1>4. /\ decisions[c] \in Seq(DECISION_TYPES)
      /\ DOMAIN decisions[c] = 1..Len(decisions[c]) /\ Len(decisions[c]) \in Nat
      /\ DOMAIN decisions'[c] = 1..n
      /\ \A i \in 1..Len(decisions[c]) : decisions'[c][i] = decisions[c][i]
      /\ decisions'[c][n] = decision_type
      /\ decisions'[c] # << >>
  <2>1. decisions[c] \in Seq(DECISION_TYPES) /\ decisions'[c] = Append(decisions[c], decision_type)
    BY <1>1 DEF TypesInv, ReviewTypeOK
  <2>2. QED
    BY <1>1, <2>1, AppendProperties, SMTT(30)
<1>5. caseStatus'[c] = IF Len(path) = 1 THEN caseStatus[c] ELSE Last(path)
  BY <1>1 DEF TypesInv, ReviewTypeOK
<1>6. CASE decision_type = "monitor"
  <2>1. FinalDecisions(c)' = FinalDecisions(c)
    <3>1. FinalDecisions(c)' \subseteq FinalDecisions(c)
      BY <1>4, <1>6 DEF FinalDecisions
    <3>2. FinalDecisions(c) \subseteq FinalDecisions(c)'
      BY <1>4, <1>6 DEF FinalDecisions
    <3>3. QED
      BY <3>1, <3>2
  <2>2. \A i \in FinalDecisions(c) : decisions'[c][i] = decisions[c][i]
    BY <1>4 DEF FinalDecisions
  <2>3. CASE caseStatus[c] = READY_FOR_REVIEW
    <3>1. caseStatus'[c] = UNDER_REVIEW
      BY <1>3, <1>5, <1>6, <2>3
    <3>2. FinalDecisions(c) = {}
      <4>1. ASSUME NEW i \in FinalDecisions(c) PROVE FALSE
        <5>1. decisions[c][i] # "monitor" /\ decisions[c][i] \in DECISION_TYPES
          BY <1>4, <4>1 DEF FinalDecisions
        <5>2. caseStatus[c] \in {REFERRED, CLOSED, MORE_INFO_REQUIRED}
          BY <4>1, <5>1, DecisionStatus DEF Decided
        <5>3. QED
          BY <2>3, <5>2 DEF READY_FOR_REVIEW, REFERRED, CLOSED, MORE_INFO_REQUIRED
      <4>2. QED
        BY <4>1
    <3>3. UNDER_REVIEW \notin PROCESSING \cup {REFERRED, CLOSED, MORE_INFO_REQUIRED}
      BY DEF PROCESSING, QUEUED, ANALYZING, PROCESSING_FAILED, DLQ_INVESTIGATION, REFERRED,
           CLOSED, MORE_INFO_REQUIRED, UNDER_REVIEW
    <3>4. QED
      BY <1>4, <2>1, <3>1, <3>2, <3>3 DEF Decided
  <2>4. CASE caseStatus[c] # READY_FOR_REVIEW
    <3>1. caseStatus'[c] = caseStatus[c]
      BY <1>3, <1>5, <1>6, <2>4
    <3>2. QED
      BY <1>1, <1>4, <2>1, <2>2, <3>1, ZenonT(40) DEF Decided
  <2>5. QED
    BY <2>3, <2>4
<1>7. CASE decision_type # "monitor"
  <2>1. caseStatus'[c] = STATUS_BY_DECISION[decision_type]
        /\ caseStatus'[c] \in {REFERRED, CLOSED, MORE_INFO_REQUIRED}
    BY <1>1, <1>3, <1>5, <1>7, DecisionStatus
  <2>2. FinalDecisions(c) = {}
    <3>1. ASSUME NEW i \in FinalDecisions(c) PROVE FALSE
      <4>1. decisions[c][i] # "monitor" /\ decisions[c][i] \in DECISION_TYPES
        BY <1>4, <3>1 DEF FinalDecisions
      <4>2. caseStatus[c] \in {REFERRED, CLOSED, MORE_INFO_REQUIRED}
        BY <3>1, <4>1, DecisionStatus DEF Decided
      <4>3. QED
        BY <1>3, <1>7, <4>2 DEF READY_FOR_REVIEW, UNDER_REVIEW, VALIDATION_FAILED,
             DLQ_INVESTIGATION, REFERRED, CLOSED, MORE_INFO_REQUIRED
    <3>2. QED
      BY <3>1
  <2>3. FinalDecisions(c)' = {n}
    <3>1. ASSUME NEW i \in FinalDecisions(c)' PROVE i = n
      BY <1>4, <2>2, <3>1, SMTT(30) DEF FinalDecisions
    <3>2. n \in FinalDecisions(c)'
      BY <1>4, <1>7 DEF FinalDecisions
    <3>3. QED
      BY <3>1, <3>2
  <2>4. caseStatus'[c] \notin PROCESSING \cup {UNDER_REVIEW}
    BY <2>1 DEF PROCESSING, QUEUED, ANALYZING, PROCESSING_FAILED, DLQ_INVESTIGATION, REFERRED,
         CLOSED, MORE_INFO_REQUIRED, UNDER_REVIEW
  <2>5. QED
    BY <1>4, <2>1, <2>3, <2>4 DEF Decided
<1>8. QED
  BY <1>6, <1>7

LEMMA DecisionInvInit == ReviewInit => DecisionInv
<1> SUFFICES ASSUME ReviewInit PROVE DecisionInv
  OBVIOUS
<1>1. LocksOK
  BY DEF ReviewInit, LocksOK, NoReview, NoJob
<1>2. ASSUME NEW c \in Cases PROVE Decided(c)
  <2>1. caseStatus[c] = QUEUED /\ decisions[c] = << >> /\ evidence[c] = "none"
    BY DEF ReviewInit
  <2>2. FinalDecisions(c) = {}
    BY <2>1 DEF FinalDecisions
  <2>3. QED
    BY <2>1, <2>2 DEF Decided, PROCESSING, QUEUED, REFERRED, CLOSED, MORE_INFO_REQUIRED,
         UNDER_REVIEW
<1>3. QED
  BY <1>1, <1>2 DEF DecisionInv

(* A case the step leaves alone, its evidence cleared at most.              *)
LEMMA DecidedStays ==
  ASSUME NEW c \in Cases, Decided(c), caseStatus'[c] = caseStatus[c],
         decisions'[c] = decisions[c],
         evidence[c] = "none" => evidence'[c] = "none"
  PROVE  Decided(c)'
<1>1. FinalDecisions(c)' = FinalDecisions(c)
  BY DEF FinalDecisions
<1>2. QED
  BY <1>1 DEF Decided

(* The worker, an administrator or a restart moves one case, which no       *)
(* reviewer has loaded.                                                     *)
LEMMA MoveKeepsDecisions ==
  ASSUME TypesInv, RowLocks, DecisionInv, UNCHANGED decisions,
         NEW c \in Cases, NEW status, caseStatus' = [caseStatus EXCEPT ![c] = status],
         caseStatus[c] \in PROCESSING,
         status \in PROCESSING \cup {READY_FOR_REVIEW, CLOSED},
         status # READY_FOR_REVIEW => evidence'[c] = evidence[c],
         \A d \in Cases \ {c} : evidence'[d] = evidence[d]
  PROVE  \A d \in Cases : Decided(d)'
<1>1. ASSUME NEW d \in Cases PROVE Decided(d)'
  <2>1. CASE d = c
    <3>1. caseStatus'[c] = status
      BY DEF TypesInv, ReviewTypeOK
    <3>2. QED
      BY <2>1, <3>1, DecidedMoves DEF DecisionInv
  <2>2. CASE d # c
    <3>1. caseStatus'[d] = caseStatus[d] /\ decisions'[d] = decisions[d] /\ evidence'[d] = evidence[d]
      BY <2>2 DEF TypesInv, ReviewTypeOK
    <3>2. QED
      BY <3>1, DecidedStays DEF DecisionInv
  <2>3. QED
    BY <2>1, <2>2
<1>2. QED
  BY <1>1

(* The holder of the lock can only monitor a case the worker has.           *)
LEMMA AnalysisIsLeft ==
  ASSUME TypesInv, LocksOK, NEW r \in Reviewers, RecordDecision(r),
         NEW c \in Cases, c = reviews[r].case,
         caseStatus[c] \in {ANALYZING, PROCESSING_FAILED}
  PROVE  caseStatus'[c] = caseStatus[c]
<1> DEFINE path == StatusPath(reviews[r].status, reviews[r].decision_type)
<1>1. /\ reviews[r].decision_type \in DECISION_TYPES /\ IsValidPath(path)
      /\ reviews[r].pc = "loaded"
      /\ caseStatus' =
           [caseStatus EXCEPT ![c] = IF Len(path) = 1 THEN caseStatus[c] ELSE Last(path)]
  BY RecordDecisionStep
<1>2. reviews[r].status = caseStatus[c]
  BY <1>1 DEF LocksOK
<1> HIDE DEF path
<1>3. caseStatus[c] \notin {READY_FOR_REVIEW, UNDER_REVIEW, VALIDATION_FAILED, DLQ_INVESTIGATION}
  BY DEF ANALYZING, PROCESSING_FAILED, READY_FOR_REVIEW, UNDER_REVIEW, VALIDATION_FAILED,
         DLQ_INVESTIGATION
<1>4. Len(path) = 1
  BY <1>1, <1>2, <1>3, DecisionPath, Statuses DEF path
<1>5. QED
  BY <1>1, <1>4 DEF TypesInv, ReviewTypeOK

LEMMA DecisionInvStep ==
  ASSUME TypesInv, DeletionInv, DecisionInv, [ReviewNext]_reviewVars
  PROVE  DecisionInv'
<1> SUFFICES ASSUME RowLocks PROVE DecisionInv'
  BY DEF DecisionInv
<1>0. LocksOK /\ \A c \in Cases : Decided(c)
  BY DEF DecisionInv
<1>1. CASE UNCHANGED <<caseStatus, decisions, evidence, reviews, worker>>
  BY <1>0, <1>1, DecidedStays DEF DecisionInv, LocksOK
<1>2. ASSUME NEW r \in Reviewers, NEW user \in Users, NEW c \in Cases,
             NEW decision_type \in DECISION_TYPES, LoadCase(r, user, c, decision_type)
      PROVE  DecisionInv'
  <2>1. /\ reviews' = [reviews EXCEPT ![r] = Loaded(c, decision_type)]
        /\ UNCHANGED <<caseStatus, decisions, evidence, worker>>
        /\ \A s \in Reviewers : ~(reviews[s].pc = "loaded" /\ reviews[s].case = c)
    BY <1>2 DEF LoadCase, Unlocked, rows
  <2>2. LocksOK'
    BY <1>0, <2>1 DEF LocksOK, Loaded, TypesInv, ReviewTypeOK
  <2>3. \A d \in Cases : Decided(d)'
    BY <1>0, <2>1, DecidedStays
  <2>4. QED
    BY <2>2, <2>3 DEF DecisionInv
<1>3. ASSUME NEW r \in Reviewers, RecordDecision(r)
      PROVE  DecisionInv'
  <2>1. PICK c \in Cases : c = reviews[r].case
    BY <1>3 DEF RecordDecision, TypesInv, ThreadsOK
  <2>2. PICK status : /\ caseStatus' = [caseStatus EXCEPT ![c] = status]
                      /\ decisions' = [decisions EXCEPT ![c] =
                                         Append(decisions[c], reviews[r].decision_type)]
                      /\ reviews' = [reviews EXCEPT ![r] = NoReview]
                      /\ UNCHANGED <<evidence, worker>>
                      /\ reviews[r].pc = "loaded"
    BY <1>3, <2>1, RecordDecisionStep
  <2>3. Decided(c)'
    BY <1>0, <1>3, <2>1, RecordKeepsDecided
  <2>4. ASSUME NEW d \in Cases, d # c PROVE Decided(d)'
    <3>1. caseStatus'[d] = caseStatus[d] /\ decisions'[d] = decisions[d] /\ evidence' = evidence
      BY <2>2, <2>4 DEF TypesInv, ReviewTypeOK
    <3>2. QED
      BY <1>0, <3>1, DecidedStays
  <2>5. LocksOK'
    <3>1. ASSUME NEW s \in Reviewers, reviews'[s].pc = "loaded"
          PROVE  /\ reviews[s].pc = "loaded" /\ reviews'[s] = reviews[s]
                 /\ reviews[s].case # c /\ reviews[s].case \in Cases
      BY <1>0, <2>1, <2>2, <3>1 DEF LocksOK, NoReview, TypesInv, ReviewTypeOK, ThreadsOK
    <3>2. caseStatus[c] \in {ANALYZING, PROCESSING_FAILED} => caseStatus'[c] = caseStatus[c]
      BY <1>0, <1>3, <2>1, AnalysisIsLeft
    <3>3. \A r1, r2 \in Reviewers :
            reviews'[r1].pc = "loaded" /\ reviews'[r2].pc = "loaded"
            /\ reviews'[r1].case = reviews'[r2].case => r1 = r2
      BY <1>0, <3>1 DEF LocksOK
    <3>4. ASSUME NEW s \in Reviewers, reviews'[s].pc = "loaded"
          PROVE  reviews'[s].status = caseStatus'[reviews'[s].case]
      BY <1>0, <2>2, <3>1, <3>4 DEF LocksOK, TypesInv, ReviewTypeOK
    <3>5. worker.pc # "idle" => caseStatus'[worker.case] = caseStatus[worker.case]
      BY <1>0, <2>2, <3>2 DEF LocksOK, TypesInv, ReviewTypeOK, ThreadsOK
    <3>6. QED
      BY <1>0, <2>2, <3>3, <3>4, <3>5 DEF LocksOK
  <2>6. QED
    BY <2>3, <2>4, <2>5 DEF DecisionInv
<1>4. ASSUME NEW r \in Reviewers, RefuseDecision(r)
      PROVE  DecisionInv'
  <2>1. /\ reviews' = [reviews EXCEPT ![r] = NoReview]
        /\ UNCHANGED <<caseStatus, decisions, evidence, worker>>
    BY <1>4 DEF RefuseDecision, rows
  <2>2. LocksOK'
    BY <1>0, <2>1 DEF LocksOK, NoReview, TypesInv, ReviewTypeOK
  <2>3. QED
    BY <1>0, <2>1, <2>2, DecidedStays DEF DecisionInv
<1>5. ASSUME NEW c \in Cases, StartJob(c)
      PROVE  DecisionInv'
  <2>1. /\ caseStatus[c] = QUEUED
        /\ caseStatus' = [caseStatus EXCEPT ![c] = ANALYZING]
        /\ worker' = [NoJob EXCEPT !.pc = "started", !.case = c]
        /\ UNCHANGED <<decisions, evidence, reviews>>
        /\ \A s \in Reviewers : ~(reviews[s].pc = "loaded" /\ reviews[s].case = c)
    BY <1>5 DEF StartJob, Unlocked
  <2>2. \A d \in Cases : Decided(d)'
    BY <2>1, MoveKeepsDecisions DEF PROCESSING
  <2>3. LocksOK'
    BY <1>0, <2>1 DEF LocksOK, NoJob, TypesInv, ReviewTypeOK, ThreadsOK
  <2>4. QED
    BY <2>2, <2>3 DEF DecisionInv
<1>6. CASE LoadMessages
  <2>1. /\ worker'.pc = "loaded" /\ worker'.case = worker.case /\ worker.pc = "started"
        /\ UNCHANGED <<caseStatus, decisions, evidence, reviews>>
    BY <1>6 DEF LoadMessages, rows, TypesInv, ReviewTypeOK
  <2>2. LocksOK'
    BY <1>0, <2>1 DEF LocksOK
  <2>3. QED
    BY <1>0, <2>1, <2>2, DecidedStays DEF DecisionInv
<1>7. CASE Publish \/ FailJob \/ DeadLetter
  <2>1. PICK c \in Cases : c = worker.case
    BY <1>7 DEF Publish, FailJob, DeadLetter, TypesInv, ThreadsOK
  <2>2. /\ caseStatus[c] \in PROCESSING
        /\ \A s \in Reviewers : ~(reviews[s].pc = "loaded" /\ reviews[s].case = c)
    BY <1>0, <1>7, <2>1 DEF Publish, FailJob, DeadLetter, Unlocked, LocksOK, PROCESSING
  <2>3. PICK status \in PROCESSING \cup {READY_FOR_REVIEW} :
          /\ caseStatus' = [caseStatus EXCEPT ![c] = status]
          /\ status # READY_FOR_REVIEW => evidence'[c] = evidence[c]
          /\ \A d \in Cases \ {c} : evidence'[d] = evidence[d]
          /\ \/ worker' = NoJob
             \/ /\ worker'.pc = "failing" /\ worker'.case = c
                /\ status = PROCESSING_FAILED
    <3>1. CASE Publish
      BY <2>1, <3>1 DEF Publish, TypesInv, ReviewTypeOK
    <3>2. CASE FailJob
      BY <2>1, <3>2 DEF FailJob, PROCESSING, TypesInv, ReviewTypeOK
    <3>3. CASE DeadLetter
      BY <2>1, <3>3 DEF DeadLetter, PROCESSING
    <3>4. QED
      BY <1>7, <3>1, <3>2, <3>3
  <2>4. UNCHANGED <<decisions, reviews>>
    BY <1>7 DEF Publish, FailJob, DeadLetter
  <2>5. \A d \in Cases : Decided(d)'
    BY <2>2, <2>3, <2>4, MoveKeepsDecisions
  <2>6. LocksOK'
    <3>1. worker'.pc # "idle" => /\ worker'.pc = "failing" /\ worker'.case = c
                                 /\ caseStatus'[c] = PROCESSING_FAILED
      BY <2>3 DEF NoJob, TypesInv, ReviewTypeOK
    <3>2. \A s \in Reviewers :
            reviews[s].pc = "loaded" => caseStatus'[reviews[s].case] = caseStatus[reviews[s].case]
      BY <2>2, <2>3 DEF TypesInv, ReviewTypeOK, ThreadsOK
    <3>3. \A s \in Reviewers :
            reviews'[s].pc = "loaded" => reviews'[s].status = caseStatus'[reviews'[s].case]
      BY <1>0, <2>4, <3>2 DEF LocksOK
    <3>4. worker'.pc # "idle" =>
            caseStatus'[worker'.case] = IF worker'.pc = "failing" THEN PROCESSING_FAILED
                                        ELSE ANALYZING
      BY <3>1
    <3>5. \A r, s \in Reviewers :
            reviews'[r].pc = "loaded" /\ reviews'[s].pc = "loaded"
            /\ reviews'[r].case = reviews'[s].case => r = s
      BY <1>0, <2>4 DEF LocksOK
    <3>6. QED
      BY <3>3, <3>4, <3>5 DEF LocksOK
  <2>7. QED
    BY <2>5, <2>6 DEF DecisionInv
<1>8. ASSUME NEW c \in Cases, ResolveDLQEntry(c)
      PROVE  DecisionInv'
  <2>1. /\ caseStatus[c] = DLQ_INVESTIGATION
        /\ UNCHANGED <<decisions, evidence, reviews, worker>>
        /\ \A s \in Reviewers : ~(reviews[s].pc = "loaded" /\ reviews[s].case = c)
    BY <1>8 DEF ResolveDLQEntry, Unlocked, threads
  <2>2. PICK status \in {QUEUED, CLOSED} : caseStatus' = [caseStatus EXCEPT ![c] = status]
    BY <1>8 DEF ResolveDLQEntry
  <2>3. \A d \in Cases : Decided(d)'
    BY <2>1, <2>2, MoveKeepsDecisions DEF PROCESSING
  <2>4. DLQ_INVESTIGATION \notin {ANALYZING, PROCESSING_FAILED}
    BY DEF DLQ_INVESTIGATION, ANALYZING, PROCESSING_FAILED
  <2>5. LocksOK'
    BY <1>0, <2>1, <2>2, <2>4 DEF LocksOK, TypesInv, ReviewTypeOK, ThreadsOK
  <2>6. QED
    BY <2>3, <2>5 DEF DecisionInv
<1>9. CASE SweepCommit
  <2>1. UNCHANGED <<caseStatus, decisions, reviews, worker>>
    BY <1>9 DEF SweepCommit
  <2>2. \A d \in Cases : evidence[d] = "none" => evidence'[d] = "none"
    <3>1. sweep.results => evidence[sweep.case] # "none"
      BY <1>9 DEF SweepCommit, DeletionInv, SweepOK
    <3>2. QED
      BY <1>9, <3>1 DEF SweepCommit, TypesInv, ReviewTypeOK
  <2>3. QED
    BY <1>0, <2>1, <2>2, DecidedStays DEF DecisionInv, LocksOK
<1>10. CASE Crash
  <2>1. /\ worker' = NoJob /\ reviews' = [r \in Reviewers |-> NoReview]
        /\ UNCHANGED <<decisions, evidence>>
    BY <1>10 DEF Crash
  <2>2. LocksOK'
    BY <2>1 DEF LocksOK, NoJob, NoReview
  <2>3. \A d \in Cases : Decided(d)'
    <3>1. CASE worker.pc \in {"idle", "failing"}
      <4>1. UNCHANGED caseStatus
        BY <1>10, <3>1 DEF Crash
      <4>2. QED
        BY <1>0, <2>1, <4>1, DecidedStays
    <3>2. CASE worker.pc \notin {"idle", "failing"}
      <4>1. worker.case \in Cases /\ caseStatus[worker.case] \in PROCESSING
        BY <1>0, <3>2 DEF LocksOK, TypesInv, ThreadsOK, PROCESSING
      <4>2. PICK status \in PROCESSING :
              caseStatus' = [caseStatus EXCEPT ![worker.case] = status]
        BY <1>10, <3>2 DEF Crash, PROCESSING
      <4>3. PICK c \in Cases : c = worker.case
        BY <4>1
      <4>4. QED
        BY <2>1, <4>1, <4>2, <4>3, MoveKeepsDecisions
    <3>3. QED
      BY <3>1, <3>2
  <2>4. QED
    BY <2>2, <2>3 DEF DecisionInv
<1>11. QED
  <2>1. ASSUME NEW r \in Readers, NEW user \in Users, NEW c \in Cases, ReadCase(r, user, c)
        PROVE  UNCHANGED <<caseStatus, decisions, evidence, reviews, worker>>
    BY <2>1 DEF ReadCase, rows
  <2>2. ASSUME NEW r \in Readers, ReadResults(r) \/ ReadMessages(r)
        PROVE  UNCHANGED <<caseStatus, decisions, evidence, reviews, worker>>
    BY <2>2 DEF ReadResults, ReadMessages, rows
  <2>3. ASSUME NEW c \in Cases, Expire(c) \/ SweepDefer(c) \/ SweepSelect(c)
        PROVE  UNCHANGED <<caseStatus, decisions, evidence, reviews, worker>>
    BY <2>3 DEF Expire, SweepDefer, SweepSelect, rows, threads
  <2>4. BeginSweep \/ EndSweep \/ UNCHANGED reviewVars
          => UNCHANGED <<caseStatus, decisions, evidence, reviews, worker>>
    BY DEF BeginSweep, EndSweep, reviewVars, rows
  <2>5. QED
    BY <1>1, <1>2, <1>3, <1>4, <1>5, <1>6, <1>7, <1>8, <1>9, <1>10, <2>1, <2>2, <2>3, <2>4
       DEF ReviewNext

-------------------------------------------------------------------------------
(* Theorems *)

ReviewInv == TypesInv /\ DeletionInv /\ AnswerInv /\ DecisionInv

(* What the requests, the worker and the sweep keep of cases.               *)
THEOREM ReviewInvariant == Spec => []ReviewInv
<1>1. Init => ReviewInv
  BY ReviewInvInit, DecisionInvInit DEF Init, ReviewInv
<1>2. ReviewInv /\ [Next]_vars => ReviewInv'
  <2> SUFFICES ASSUME ReviewInv, [Next]_vars PROVE ReviewInv'
    OBVIOUS
  <2>1. [ReviewNext]_reviewVars
    BY DEF Next, vars
  <2>2. QED
    BY <2>1, TypesInvStep, DeletionInvStep, AnswerInvStep, DecisionInvStep DEF ReviewInv
<1>3. QED
  BY <1>1, <1>2, PTL DEF Spec

(* The variables keep their types.                                          *)
THEOREM TypeCorrect == Spec => []TypeOK
<1>1. LimiterInv /\ ReviewInv => TypeOK
  BY DEF LimiterInv, ReviewInv, TypesInv, TypeOK
<1>2. QED
  BY <1>1, LimiterInvariant, ReviewInvariant, PTL

(* Where rows lock, a case gets one final decision, and its status is that  *)
(* decision's.                                                              *)
THEOREM DecidedOnce == Spec => []OneFinalDecision
<1>1. ReviewInv => OneFinalDecision
  BY DEF ReviewInv, DecisionInv, Decided, OneFinalDecision
<1>2. QED
  BY <1>1, ReviewInvariant, PTL

(* Content and its deletion event go together.                              *)
THEOREM DeletedCompletely == Spec => []DeletionIsComplete
<1>1. ReviewInv => DeletionIsComplete
  BY DEF ReviewInv, DeletionInv, Deleted, DeletionIsComplete
<1>2. QED
  BY <1>1, ReviewInvariant, PTL

(* An answer shows no messages of a case whose evidence it shows cleared.   *)
THEOREM AnswersConsistent == Spec => []AnswersAreConsistent
<1>1. ReviewInv => AnswersAreConsistent
  <2>1. ResponseOrder # << >> /\ << "messages" >> # << >>
    BY DEF ResponseOrder
  <2>2. QED
    BY <2>1 DEF ReviewInv, AnswerInv, ReadOK, AnswersAreConsistent
<1>2. QED
  BY <1>1, ReviewInvariant, PTL
===============================================================================

---------------------------- MODULE AuditLogProofs ----------------------------
(***************************************************************************)
(* Theorems about AuditLog, for any calls, any processes and either         *)
(* database.  The inductive invariant is AuditInv: the log is linked, a     *)
(* call that holds _lock has read a prefix of it, and at most one row, the  *)
(* next one, waits to be committed.                                         *)
(***************************************************************************)
EXTENDS AuditLog, TLAPS

(* The row with the greatest number of a linked log is its last one.        *)
LEMMA LastOfLinked ==
  ASSUME log \in Seq(Rows), Linked, log # << >>
  PROVE  Last(log) = log[Len(log)] /\ Last(log).seq = Len(log) - 1
<1>1. Len(log) \in DOMAIN log /\ Len(log) \in Nat \ {0}
  OBVIOUS
<1>2. \A i \in DOMAIN log : i \in 1..Len(log) /\ log[i].seq = i - 1
  BY DEF Linked
<1> DEFINE Greatest(i) == \A j \in DOMAIN log : log[j].seq <= log[i].seq
<1>3. Greatest(Len(log))
  BY <1>1, <1>2
<1>4. ASSUME NEW i \in DOMAIN log, Greatest(i)
      PROVE  i = Len(log)
  BY <1>1, <1>2, <1>4
<1> DEFINE chosen == CHOOSE i \in DOMAIN log : Greatest(i)
<1>5. chosen \in DOMAIN log /\ Greatest(chosen)
  <2> HIDE DEF Greatest
  <2> QED BY <1>1, <1>3
<1>6. chosen = Len(log)
  <2> HIDE DEF Greatest, chosen
  <2> QED BY <1>4, <1>5
<1> QED BY <1>1, <1>2, <1>6 DEF Last

LEMMA NumbersOfLinked ==
  ASSUME log \in Seq(Rows), Linked
  PROVE  Numbers(log) = 0..(Len(log) - 1)
<1>1. \A i \in 1..Len(log) : log[i].seq = i - 1
  BY DEF Linked
<1>2. ASSUME NEW n \in 0..(Len(log) - 1)
      PROVE  n \in Numbers(log)
  <2>1. n + 1 \in DOMAIN log /\ log[n + 1].seq = n
    BY <1>1
  <2> QED BY <2>1 DEF Numbers
<1>3. \A i \in DOMAIN log : log[i].seq \in 0..(Len(log) - 1)
  BY <1>1
<1>4. Numbers(log) \subseteq 0..(Len(log) - 1)
  BY <1>3 DEF Numbers
<1> QED BY <1>2, <1>4

(* A linked log passes verify_chain.                                        *)
LEMMA LinkedIsLinear ==
  ASSUME log \in Seq(Rows), Linked
  PROVE  ChainIsLinear
<1>1. \A i \in 1..Len(log) : log[i].seq = i - 1
  BY DEF Linked
<1>2. ASSUME NEW i \in DOMAIN log
      PROVE  LET before == {j \in DOMAIN log : log[j].seq < log[i].seq}
             IN log[i].previous =
                  IF before = {} THEN << >>
                  ELSE log[CHOOSE j \in before :
                             \A k \in before : log[k].seq <= log[j].seq].hash
  <2> DEFINE before == {j \in DOMAIN log : log[j].seq < log[i].seq}
             Greatest(j) == \A k \in before : log[k].seq <= log[j].seq
             chosen == CHOOSE j \in before : Greatest(j)
  <2>1. i \in 1..Len(log)
    OBVIOUS
  <2>2. before = 1..(i - 1)
    BY <1>1, <2>1
  <2>3. CASE i = 1
    BY <2>2, <2>3 DEF Linked
  <2>4. CASE i # 1
    <3>0. i - 1 \in 1..(i - 1)
      BY <2>1, <2>4
    <3>1. i - 1 \in before /\ Greatest(i - 1)
      <4>1. i - 1 \in before
        BY <2>2, <3>0
      <4>2. \A k \in 1..(i - 1) : log[k].seq <= log[i - 1].seq
        BY <1>1, <2>1, <3>0
      <4> QED BY <2>2, <4>1, <4>2
    <3>2. ASSUME NEW j \in before, Greatest(j)
          PROVE  j = i - 1
      BY <1>1, <2>1, <2>2, <2>4, <3>1, <3>2
    <3>3. chosen \in before /\ Greatest(chosen)
      <4> HIDE DEF Greatest, before
      <4> QED BY <3>1
    <3>4. chosen = i - 1
      <4> HIDE DEF Greatest, chosen, before
      <4> QED BY <3>2, <3>3
    <3>5. before # {}
      BY <3>1
    <3>6. log[i].previous = log[i - 1].hash
      BY <2>1, <2>4 DEF Linked
    <3>7. log[i].previous = IF before = {} THEN << >> ELSE log[chosen].hash
      <4> HIDE DEF chosen, before
      <4> QED BY <3>4, <3>5, <3>6
    <3> QED BY <3>7
  <2> QED BY <2>3, <2>4
<1>3. \A i \in DOMAIN log : log[i].hash = Digest(log[i].previous, log[i].event)
  BY DEF Linked
<1> QED BY <1>1, <1>2, <1>3 DEF ChainIsLinear, verify_chain

-------------------------------------------------------------------------------
LEMMA InitInv == Init => AuditInv
<1> SUFFICES ASSUME Init PROVE AuditInv
  OBVIOUS
<1>1. \A c \in Calls : call[c].pc = "idle" /\ ~HoldsLock(c) /\ ~HoldsWrite(c)
  BY DEF Init, HoldsLock, HoldsWrite
<1>2. TypeOK
  BY AuditLogAssumption DEF Init, TypeOK, CallStates, Digests
<1>3. Unfinished
  BY AuditLogAssumption DEF Init, Unfinished
<1>4. Linked
  BY DEF Init, Linked
<1> QED
  BY <1>1, <1>2, <1>3, <1>4
  DEF AuditInv, ReadsAPrefix, LockIsExclusive, OnePending, WriteIsExclusive,
      CollisionsAreForeign, EarlyWritersAreFresh

(* A step in which some calls fail and nothing else happens (a collision, a *)
(* timeout, a refusal, a crash) only gives locks back.                      *)
LEMMA FailingKeepsInv ==
  ASSUME AuditInv,
         log' = log,
         call' \in [Calls -> CallStates],
         refusals' \in 0..MaxRefusals,
         crashes' \in 0..MaxCrashes,
         \A c \in Calls : call'[c] = call[c] \/ call'[c].pc = "failed"
  PROVE  AuditInv'
<1>1. \A c \in Calls : HoldsLock(c)' => HoldsLock(c) /\ call'[c] = call[c]
  BY DEF HoldsLock
<1>2. \A c \in Calls : HoldsWrite(c)' => HoldsWrite(c) /\ call'[c] = call[c]
  BY DEF HoldsWrite
<1>3. TypeOK' /\ Linked'
  BY DEF AuditInv, TypeOK, Linked
<1>4. ReadsAPrefix'
  BY <1>1 DEF AuditInv, ReadsAPrefix
<1>5. LockIsExclusive'
  BY <1>1 DEF AuditInv, LockIsExclusive
<1>6. OnePending'
  BY DEF AuditInv, OnePending
<1>7. WriteIsExclusive'
  BY <1>2 DEF AuditInv, WriteIsExclusive
<1>8. Unfinished'
  BY DEF AuditInv, Unfinished
<1>9. CollisionsAreForeign'
  BY <1>1 DEF AuditInv, CollisionsAreForeign
<1>10. EarlyWritersAreFresh'
  BY <1>1 DEF AuditInv, EarlyWritersAreFresh
<1> QED
  BY <1>3, <1>4, <1>5, <1>6, <1>7, <1>8, <1>9, <1>10 DEF AuditInv

(* What End changes.                                                        *)
LEMMA EndChanges ==
  ASSUME TypeOK, NEW c \in Calls,
         NEW pc \in {"ready", "flush", "commit", "done", "failed"}, End(c, pc)
  PROVE  /\ call' \in [Calls -> CallStates]
         /\ call'[c].pc = pc
         /\ call'[c].seq = call[c].seq
         /\ call'[c].previous = call[c].previous
         /\ call'[c].left = call[c].left
         /\ \A d \in Calls \ {c} : call'[d] = call[d]
  BY DEF TypeOK, CallStates, End

LEMMA BeginKeepsInv ==
  ASSUME AuditInv, NEW c \in Calls, Begin(c)
  PROVE  AuditInv'
<1>1. /\ call' \in [Calls -> CallStates]
      /\ call'[c].pc = "ready" /\ call[c].pc = "idle"
      /\ call'[c].left = call[c].left
      /\ \A d \in Calls \ {c} : call'[d] = call[d]
  BY EndChanges DEF AuditInv, Begin
<1>2. log' = log /\ refusals' = refusals /\ crashes' = crashes
  BY DEF Begin
<1>3. \A d \in Calls : HoldsLock(d)' => d # c /\ HoldsLock(d) /\ call'[d] = call[d]
  BY <1>1 DEF HoldsLock
<1>4. \A d \in Calls \ {c} : HoldsWrite(d)' => HoldsWrite(d)
  BY <1>1 DEF HoldsWrite
<1>5. TypeOK' /\ Linked'
  BY <1>1, <1>2 DEF AuditInv, TypeOK, Linked
<1>6. ReadsAPrefix'
  BY <1>2, <1>3 DEF AuditInv, ReadsAPrefix
<1>7. LockIsExclusive'
  BY <1>3 DEF AuditInv, LockIsExclusive
<1>8. OnePending'
  BY <1>1, <1>2 DEF AuditInv, OnePending
<1>9. WriteIsExclusive'
  <2>1. SingleWriter /\ HoldsWrite(c)' => \A d \in Calls \ {c} : ~HoldsWrite(d)
    BY <1>1 DEF HoldsWrite, Begin, MayWrite
  <2> QED BY <1>4, <2>1 DEF AuditInv, WriteIsExclusive
<1>10. Unfinished'
  BY <1>1 DEF AuditInv, Unfinished
<1>11. CollisionsAreForeign'
  BY <1>2, <1>3 DEF AuditInv, CollisionsAreForeign
<1>12. EarlyWritersAreFresh'
  BY <1>2, <1>3 DEF AuditInv, EarlyWritersAreFresh
<1> QED
  BY <1>5, <1>6, <1>7, <1>8, <1>9, <1>10, <1>11, <1>12 DEF AuditInv

LEMMA RecordKeepsInv ==
  ASSUME AuditInv, NEW c \in Calls, Record(c)
  PROVE  AuditInv'
<1>1. log' = log /\ refusals' = refusals /\ crashes' = crashes
  BY DEF Record
<1>2. log \in Seq(Rows) /\ Linked /\ Len(log) \in Nat
  BY DEF AuditInv, TypeOK
<1>3. /\ call[c].pc = "ready" /\ call'[c].pc = "flush"
      /\ call'[c].seq = Len(log)
      /\ call'[c].previous = IF log = << >> THEN << >> ELSE log[Len(log)].hash
      /\ call'[c].left = call[c].left
      /\ \A d \in Calls \ {c} : call'[d] = call[d]
  <2>1. log # << >> => Last(log) = log[Len(log)] /\ Last(log).seq = Len(log) - 1
    BY <1>2, LastOfLinked
  <2>2. log = << >> => Len(log) = 0
    BY <1>2
  <2>3. call \in [Calls -> CallStates]
    BY DEF AuditInv, TypeOK
  <2> QED BY <1>2, <2>1, <2>2, <2>3 DEF Record, CallStates
<1>4. call' \in [Calls -> CallStates]
  <2>1. log # << >> => log[Len(log)].hash \in Digests
    <3>1. log # << >> => log[Len(log)] \in Rows
      BY <1>2
    <3>2. \A row \in Rows : row.hash \in Digests
      BY DEF Rows
    <3> QED BY <3>1, <3>2
  <2>2. << >> \in Digests
    BY DEF Digests
  <2>3. call'[c].previous \in Digests
    BY <1>3, <2>1, <2>2
  <2>4. call'[c] = [pc |-> "flush", seq |-> call'[c].seq,
                    previous |-> call'[c].previous, left |-> call[c].left]
    BY DEF AuditInv, TypeOK, CallStates, Record
  <2>5. call'[c] \in CallStates
    BY <1>2, <1>3, <2>3, <2>4 DEF AuditInv, TypeOK, CallStates
  <2>6. call' = [d \in Calls |-> call'[d]]
    BY DEF AuditInv, TypeOK, Record
  <2>7. \A d \in Calls : call'[d] \in CallStates
    BY <1>3, <2>5 DEF AuditInv, TypeOK
  <2> QED BY <2>6, <2>7
<1>5. \A d \in Calls \ {c} : HoldsLock(d)' => HoldsLock(d) /\ call'[d] = call[d]
  BY <1>3 DEF HoldsLock
<1>6. \A d \in Calls : HoldsLock(d) => ProcessOf[d] # ProcessOf[c]
  BY DEF Record
<1>7. \A d \in Calls : HoldsWrite(d)' <=> HoldsWrite(d)
  BY <1>3 DEF HoldsWrite
<1>8. TypeOK' /\ Linked'
  BY <1>1, <1>4 DEF AuditInv, TypeOK, Linked
<1>9. ReadsAPrefix'
  <2>1. /\ call'[c].seq \in 0..Len(log)
        /\ call'[c].previous = IF call'[c].seq = 0 THEN << >>
                               ELSE log[call'[c].seq].hash
    <3>1. log = << >> <=> Len(log) = 0
      BY <1>2
    <3> QED BY <1>2, <1>3, <3>1
  <2> QED BY <1>1, <1>5, <2>1 DEF AuditInv, ReadsAPrefix
<1>10. LockIsExclusive'
  BY <1>5, <1>6 DEF AuditInv, LockIsExclusive
<1>11. OnePending'
  BY <1>1, <1>3 DEF AuditInv, OnePending
<1>12. WriteIsExclusive'
  BY <1>7 DEF AuditInv, WriteIsExclusive
<1>13. Unfinished'
  BY <1>3 DEF AuditInv, Unfinished
<1>14. CollisionsAreForeign'
  BY <1>1, <1>2, <1>3, <1>5 DEF AuditInv, CollisionsAreForeign
<1>15. EarlyWritersAreFresh'
  BY <1>1, <1>3, <1>5 DEF AuditInv, EarlyWritersAreFresh
<1> QED
  BY <1>8, <1>9, <1>10, <1>11, <1>12, <1>13, <1>14, <1>15 DEF AuditInv

(* The row a call flushes has the next number of the log.                   *)
LEMMA FlushKeepsInv ==
  ASSUME AuditInv, NEW c \in Calls, Flush(c)
  PROVE  AuditInv'
<1>1. /\ call' \in [Calls -> CallStates]
      /\ call[c].pc = "flush" /\ call'[c].pc = "commit"
      /\ call'[c].seq = call[c].seq
      /\ call'[c].previous = call[c].previous
      /\ call'[c].left = call[c].left
      /\ \A d \in Calls \ {c} : call'[d] = call[d]
  BY EndChanges DEF AuditInv, Flush
<1>2. log' = log /\ refusals' = refusals /\ crashes' = crashes
  BY DEF Flush
<1>3. call[c].seq = Len(log)
  <2>1. Numbers(log) = 0..(Len(log) - 1)
    BY NumbersOfLinked DEF AuditInv, TypeOK
  <2>2. call[c].seq \in 0..Len(log) /\ Len(log) \in Nat
    BY <1>1 DEF AuditInv, TypeOK, ReadsAPrefix, HoldsLock
  <2> QED BY <2>1, <2>2 DEF Flush
<1>4. \A d \in Calls \ {c} : call[d].pc # "commit"
  <2>1. \A d \in Calls : call[d].pc = "commit" => call[d].seq = Len(log)
    BY DEF AuditInv, OnePending
  <2> QED BY <1>1, <1>3, <2>1 DEF Flush, NumberIsSettled
<1>5. \A d \in Calls :
        /\ HoldsLock(d)' <=> HoldsLock(d)
        /\ call'[d].seq = call[d].seq /\ call'[d].previous = call[d].previous
  BY <1>1 DEF HoldsLock
<1>6. \A d \in Calls \ {c} : HoldsWrite(d)' <=> HoldsWrite(d)
  BY <1>1 DEF HoldsWrite
<1>7. TypeOK' /\ Linked'
  BY <1>1, <1>2 DEF AuditInv, TypeOK, Linked
<1>8. ReadsAPrefix'
  BY <1>2, <1>5 DEF AuditInv, ReadsAPrefix
<1>9. LockIsExclusive'
  BY <1>5 DEF AuditInv, LockIsExclusive
<1>10. OnePending'
  BY <1>1, <1>2, <1>3, <1>4 DEF AuditInv, OnePending
<1>11. WriteIsExclusive'
  <2>1. SingleWriter => \A d \in Calls \ {c} : ~HoldsWrite(d)
    BY DEF Flush, MayWrite
  <2> QED BY <1>6, <2>1 DEF AuditInv, WriteIsExclusive
<1>12. Unfinished'
  BY <1>1 DEF AuditInv, Unfinished
<1>13. CollisionsAreForeign'
  BY <1>2, <1>5 DEF AuditInv, CollisionsAreForeign
<1>14. EarlyWritersAreFresh'
  BY <1>2, <1>5 DEF AuditInv, EarlyWritersAreFresh
<1> QED
  BY <1>7, <1>8, <1>9, <1>10, <1>11, <1>12, <1>13, <1>14 DEF AuditInv

(* The committed row continues the log; whoever has read the log before     *)
(* belongs to another process, and on SQLite has not written yet.           *)
LEMMA CommitKeepsInv ==
  ASSUME AuditInv, NEW c \in Calls, Commit(c)
  PROVE  AuditInv'
<1>1. /\ call[c].pc = "commit" /\ HoldsLock(c) /\ HoldsWrite(c)
      /\ call'[c].pc = IF call[c].left > 1 THEN "ready" ELSE "done"
      /\ call'[c].left = call[c].left - 1
      /\ call'[c].seq = call[c].seq /\ call'[c].previous = call[c].previous
      /\ \A d \in Calls \ {c} : call'[d] = call[d]
      /\ call[c] \in CallStates
  BY DEF AuditInv, TypeOK, CallStates, Commit, HoldsLock, HoldsWrite
<1>2. log' = Append(log, Row(c)) /\ refusals' = refusals /\ crashes' = crashes
  BY DEF Commit
<1>3. /\ log \in Seq(Rows) /\ Len(log) \in Nat /\ Linked
      /\ call[c].left \in Nat \ {0} /\ call[c].left \in 0..SweepSize
      /\ call[c].seq = Len(log)
  BY <1>1 DEF AuditInv, TypeOK, Unfinished, OnePending, CallStates
<1>4. /\ Row(c) \in Rows
      /\ Row(c).seq = Len(log) /\ Row(c).event.call = c
      /\ Row(c).previous = call[c].previous
      /\ Row(c).hash = Digest(Row(c).previous, Row(c).event)
  <2> DEFINE event == [call |-> c, left |-> call[c].left]
  <2>1. event \in Events
    BY <1>3 DEF Events
  <2>2. call[c].previous \in Digests
    BY <1>1 DEF CallStates
  <2>3. Digest(call[c].previous, event) \in Digests
    BY <2>1, <2>2 DEF Digest, Digests
  <2> HIDE DEF event
  <2>4. Row(c) = [seq |-> call[c].seq, previous |-> call[c].previous,
                  hash |-> Digest(call[c].previous, event), event |-> event]
    BY DEF Row, event
  <2>5. event.call = c
    BY DEF event
  <2> QED BY <1>3, <2>1, <2>2, <2>3, <2>4, <2>5 DEF Rows
<1>5. /\ Len(log') = Len(log) + 1 /\ log' \in Seq(Rows)
      /\ DOMAIN log = 1..Len(log) /\ DOMAIN log' = 1..(Len(log) + 1)
      /\ \A i \in 1..Len(log) : log'[i] = log[i]
      /\ log'[Len(log) + 1] = Row(c)
  <2> HIDE DEF Row
  <2> QED BY <1>2, <1>3, <1>4
<1>6. call' \in [Calls -> CallStates]
  <2>1. call'[c] \in CallStates
    <3>1. call'[c] = [pc |-> call'[c].pc, seq |-> call[c].seq,
                      previous |-> call[c].previous, left |-> call[c].left - 1]
      BY DEF AuditInv, TypeOK, CallStates, Commit
    <3>2. call[c].left - 1 \in 0..SweepSize
      BY <1>3, AuditLogAssumption
    <3> QED BY <1>1, <3>1, <3>2 DEF CallStates
  <2>2. call' = [d \in Calls |-> call'[d]]
    BY DEF AuditInv, TypeOK, Commit
  <2>3. \A d \in Calls : call'[d] \in CallStates
    BY <1>1, <2>1 DEF AuditInv, TypeOK
  <2> QED BY <2>2, <2>3
<1>7. \A d \in Calls : HoldsLock(d)' =>
        /\ d # c /\ HoldsLock(d) /\ call'[d] = call[d]
        /\ ProcessOf[d] # ProcessOf[c]
  BY <1>1 DEF HoldsLock, AuditInv, LockIsExclusive
<1>8. \A d \in Calls : HoldsWrite(d)' => HoldsWrite(d)
  BY <1>1 DEF HoldsWrite
<1>9. TypeOK'
  BY <1>2, <1>5, <1>6 DEF AuditInv, TypeOK
<1>10. Linked'
  <2>1. /\ call[c].previous = IF Len(log) = 0 THEN << >> ELSE log[Len(log)].hash
    BY <1>1, <1>3 DEF AuditInv, ReadsAPrefix
  <2>2. ASSUME NEW i \in DOMAIN log'
        PROVE  /\ log'[i].seq = i - 1
               /\ log'[i].previous = IF i = 1 THEN << >> ELSE log'[i - 1].hash
               /\ log'[i].hash = Digest(log'[i].previous, log'[i].event)
    <3>1. CASE i = Len(log) + 1
      <4>1. i = 1 <=> Len(log) = 0
        BY <1>3, <3>1
      <4>2. i # 1 => i - 1 \in 1..Len(log) /\ i - 1 = Len(log)
        BY <1>3, <3>1
      <4>3. log'[i] = Row(c)
        BY <1>5, <3>1
      <4>4. log'[i].seq = i - 1
        BY <1>3, <1>4, <3>1, <4>3
      <4>5. i # 1 => log'[i - 1] = log[Len(log)]
        BY <1>5, <4>2
      <4>6. log'[i].previous = IF i = 1 THEN << >> ELSE log'[i - 1].hash
        BY <1>4, <2>1, <4>1, <4>3, <4>5
      <4> QED BY <1>4, <4>3, <4>4, <4>6
    <3>2. CASE i \in 1..Len(log)
      <4>1. i # 1 => i - 1 \in 1..Len(log)
        BY <1>3, <3>2
      <4>2. log'[i] = log[i] /\ (i # 1 => log'[i - 1] = log[i - 1])
        BY <1>5, <3>2, <4>1
      <4> QED BY <1>3, <1>5, <3>2, <4>2 DEF Linked
    <3> QED BY <1>3, <1>5, <3>1, <3>2
  <2> QED BY <2>2 DEF Linked
<1>11. ReadsAPrefix'
  <2>1. ASSUME NEW d \in Calls, HoldsLock(d)'
        PROVE  /\ call'[d].seq \in 0..Len(log')
               /\ call'[d].previous = IF call'[d].seq = 0 THEN << >>
                                      ELSE log'[call'[d].seq].hash
    <3>1. /\ call'[d] = call[d] /\ call[d].seq \in 0..Len(log)
          /\ call[d].previous = IF call[d].seq = 0 THEN << >>
                                ELSE log[call[d].seq].hash
      BY <1>7, <2>1 DEF AuditInv, ReadsAPrefix
    <3>2. call[d].seq # 0 => log'[call[d].seq] = log[call[d].seq]
      BY <1>3, <1>5, <3>1
    <3> QED BY <1>3, <1>5, <3>1, <3>2
  <2> QED BY <2>1 DEF ReadsAPrefix
<1>12. LockIsExclusive'
  BY <1>7 DEF AuditInv, LockIsExclusive
<1>13. OnePending'
  <2>1. \A d \in Calls : call'[d].pc # "commit"
    BY <1>1 DEF AuditInv, OnePending
  <2> QED BY <2>1 DEF OnePending
<1>14. WriteIsExclusive'
  BY <1>8 DEF AuditInv, WriteIsExclusive
<1>15. Unfinished'
  <2>1. call'[c].pc = "ready" => call'[c].left > 0
    BY <1>1, <1>3
  <2> QED BY <1>1, <2>1 DEF AuditInv, Unfinished
<1>16. CollisionsAreForeign'
  <2>1. ASSUME NEW d \in Calls, HoldsLock(d)'
        PROVE  \E i \in (call'[d].seq + 1)..Len(log') :
                 ProcessOf[log'[i].event.call] # ProcessOf[d]
    <3>1. call'[d] = call[d] /\ call[d].seq \in 0..Len(log)
      BY <1>7, <2>1 DEF AuditInv, ReadsAPrefix
    <3>2. Len(log) + 1 \in (call'[d].seq + 1)..Len(log')
      BY <1>3, <1>5, <3>1
    <3>3. ProcessOf[log'[Len(log) + 1].event.call] # ProcessOf[d]
      BY <1>4, <1>5, <1>7, <2>1
    <3> QED BY <3>2, <3>3
  <2> QED BY <2>1 DEF CollisionsAreForeign
<1>17. EarlyWritersAreFresh'
  <2>1. SUFFICES ASSUME SingleWriter, NEW d \in Calls, HoldsLock(d)',
                        Kind[d] \in FlushesFirst
                 PROVE  FALSE
    BY DEF EarlyWritersAreFresh
  <2>2. d # c /\ HoldsLock(d)
    BY <1>7, <2>1
  <2>3. HoldsWrite(d)
    BY <2>1, <2>2 DEF HoldsLock, HoldsWrite
  <2> QED BY <1>1, <2>1, <2>2, <2>3 DEF AuditInv, WriteIsExclusive
<1> QED
  BY <1>9, <1>10, <1>11, <1>12, <1>13, <1>14, <1>15, <1>16, <1>17 DEF AuditInv

LEMMA NextKeepsInv == AuditInv /\ [Next]_vars => AuditInv'
<1> SUFFICES ASSUME AuditInv, [Next]_vars PROVE AuditInv'
  OBVIOUS
<1>1. /\ refusals \in 0..MaxRefusals /\ crashes \in 0..MaxCrashes
      /\ MaxRefusals \in Nat /\ MaxCrashes \in Nat
  BY AuditLogAssumption DEF AuditInv, TypeOK
<1>2. ASSUME NEW c \in Calls, Begin(c)
      PROVE  AuditInv'
  BY <1>2, BeginKeepsInv
<1>3. ASSUME NEW c \in Calls, Step(c)
      PROVE  AuditInv'
  <2>1. CASE Record(c)
    BY <2>1, RecordKeepsInv
  <2>2. CASE Flush(c)
    BY <2>2, FlushKeepsInv
  <2>3. CASE Commit(c)
    BY <2>3, CommitKeepsInv
  <2>4. CASE Collide(c) \/ TimeOut(c)
    <3>1. End(c, "failed") /\ log' = log /\ refusals' = refusals
                           /\ crashes' = crashes
      BY <2>4 DEF Collide, TimeOut
    <3>2. /\ call' \in [Calls -> CallStates]
          /\ \A d \in Calls : call'[d] = call[d] \/ call'[d].pc = "failed"
      BY <3>1, EndChanges DEF AuditInv
    <3> QED BY <1>1, <3>1, <3>2, FailingKeepsInv
  <2> QED BY <1>3, <2>1, <2>2, <2>3, <2>4 DEF Step
<1>4. ASSUME NEW c \in Calls, Refuse(c)
      PROVE  AuditInv'
  <2>1. End(c, "failed") /\ log' = log /\ crashes' = crashes
    BY <1>4 DEF Refuse
  <2>2. refusals' \in 0..MaxRefusals
    BY <1>1, <1>4 DEF Refuse
  <2>3. /\ call' \in [Calls -> CallStates]
        /\ \A d \in Calls : call'[d] = call[d] \/ call'[d].pc = "failed"
    BY <2>1, EndChanges DEF AuditInv
  <2> QED BY <1>1, <2>1, <2>2, <2>3, FailingKeepsInv
<1>5. ASSUME NEW p \in Processes, Crash(p)
      PROVE  AuditInv'
  <2>1. log' = log /\ refusals' = refusals
    BY <1>5 DEF Crash
  <2>2. crashes' \in 0..MaxCrashes
    BY <1>1, <1>5 DEF Crash
  <2>3. /\ call' \in [Calls -> CallStates]
        /\ \A d \in Calls : call'[d] = call[d] \/ call'[d].pc = "failed"
    BY <1>5 DEF Crash, AuditInv, TypeOK, CallStates
  <2> QED BY <1>1, <2>1, <2>2, <2>3, FailingKeepsInv
<1>6. CASE UNCHANGED vars
  BY <1>1, <1>6, FailingKeepsInv DEF vars, AuditInv, TypeOK
<1> QED BY <1>2, <1>3, <1>4, <1>5, <1>6 DEF Next

-------------------------------------------------------------------------------
(* AuditInv is an invariant: whatever calls and processes there are, on     *)
(* SQLite and on PostgreSQL, through refusals and crashes.                  *)
THEOREM AuditInvariance == Spec => []AuditInv
<1>1. Init => AuditInv
  BY InitInv
<1>2. AuditInv /\ [Next]_vars => AuditInv'
  BY NextKeepsInv
<1> QED BY <1>1, <1>2, PTL DEF Spec

(* The chain of record_audit_event is never forked and has no gap.          *)
THEOREM ChainStaysLinear == Spec => []ChainIsLinear
<1>1. AuditInv => ChainIsLinear
  BY LinkedIsLinear DEF AuditInv, TypeOK
<1> QED BY <1>1, AuditInvariance, PTL

(* Threads of one process never race for a number: _lock is enough.         *)
THEOREM NoCollisionWithin == Spec => []CollisionsAreForeign
<1>1. AuditInv => CollisionsAreForeign
  BY DEF AuditInv
<1> QED BY <1>1, AuditInvariance, PTL

(* On SQLite a call that writes before it records always has the next       *)
(* number, from whatever process it comes.                                  *)
THEOREM EarlyWritersSucceed == Spec => []EarlyWritersAreFresh
<1>1. AuditInv => EarlyWritersAreFresh
  BY DEF AuditInv
<1> QED BY <1>1, AuditInvariance, PTL

(* The log is a sequence of rows, a call is at one of record_audit_event's   *)
(* steps with no more rounds left than a sweep has, and the bounds hold.    *)
THEOREM TypeCorrect == Spec => []TypeOK
<1>1. AuditInv => TypeOK
  BY DEF AuditInv
<1> QED BY <1>1, AuditInvariance, PTL

-------------------------------------------------------------------------------
(* The refinement *)

LEFT   == [c \in Calls |-> call[c].left]
STATUS == [c \in Calls |-> Status(call[c].pc)]

(* Calls go on to another step that is neither their last nor a failure, or *)
(* some of them fail; the log stays.                                        *)
LEMMA InvisibleOrFailure ==
  ASSUME log' = log,
         \A c \in Calls : call'[c].left = call[c].left,
         NEW calls \in SUBSET Calls,
         \A c \in calls : Status(call[c].pc) = "open" /\ call'[c].pc = "failed",
         \A c \in Calls \ calls : Status(call'[c].pc) = Status(call[c].pc)
  PROVE  Trail!Next
<1>1. Covered' = Covered
  BY DEF Covered, Last
<1>2. LEFT' = LEFT
  BY DEF LEFT
<1>3. STATUS' = [c \in Calls |-> IF c \in calls THEN "failed" ELSE STATUS[c]]
  BY DEF STATUS, Status
<1>4. \A c \in calls : STATUS[c] = "open"
  BY DEF STATUS
<1>5. Trail!Fail(calls)
  BY <1>1, <1>2, <1>3, <1>4 DEF Trail!Fail, LEFT, STATUS
<1> QED BY <1>5 DEF Trail!Next

LEMMA LastOfLinkedNext ==
  (log \in Seq(Rows) /\ Linked /\ log # << >> => Last(log) = log[Len(log)])'
<1>1. log \in Seq(Rows) /\ Linked /\ log # << >> => Last(log) = log[Len(log)]
  BY LastOfLinked
<1> QED BY <1>1, PTL

(* The committed row continues the digest of the whole log.                 *)
LEMMA CommitRecords ==
  ASSUME AuditInv, NEW c \in Calls, Commit(c)
  PROVE  Trail!Next
<1> DEFINE event == [call |-> c, left |-> call[c].left]
<1>1. /\ log \in Seq(Rows) /\ Linked
      /\ call[c].seq = Len(log)
      /\ call[c].previous = IF call[c].seq = 0 THEN << >> ELSE log[call[c].seq].hash
      /\ call[c].left \in Nat \ {0}
      /\ call[c].pc = "commit"
  BY DEF Commit, AuditInv, TypeOK, CallStates, OnePending, ReadsAPrefix, Unfinished, HoldsLock
<1>2. call[c].previous = Covered
  BY <1>1, LastOfLinked DEF Covered
<1>3. Covered' = Append(Covered, event)
  <2>1. AuditInv'
    BY NextKeepsInv DEF Next, Step
  <2>2. log' = Append(log, Row(c)) /\ log' \in Seq(Rows) /\ Linked'
    BY <2>1 DEF Commit, AuditInv, TypeOK
  <2>3. log' # << >> /\ Len(log') = Len(log) + 1 /\ log'[Len(log) + 1] = Row(c)
    BY <1>1, <2>2
  <2>4. Last(log)' = log'[Len(log')]
    BY <2>2, <2>3, LastOfLinkedNext
  <2>5. Row(c).hash = Append(Covered, event)
    BY <1>2 DEF Row, Digest
  <2> QED BY <2>3, <2>4, <2>5 DEF Covered
<1>m. /\ call'[c].left = call[c].left - 1
      /\ call'[c].pc = IF call[c].left > 1 THEN "ready" ELSE "done"
      /\ \A d \in Calls \ {c} : call'[d] = call[d]
  BY DEF Commit, AuditInv, TypeOK, CallStates
<1>4. LEFT' = [LEFT EXCEPT ![c] = @ - 1]
  BY <1>m DEF LEFT
<1>5. STATUS' = [STATUS EXCEPT ![c] = IF LEFT[c] = 1 THEN "done" ELSE "open"]
  <2>1. Status(call'[c].pc) = IF call[c].left = 1 THEN "done" ELSE "open"
    BY <1>1, <1>m DEF Status
  <2>2. \A d \in Calls \ {c} : Status(call'[d].pc) = Status(call[d].pc)
    BY <1>m
  <2>3. STATUS' = [d \in Calls |-> IF d = c THEN Status(call'[c].pc) ELSE Status(call[d].pc)]
    BY <2>2 DEF STATUS
  <2>4. [STATUS EXCEPT ![c] = IF LEFT[c] = 1 THEN "done" ELSE "open"] =
          [d \in Calls |-> IF d = c THEN (IF call[c].left = 1 THEN "done" ELSE "open")
                           ELSE Status(call[d].pc)]
    BY DEF STATUS, LEFT
  <2> QED BY <2>1, <2>3, <2>4
<1>6. STATUS[c] = "open" /\ LEFT[c] = call[c].left
  BY <1>1 DEF STATUS, LEFT, Status
<1>7. Trail!Record(c)
  BY <1>3, <1>4, <1>5, <1>6 DEF Trail!Record, LEFT, STATUS
<1> QED BY <1>7 DEF Trail!Next

(* The hash chain, with its racing calls, processes, refusals and crashes,  *)
(* implements AuditTrail: the digest of the last row covers every event     *)
(* recorded so far, in order, and nothing else.                             *)
THEOREM Implementation == Spec => ImplementsTrail
<1>1. Init => Trail!Init
  <2>1. Init => Covered = << >>
    BY DEF Init, Covered
  <2>2. Init => /\ LEFT = [c \in Calls |-> IF Kind[c] = "sweep" THEN SweepSize ELSE 1]
                /\ STATUS = [c \in Calls |-> "open"]
    BY DEF Init, LEFT, STATUS, Status
  <2> QED BY <2>1, <2>2 DEF Trail!Init, LEFT, STATUS
<1>2. AuditInv /\ [Next]_vars => [Trail!Next]_(Trail!vars)
  <2> SUFFICES ASSUME AuditInv, [Next]_vars
               PROVE  Trail!Next \/ UNCHANGED Trail!vars
    OBVIOUS
  <2>1. call \in [Calls -> CallStates]
    BY DEF AuditInv, TypeOK
  <2>2. ASSUME NEW c \in Calls, Begin(c) \/ Record(c) \/ Flush(c)
        PROVE  Trail!Next
    <3>1. /\ log' = log
          /\ call'[c].left = call[c].left
          /\ Status(call[c].pc) = "open" /\ Status(call'[c].pc) = "open"
          /\ \A d \in Calls \ {c} : call'[d] = call[d]
      <4>1. CASE Begin(c)
        BY <2>1, <4>1 DEF Begin, End, Status, CallStates
      <4>2. CASE Record(c)
        BY <2>1, <4>2 DEF Record, Status, CallStates
      <4>3. CASE Flush(c)
        BY <2>1, <4>3 DEF Flush, End, Status, CallStates
      <4> QED BY <2>2, <4>1, <4>2, <4>3
    <3>2. /\ \A d \in Calls : call'[d].left = call[d].left
          /\ \A d \in Calls : Status(call'[d].pc) = Status(call[d].pc)
      BY <3>1
    <3>3. PICK none \in SUBSET Calls : none = {}
      OBVIOUS
    <3>4. Calls \ none = Calls /\ \A d \in none : FALSE
      BY <3>3
    <3> QED BY <3>1, <3>2, <3>4, InvisibleOrFailure
  <2>3. ASSUME NEW c \in Calls, Collide(c) \/ TimeOut(c) \/ Refuse(c)
        PROVE  Trail!Next
    <3>1. /\ log' = log
          /\ \A d \in Calls : call'[d].left = call[d].left
          /\ Status(call[c].pc) = "open" /\ call'[c].pc = "failed"
          /\ \A d \in Calls \ {c} : call'[d] = call[d]
      BY <2>1, <2>3 DEF Collide, TimeOut, Refuse, HoldsLock, End, Status, CallStates
    <3>2. \A d \in Calls \ {c} : Status(call'[d].pc) = Status(call[d].pc)
      BY <3>1
    <3>3. {c} \in SUBSET Calls
      OBVIOUS
    <3> QED BY <3>1, <3>2, <3>3, InvisibleOrFailure
  <2>4. ASSUME NEW p \in Processes, Crash(p)
        PROVE  Trail!Next
    <3> DEFINE lost == {c \in Calls : ProcessOf[c] = p
                                      /\ call[c].pc \in {"ready", "flush", "commit"}}
    <3>1. /\ log' = log
          /\ \A d \in Calls : call'[d].left = call[d].left
          /\ \A d \in lost : Status(call[d].pc) = "open" /\ call'[d].pc = "failed"
          /\ \A d \in Calls \ lost : call'[d] = call[d]
      BY <2>1, <2>4 DEF Crash, Status, CallStates
    <3>2. \A d \in Calls \ lost : Status(call'[d].pc) = Status(call[d].pc)
      BY <3>1
    <3>3. lost \in SUBSET Calls
      OBVIOUS
    <3> HIDE DEF lost
    <3> QED BY <3>1, <3>2, <3>3, InvisibleOrFailure
  <2>5. CASE UNCHANGED vars
    BY <2>5 DEF vars, Trail!vars, Covered, Last, Status
  <2> QED BY <2>2, <2>3, <2>4, <2>5, CommitRecords DEF Next, Step
<1> QED BY <1>1, <1>2, AuditInvariance, PTL DEF Spec, ImplementsTrail, Trail!Spec
===============================================================================

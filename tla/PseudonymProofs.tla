--------------------------- MODULE PseudonymProofs ---------------------------
(***************************************************************************)
(* Proofs about the pseudonyms of Preparation: _local_speaker_id gives      *)
(* every index a pseudonym of its own, and prepare_conversation gives every *)
(* speaker one.                                                             *)
(*                                                                         *)
(* LocalSpeakerId is a recursive function, so the facts about it need       *)
(* induction: here it is a fact about a set of numbers, whose proof is the  *)
(* pigeon-hole principle.                                                   *)
(***************************************************************************)
EXTENDS CaseAnalysisProofs

-------------------------------------------------------------------------------
(* Induction over numbers, for sets *)

(* If n is missing, successor maps the members below n into themselves      *)
(* without 0 and joins no two.                                              *)
LEMMA SetInduction ==
  ASSUME NEW S, 0 \in S, \A n \in Nat : n \in S => n + 1 \in S
  PROVE  Nat \subseteq S
<1> SUFFICES ASSUME NEW n \in Nat, n \notin S PROVE FALSE
  OBVIOUS
<1> DEFINE D == {m \in 0..n : m \in S}
           f == [m \in D |-> m + 1]
<1>1. /\ 0 \in D
      /\ D \in SUBSET Nat
      /\ \A m \in D : m <= n
  OBVIOUS
<1>2. IsFiniteSet(D)
  BY <1>1, FS_BoundedSetOfNaturals
<1>3. /\ IsFiniteSet(D \ {0})
      /\ Cardinality(D \ {0}) = Cardinality(D) - 1
  BY <1>1, <1>2, FS_RemoveElement
<1>4. ASSUME NEW m \in D PROVE m + 1 \in D \ {0}
  <2>1. m \in Nat /\ m <= n /\ m \in S /\ m # n
    OBVIOUS
  <2> QED BY <2>1
<1>5. f \in [D -> D \ {0}]
  BY <1>4
<1>6. Cardinality(D \ {0}) < Cardinality(D)
  BY <1>2, <1>3, FS_CardinalityType
<1>7. PICK x, y \in D : x # y /\ f[x] = f[y]
  <2> HIDE DEF D, f
  <2> QED BY <1>2, <1>3, <1>5, <1>6, FS_PigeonHole
<1> QED BY <1>7

(* The same where a number may rest on any smaller one.                     *)
LEMMA StrongInduction ==
  ASSUME NEW S,
         \A n \in Nat : (\A m \in Nat : m < n => m \in S) => n \in S
  PROVE  Nat \subseteq S
<1> DEFINE B == {n \in Nat : \A m \in Nat : m < n => m \in S}
<1>1. 0 \in B
  OBVIOUS
<1>2. ASSUME NEW n \in Nat, n \in B PROVE n + 1 \in B
  <2>1. n \in S
    BY <1>2
  <2>2. \A m \in Nat : m < n + 1 => m < n \/ m = n
    OBVIOUS
  <2> QED BY <1>2, <2>1, <2>2
<1>3. Nat \subseteq B
  <2> HIDE DEF B
  <2> QED BY <1>1, <1>2, SetInduction
<1>4. \A n \in Nat : n + 1 \in B /\ n < n + 1
  BY <1>3
<1> QED BY <1>4

-------------------------------------------------------------------------------
(* Division *)

LEMMA Division ==
  ASSUME NEW L \in Nat \ {0}, NEW n \in Nat
  PROVE  /\ n \div L \in Nat
         /\ n % L \in Nat
         /\ n = L * (n \div L) + (n % L)
         /\ n \div L <= n
<1>1. n = L * (n \div L) + (n % L)
  OBVIOUS
<1>2. n \div L \in Nat /\ n % L \in Nat
  OBVIOUS
<1>3. n \div L <= n
  OBVIOUS
<1> QED BY <1>1, <1>2, <1>3

-------------------------------------------------------------------------------
(* LocalSpeakerId is well defined *)

(* The body of _local_speaker_id, given what it says of smaller indices.    *)
Letter(id, n) ==
  IF n \div Letters = 0
  THEN <<n % Letters>>
  ELSE Append(id[n \div Letters - 1], n % Letters)

(* The index of what stands before the last letter is smaller.              *)
LEMMA PrefixIsSmaller ==
  ASSUME NEW n \in Nat, n \div Letters # 0
  PROVE  n \div Letters - 1 \in 0..(n - 1)
<1>1. Letters \in Nat \ {0}
  BY PreparationAssumption
<1> QED BY <1>1, Division

LEMMA LetterType ==
  ASSUME NEW n \in Nat, NEW id, \A m \in 0..(n - 1) : id[m] \in Seq(Nat)
  PROVE  Letter(id, n) \in Seq(Nat)
<1>1. Letters \in Nat \ {0}
  BY PreparationAssumption
<1>2. n % Letters \in Nat
  BY <1>1, Division
<1>3. CASE n \div Letters = 0
  BY <1>2, <1>3 DEF Letter
<1>4. CASE n \div Letters # 0
  <2>1. id[n \div Letters - 1] \in Seq(Nat)
    BY <1>4, PrefixIsSmaller
  <2> QED BY <1>2, <1>4, <2>1, AppendProperties DEF Letter
<1> QED BY <1>3, <1>4

(* It depends on the smaller indices only.                                  *)
LEMMA LetterLocal ==
  ASSUME NEW n \in Nat, NEW g, NEW h, \A m \in 0..(n - 1) : g[m] = h[m]
  PROVE  Letter(g, n) = Letter(h, n)
<1>1. CASE n \div Letters = 0
  BY <1>1 DEF Letter
<1>2. CASE n \div Letters # 0
  BY <1>2, PrefixIsSmaller DEF Letter
<1> QED BY <1>1, <1>2

(* What the function is up to n.                                            *)
UpTo(n) == {g \in [0..n -> Seq(Nat)] : \A m \in 0..n : g[m] = Letter(g, m)}

LEMMA UpToExists == \A n \in Nat : UpTo(n) # {}
<1> DEFINE S == {n \in Nat : UpTo(n) # {}}
<1>1. 0 \in S
  <2> DEFINE g == [m \in 0..0 |-> Letter(<<>>, 0)]
  <2>1. Letter(<<>>, 0) \in Seq(Nat)
    BY LetterType
  <2>2. Letter(g, 0) = Letter(<<>>, 0)
    BY LetterLocal
  <2>3. \A m \in 0..0 : m = 0
    OBVIOUS
  <2>4. g \in [0..0 -> Seq(Nat)] /\ g[0] = Letter(g, 0)
    BY <2>1, <2>2
  <2>5. g \in UpTo(0)
    <3> HIDE DEF g
    <3> QED BY <2>3, <2>4 DEF UpTo
  <2> QED BY <2>5
<1>2. ASSUME NEW n \in Nat, n \in S PROVE n + 1 \in S
  <2>1. PICK g \in UpTo(n) : TRUE
    BY <1>2
  <2>2. /\ g \in [0..n -> Seq(Nat)]
        /\ \A m \in 0..n : g[m] = Letter(g, m)
    BY <2>1 DEF UpTo
  <2> DEFINE h == [m \in 0..(n + 1) |-> IF m = n + 1 THEN Letter(g, n + 1) ELSE g[m]]
  <2>3. Letter(g, n + 1) \in Seq(Nat)
    <3>1. \A m \in 0..(n + 1 - 1) : g[m] \in Seq(Nat)
      BY <2>2
    <3> QED BY <3>1, LetterType
  <2>4. h \in [0..(n + 1) -> Seq(Nat)]
    BY <2>2, <2>3
  <2>5. h[n + 1] = Letter(g, n + 1) /\ \A m \in 0..n : h[m] = g[m]
    OBVIOUS
  <2>6. ASSUME NEW m \in 0..(n + 1) PROVE h[m] = Letter(h, m)
    <3> HIDE DEF h
    <3>1. \A k \in 0..(m - 1) : g[k] = h[k]
      BY <2>5
    <3>2. Letter(g, m) = Letter(h, m)
      BY <3>1, LetterLocal
    <3>3. m = n + 1 \/ m \in 0..n
      OBVIOUS
    <3> QED BY <2>2, <2>5, <3>2, <3>3
  <2>7. h \in UpTo(n + 1)
    <3> HIDE DEF h
    <3> QED BY <2>4, <2>6 DEF UpTo
  <2> QED BY <2>7
<1>3. Nat \subseteq S
  <2> HIDE DEF S
  <2> QED BY <1>1, <1>2, SetInduction
<1> QED BY <1>3

LEMMA UpToAgree ==
  \A n, a, b \in Nat : n <= a /\ n <= b =>
    \A g \in UpTo(a), h \in UpTo(b) : g[n] = h[n]
<1> DEFINE Agree(n) == \A a, b \in Nat : n <= a /\ n <= b =>
                         \A g \in UpTo(a), h \in UpTo(b) : g[n] = h[n]
           S == {n \in Nat : Agree(n)}
<1>1. ASSUME NEW n \in Nat, \A m \in Nat : m < n => m \in S
      PROVE  n \in S
  <2> SUFFICES ASSUME NEW a \in Nat, NEW b \in Nat, n <= a, n <= b,
                      NEW g \in UpTo(a), NEW h \in UpTo(b)
               PROVE  g[n] = h[n]
    OBVIOUS
  <2>1. \A m \in 0..(n - 1) : Agree(m) /\ m <= a /\ m <= b
    BY <1>1
  <2>2. \A m \in 0..(n - 1) : g[m] = h[m]
    BY <2>1
  <2>3. g[n] = Letter(g, n) /\ h[n] = Letter(h, n)
    BY DEF UpTo
  <2> QED BY <2>2, <2>3, LetterLocal
<1>2. Nat \subseteq S
  <2> HIDE DEF S
  <2> QED BY <1>1, StrongInduction
<1> QED BY <1>2

(* The function that LocalSpeakerId declares.                               *)
LocalId == CHOOSE id : id = [n \in Nat |-> Letter(id, n)]

LEMMA LocalIdSolves ==
  /\ LocalId = [n \in Nat |-> Letter(LocalId, n)]
  /\ \A n \in Nat : LocalSpeakerId(n) = LocalId[n]
<1> DEFINE part(n) == CHOOSE g \in UpTo(n) : TRUE
           id == [n \in Nat |-> part(n)[n]]
<1>1. \A n \in Nat : part(n) \in UpTo(n)
  BY UpToExists
<1>2. ASSUME NEW n \in Nat PROVE id[n] = Letter(id, n)
  <2> HIDE DEF part
  <2>1. part(n)[n] = Letter(part(n), n)
    BY <1>1 DEF UpTo
  <2>2. \A m \in 0..(n - 1) : part(m)[m] = part(n)[m]
    BY <1>1, UpToAgree
  <2>3. \A m \in 0..(n - 1) : id[m] = part(n)[m]
    BY <2>2
  <2>4. Letter(id, n) = Letter(part(n), n)
    <3> HIDE DEF id
    <3> QED BY <2>3, LetterLocal
  <2> QED BY <2>1, <2>4
<1>3. id = [n \in Nat |-> Letter(id, n)]
  <2>1. id = [n \in Nat |-> id[n]]
    OBVIOUS
  <2> HIDE DEF id
  <2> QED BY <1>2, <2>1
<1>4. \E f : f = [n \in Nat |-> Letter(f, n)]
  <2> HIDE DEF id
  <2> QED BY <1>3
<1>5. LocalId = [n \in Nat |-> Letter(LocalId, n)]
  BY <1>4 DEF LocalId
<1>6. \A n \in Nat : LocalSpeakerId(n) = LocalId[n]
  BY DEF LocalSpeakerId, LocalId, Letter
<1> QED BY <1>5, <1>6

LEMMA LocalIdEquation ==
  ASSUME NEW n \in Nat
  PROVE  LocalId[n] = Letter(LocalId, n)
BY LocalIdSolves

LEMMA LocalIdType == \A n \in Nat : LocalId[n] \in Seq(Nat) /\ LocalId[n] # << >>
<1> DEFINE S == {n \in Nat : LocalId[n] \in Seq(Nat)}
<1>1. ASSUME NEW n \in Nat, \A m \in Nat : m < n => m \in S
      PROVE  n \in S
  <2>1. \A m \in 0..(n - 1) : LocalId[m] \in Seq(Nat)
    BY <1>1
  <2> QED BY <2>1, LetterType, LocalIdEquation
<1>2. Nat \subseteq S
  <2> HIDE DEF S
  <2> QED BY <1>1, StrongInduction
<1>3. ASSUME NEW n \in Nat PROVE LocalId[n] # << >>
  <2>1. CASE n \div Letters = 0
    <3>1. LocalId[n] = <<n % Letters>>
      BY <2>1, LocalIdEquation DEF Letter
    <3>2. Len(<<n % Letters>>) = 1 /\ Len(<< >>) = 0
      OBVIOUS
    <3> QED BY <3>1, <3>2
  <2>2. CASE n \div Letters # 0
    <3>1. LocalId[n \div Letters - 1] \in Seq(Nat)
      BY <1>2, <2>2, PrefixIsSmaller
    <3>2. n % Letters \in Nat
      BY Division, PreparationAssumption
    <3>3. LocalId[n] = Append(LocalId[n \div Letters - 1], n % Letters)
      BY <2>2, LocalIdEquation DEF Letter
    <3> QED BY <3>1, <3>2, <3>3, AppendProperties
  <2> QED BY <2>1, <2>2
<1> QED BY <1>2, <1>3

-------------------------------------------------------------------------------
(* Two indices never have one pseudonym *)

(* Both have one letter: the letter is the index.                           *)
LEMMA OneLetterEach ==
  ASSUME NEW m \in Nat, NEW n \in Nat, n \div Letters = 0, LocalId[m] = LocalId[n]
  PROVE  m = n
<1>1. Letters \in Nat \ {0}
  BY PreparationAssumption
<1>2. LocalId[n] = <<n % Letters>>
  BY LocalIdEquation DEF Letter
<1>3. n = n % Letters
  <2>1. n = Letters * (n \div Letters) + (n % Letters) /\ n % Letters \in Nat
    BY <1>1, Division
  <2> QED BY <1>1, <2>1
<1>4. CASE m \div Letters = 0
  <2>1. LocalId[m] = <<m % Letters>>
    BY <1>4, LocalIdEquation DEF Letter
  <2>2. m = Letters * (m \div Letters) + (m % Letters) /\ m % Letters \in Nat
    BY <1>1, Division
  <2>3. m = m % Letters
    BY <1>1, <1>4, <2>2
  <2> QED BY <1>2, <1>3, <2>1, <2>3
<1>5. CASE m \div Letters # 0
  <2> DEFINE k == m \div Letters - 1
  <2>1. k \in Nat
    BY <1>5, PrefixIsSmaller
  <2>2. LocalId[m] = Append(LocalId[k], m % Letters)
    BY <1>5, LocalIdEquation DEF Letter
  <2>3. LocalId[k] \in Seq(Nat) /\ Len(LocalId[k]) > 0
    BY <2>1, LocalIdType, EmptySeq, LenProperties
  <2>9. Len(LocalId[k]) > 0
    BY <2>3
  <2>4. m % Letters \in Nat
    BY <1>1, Division
  <2>5. Len(LocalId[m]) = Len(LocalId[k]) + 1
    <3> HIDE DEF k
    <3> QED BY <2>2, <2>3, <2>4, AppendProperties
  <2>6. Len(LocalId[n]) = 1
    BY <1>2
  <2>7. Len(LocalId[k]) \in Nat
    BY <2>3, LenProperties
  <2>8. Len(LocalId[m]) = Len(LocalId[n])
    OBVIOUS
  <2> HIDE DEF k
  <2>10. Len(LocalId[k]) + 1 = 1
    BY <2>5, <2>6, <2>8, Zenon
  <2>11. Len(LocalId[k]) = 0
    BY <2>7, <2>10
  <2> QED BY <2>9, <2>11
<1> QED BY <1>4, <1>5

(* By induction on one of the two: the last letters and what stands before  *)
(* them determine an index.                                                 *)
LEMMA PseudonymsDiffer ==
  \A n, m \in Nat : LocalSpeakerId(m) = LocalSpeakerId(n) => m = n
<1> DEFINE S == {n \in Nat : \A m \in Nat : LocalId[m] = LocalId[n] => m = n}
<1>1. ASSUME NEW n \in Nat, \A m \in Nat : m < n => m \in S
      PROVE  n \in S
  <2> SUFFICES ASSUME NEW m \in Nat, LocalId[m] = LocalId[n] PROVE m = n
    OBVIOUS
  <2>1. CASE n \div Letters = 0
    BY <2>1, OneLetterEach
  <2>2. CASE m \div Letters = 0
    BY <2>2, OneLetterEach
  <2>3. CASE n \div Letters # 0 /\ m \div Letters # 0
    <3>0. Letters \in Nat \ {0}
      BY PreparationAssumption
    <3> DEFINE i == m \div Letters - 1
               j == n \div Letters - 1
    <3>1. i \in Nat /\ j \in Nat /\ j < n
      BY <2>3, PrefixIsSmaller
    <3>2. m % Letters \in Nat /\ n % Letters \in Nat
      BY <3>0, Division
    <3>3. /\ LocalId[m] = Append(LocalId[i], m % Letters)
          /\ LocalId[n] = Append(LocalId[j], n % Letters)
      BY <2>3, LocalIdEquation DEF Letter
    <3>4. LocalId[i] = LocalId[j] /\ m % Letters = n % Letters
      <4>1. LocalId[i] \in Seq(Nat) /\ LocalId[j] \in Seq(Nat)
        BY <3>1, LocalIdType
      <4>2. Append(LocalId[i], m % Letters) = Append(LocalId[j], n % Letters)
        BY <3>3
      <4> HIDE DEF i, j
      <4>3. PICK u \in Seq(Nat), v \in Seq(Nat), a \in Nat, b \in Nat :
              u = LocalId[i] /\ v = LocalId[j] /\ a = m % Letters /\ b = n % Letters
        BY <3>2, <4>1
      <4>4. Append(u, a) = Append(v, b)
        BY <4>2, <4>3
      <4>5. u = v /\ a = b
        BY <4>4, AppendInjective
      <4> QED BY <4>3, <4>5
    <3>5. i = j
      <4> HIDE DEF i, j
      <4> QED BY <1>1, <3>1, <3>4
    <3>6. m \div Letters = n \div Letters
      BY <3>0, <3>5, Division
    <3>7. /\ m = Letters * (m \div Letters) + (m % Letters)
          /\ n = Letters * (n \div Letters) + (n % Letters)
      BY <3>0, Division
    <3> HIDE DEF i, j
    <3> QED BY <3>4, <3>6, <3>7
  <2> QED BY <2>1, <2>2, <2>3
<1>2. Nat \subseteq S
  <2> HIDE DEF S
  <2> QED BY <1>1, StrongInduction
<1> QED BY <1>2, LocalIdSolves

-------------------------------------------------------------------------------
(* Speakers and pseudonyms of a conversation *)

Distinct(map) == \A i, j \in 1..Len(map) : map[i] = map[j] => i = j

(* A prepared message bears the pseudonym of its speaker's place.           *)
Named(c, m, map) ==
  \E i \in 1..Len(map) :
    /\ map[i] = Raw[c][m.index].speaker_external_id
    /\ m.row.speaker_local_id = LocalSpeakerId(i - 1)

ThreadNames(c, p) ==
  /\ Distinct(p.speaker_map)
  /\ \A k \in 1..Len(p.prepared) : Named(c, p.prepared[k], p.speaker_map)

(* No speaker is twice in a thread's speaker_map, and every message has the *)
(* pseudonym of its speaker's place there, which later speakers do not move.*)
PseudonymInv == \A c \in Cases : ThreadNames(c, prep[c])

LEMMA PseudonymInvInit == Init => PseudonymInv
<1> SUFFICES ASSUME Init, NEW c \in Cases PROVE ThreadNames(c, prep[c])
  BY DEF PseudonymInv
<1>1. prep[c].speaker_map = << >> /\ prep[c].prepared = << >>
  BY DEF Init, PrepInit
<1>2. \A i \in 1..Len(<< >>) : FALSE
  OBVIOUS
<1> QED BY <1>1, <1>2 DEF ThreadNames, Distinct

(* speaker_map.setdefault: the known speakers keep their places.            *)
WithSpeaker(known, name) ==
  IF Contains(known, name) THEN known ELSE Append(known, name)

HasAdded(S, known, name, map) ==
  /\ map \in Seq(S)
  /\ Distinct(map)
  /\ Len(known) <= Len(map)
  /\ \A i \in 1..Len(known) : map[i] = known[i]
  /\ \E i \in 1..Len(map) : map[i] = name

LEMMA SpeakerAdded ==
  ASSUME NEW S, NEW known \in Seq(S), NEW name \in S, Distinct(known),
         NEW map, map = WithSpeaker(known, name)
  PROVE  HasAdded(S, known, name, map)
<1>1. Len(known) \in Nat /\ DOMAIN known = 1..Len(known)
  BY LenProperties
<1>2. CASE Contains(known, name)
  <2>1. map = known
    BY <1>2 DEF WithSpeaker
  <2>2. \E i \in 1..Len(known) : known[i] = name
    BY <1>1, <1>2 DEF Contains
  <2>3. Len(known) <= Len(known)
    BY <1>1
  <2> QED BY <2>1, <2>2, <2>3, Zenon DEF HasAdded
<1>3. CASE ~Contains(known, name)
  <2>1. \A i \in 1..Len(known) : known[i] # name
    BY <1>1, <1>3 DEF Contains
  <2>2. map = Append(known, name)
    BY <1>3 DEF WithSpeaker
  <2>3. /\ map \in Seq(S)
        /\ Len(map) = Len(known) + 1
        /\ \A i \in 1..Len(known) : map[i] = known[i]
        /\ map[Len(known) + 1] = name
    <3>1. /\ Append(known, name) \in Seq(S)
          /\ Len(Append(known, name)) = Len(known) + 1
          /\ \A i \in 1..Len(known) : Append(known, name)[i] = known[i]
          /\ Append(known, name)[Len(known) + 1] = name
      BY AppendProperties
    <3> QED BY <2>2, <3>1, Zenon
  <2>4. \A i \in 1..Len(map) : i \in 1..Len(known) \/ i = Len(known) + 1
    BY <1>1, <2>3
  <2>5. ASSUME NEW i \in 1..Len(map), NEW j \in 1..Len(map), map[i] = map[j]
        PROVE  i = j
    <3>1. CASE i \in 1..Len(known) /\ j \in 1..Len(known)
      <4>1. known[i] = known[j]
        BY <2>3, <2>5, <3>1, Zenon
      <4> QED BY <3>1, <4>1, Zenon DEF Distinct
    <3>2. CASE i \in 1..Len(known) /\ j = Len(known) + 1
      <4>1. known[i] = name
        BY <2>3, <2>5, <3>2, Zenon
      <4> QED BY <2>1, <3>2, <4>1, Zenon
    <3>3. CASE i = Len(known) + 1 /\ j \in 1..Len(known)
      <4>1. known[j] = name
        BY <2>3, <2>5, <3>3, Zenon
      <4> QED BY <2>1, <3>3, <4>1, Zenon
    <3> QED BY <2>4, <3>1, <3>2, <3>3, Zenon
  <2>6. Len(known) + 1 \in 1..Len(map)
    BY <1>1, <2>3
  <2>7. Len(known) <= Len(map)
    BY <1>1, <2>3
  <2> QED BY <2>3, <2>5, <2>6, <2>7, Zenon DEF HasAdded, Distinct
<1> QED BY <1>2, <1>3

(* A step of a thread that names nobody.                                    *)
LEMMA MoveKeepsNames ==
  ASSUME PrepInv, PseudonymInv, NEW c \in Cases, NEW t,
         t.speaker_map = prep[c].speaker_map, t.prepared = prep[c].prepared,
         prep' = [prep EXCEPT ![c] = t]
  PROVE  PseudonymInv'
<1> SUFFICES ASSUME NEW d \in Cases PROVE ThreadNames(d, prep'[d])
  BY DEF PseudonymInv
<1>1. ThreadNames(d, prep[d]) /\ prep'[d] = IF d = c THEN t ELSE prep[d]
  BY DEF PseudonymInv, PrepInv, PrepTypeOK
<1> QED BY <1>1 DEF ThreadNames

LEMMA RedactKeepsNames ==
  ASSUME PrepInv, PseudonymInv, NEW c \in Cases, NEW i, NEW available,
         Redact(c, i, available)
  PROVE  PseudonymInv'
<1> DEFINE t == [prep[c] EXCEPT !.pc = "redact", !.current = i, !.ner = available,
                   !.spans = {s \in Raw[c][i].spans : IsRegex(s) \/ available},
                   !.selected = {}, !.last_end = -1]
<1>1. prep' = [prep EXCEPT ![c] = t]
  BY DEF Redact
<1>2. t.speaker_map = prep[c].speaker_map /\ t.prepared = prep[c].prepared
  BY DEF PrepInv, PrepTypeOK, Threads
<1> HIDE DEF t
<1> QED BY <1>1, <1>2, MoveKeepsNames

(* The append to prepared and the speaker's place.                          *)
LEMMA FinishKeepsNames ==
  ASSUME PrepInv, PseudonymInv, NEW c \in Cases, FinishMessage(c)
  PROVE  PseudonymInv'
<1> DEFINE p    == prep[c]
           name == Raw[c][p.current].speaker_external_id
<1> DEFINE map == WithSpeaker(p.speaker_map, name)
           i0  == CHOOSE i \in DOMAIN map : map[i] = name
           m   == [index    |-> p.current,
                   selected |-> p.selected,
                   ner      |-> p.ner,
                   row      |-> [speaker_local_id |-> LocalSpeakerId(i0 - 1),
                                 redacted_content |-> RedactedContent(Raw[c][p.current],
                                                                      p.selected)]]
<1>1. /\ prep' = [prep EXCEPT ![c] = Finished(p, map, m)]
      /\ m.index = p.current
      /\ m.row.speaker_local_id = LocalSpeakerId(i0 - 1)
  BY DEF FinishMessage, WithSpeaker
<1> HIDE DEF m
<1>2. /\ p \in Threads
      /\ p.current \in DOMAIN Raw[c]
      /\ ThreadNames(c, p)
  BY DEF FinishMessage, PrepInv, PrepTypeOK, ThreadOK, PseudonymInv
<1>3. name \in STRING
  <2>1. Raw[c][p.current] \in RawMessage
    BY <1>2, RawTypes
  <2> QED BY <2>1 DEF RawMessage
<1>4. p.speaker_map \in Seq(STRING) /\ p.prepared \in Seq(Prepared)
  BY <1>2 DEF Threads
<1>5. /\ map \in Seq(STRING)
      /\ Distinct(map)
      /\ Len(p.speaker_map) <= Len(map)
      /\ \A i \in 1..Len(p.speaker_map) : map[i] = p.speaker_map[i]
      /\ \E i \in 1..Len(map) : map[i] = name
  <2>1. Distinct(p.speaker_map)
    BY <1>2 DEF ThreadNames
  <2> HIDE DEF p, name
  <2>2. map = WithSpeaker(p.speaker_map, name)
    OBVIOUS
  <2> HIDE DEF map
  <2>3. PICK S, known, new, after :
          /\ S = STRING /\ known = p.speaker_map /\ new = name /\ after = map
          /\ known \in Seq(S) /\ new \in S
    BY <1>3, <1>4
  <2>4. Distinct(known) /\ after = WithSpeaker(known, new)
    BY <2>1, <2>2, <2>3
  <2>5. known \in Seq(S) /\ new \in S
    BY <2>3
  <2>6. HasAdded(S, known, new, after)
    BY <2>4, <2>5, SpeakerAdded
  <2> QED BY <2>3, <2>6, Zenon DEF HasAdded
<1> HIDE DEF map
<1>6. Named(c, m, map)
  <2>1. DOMAIN map = 1..Len(map)
    BY <1>5, LenProperties
  <2>2. i0 \in 1..Len(map) /\ map[i0] = name
    BY <1>5, <2>1
  <2>3. name = Raw[c][m.index].speaker_external_id
    BY <1>1
  <2> HIDE DEF i0, name
  <2> QED BY <1>1, <2>2, <2>3 DEF Named
<1>7. \A k \in 1..Len(p.prepared) : Named(c, p.prepared[k], map)
  <2>1. \A i \in 1..Len(p.speaker_map) : i \in 1..Len(map)
    BY <1>4, <1>5, LenProperties
  <2> QED BY <1>2, <1>5, <2>1 DEF ThreadNames, Named
<1> DEFINE t == Finished(p, map, m)
<1>8. t.speaker_map = map /\ t.prepared = Append(p.prepared, m)
  BY <1>2 DEF Threads, Finished
<1> HIDE DEF t
<1>9. ThreadNames(c, t)
  <2>1. /\ Len(Append(p.prepared, m)) = Len(p.prepared) + 1
        /\ \A k \in 1..(Len(p.prepared) + 1) :
             Append(p.prepared, m)[k] = IF k \in 1..Len(p.prepared) THEN p.prepared[k] ELSE m
    <3> HIDE DEF p
    <3> QED BY <1>4
  <2> HIDE DEF p
  <2> QED BY <1>5, <1>6, <1>7, <1>8, <2>1 DEF ThreadNames
<1> SUFFICES ASSUME NEW d \in Cases PROVE ThreadNames(d, prep'[d])
  BY DEF PseudonymInv
<1>10. ThreadNames(d, prep[d]) /\ prep'[d] = IF d = c THEN t ELSE prep[d]
  BY <1>1 DEF PseudonymInv, PrepInv, PrepTypeOK, t
<1> QED BY <1>9, <1>10

LEMMA PseudonymInvStep == PrepInv /\ PseudonymInv /\ [Next]_vars => PseudonymInv'
<1> SUFFICES ASSUME PrepInv, PseudonymInv, [Next]_vars PROVE PseudonymInv'
  OBVIOUS
<1>1. ASSUME NEW c \in Cases, NEW pc, NEW i,
             prep' = [prep EXCEPT ![c] = [prep[c] EXCEPT !.pc = pc, !.current = i]]
      PROVE  PseudonymInv'
  <2> DEFINE t == [prep[c] EXCEPT !.pc = pc, !.current = i]
  <2>1. t.speaker_map = prep[c].speaker_map /\ t.prepared = prep[c].prepared
    BY DEF PrepInv, PrepTypeOK, Threads
  <2> HIDE DEF t
  <2> QED BY <1>1, <2>1, MoveKeepsNames DEF t
<1>2. ASSUME NEW c \in Cases, NEW pc, prep' = [prep EXCEPT ![c].pc = pc]
      PROVE  PseudonymInv'
  <2> DEFINE t == [prep[c] EXCEPT !.pc = pc]
  <2>1. t.speaker_map = prep[c].speaker_map /\ t.prepared = prep[c].prepared
    BY DEF PrepInv, PrepTypeOK, Threads
  <2>2. prep' = [prep EXCEPT ![c] = t]
    BY <1>2
  <2> HIDE DEF t
  <2> QED BY <2>1, <2>2, MoveKeepsNames
<1>3. ASSUME NEW c \in Cases, GetNerPipeline(c) PROVE PseudonymInv'
  <2>1. PICK i \in prep[c].remaining :
          IF ner_pipeline \/ ner_load_failed
          THEN Redact(c, i, ner_pipeline)
          ELSE prep' = [prep EXCEPT ![c].pc = "loading", ![c].current = i]
    BY <1>3 DEF GetNerPipeline
  <2>2. CASE ner_pipeline \/ ner_load_failed
    BY <2>1, <2>2, RedactKeepsNames
  <2>3. CASE ~(ner_pipeline \/ ner_load_failed)
    <3>1. prep' = [prep EXCEPT ![c] = [prep[c] EXCEPT !.pc = "loading", !.current = i]]
      BY <2>1, <2>3 DEF PrepInv, PrepTypeOK
    <3> QED BY <1>1, <3>1
  <2> QED BY <2>2, <2>3
<1>4. ASSUME NEW c \in Cases, TakeSpan(c) PROVE PseudonymInv'
  <2>1. PICK s : prep' = [prep EXCEPT ![c] = Select(prep[c], s)]
    BY <1>4 DEF TakeSpan
  <2> DEFINE t == Select(prep[c], s)
  <2>2. t.speaker_map = prep[c].speaker_map /\ t.prepared = prep[c].prepared
    BY DEF Select, PrepInv, PrepTypeOK, Threads
  <2> HIDE DEF t
  <2> QED BY <2>1, <2>2, MoveKeepsNames DEF t
<1>5. CASE PrepNext
  <2>1. PICK c \in Cases :
          \/ Prepare(c) \/ GetNerPipeline(c) \/ LoadSucceeds(c) \/ LoadFails(c)
          \/ TakeSpan(c) \/ FinishMessage(c) \/ Refuse(c)
    BY <1>5 DEF PrepNext
  <2>2. CASE Prepare(c) \/ Refuse(c)
    BY <1>2, <2>2 DEF Prepare, Refuse
  <2>3. CASE LoadSucceeds(c) \/ LoadFails(c)
    BY <2>3, RedactKeepsNames DEF LoadSucceeds, LoadFails
  <2> QED BY <1>3, <1>4, <2>1, <2>2, <2>3, FinishKeepsNames
<1>6. CASE \E c \in Cases : Submit(c)
  BY <1>2, <1>6 DEF Submit, Commit
<1>7. CASE UNCHANGED prepVars
  BY <1>7 DEF prepVars, PseudonymInv
<1> QED BY <1>5, <1>6, <1>7 DEF Next, vars

(* Threads name their speakers one by one.                                  *)
THEOREM PseudonymInvariant == Spec => []PseudonymInv
<1>1. Init => PseudonymInv
  BY PseudonymInvInit
<1>2. PrepInv /\ PseudonymInv /\ [Next]_vars => PseudonymInv'
  BY PseudonymInvStep
<1> QED BY <1>1, <1>2, CaseInvariant, PTL DEF Spec

(* Two messages of a conversation have one pseudonym exactly if they have   *)
(* one speaker, whatever the number of letters and of speakers.             *)
THEOREM PseudonymsAreFaithful == Spec => []PseudonymsFaithful
<1>1. PrepInv /\ PseudonymInv => PseudonymsFaithful
  <2> SUFFICES ASSUME PrepInv, PseudonymInv, NEW c \in Cases,
                      NEW m \in PreparedMessages(c), NEW n \in PreparedMessages(c)
               PROVE  Raw[c][m.index].speaker_external_id = Raw[c][n.index].speaker_external_id
                        <=> m.row.speaker_local_id = n.row.speaker_local_id
    BY DEF PseudonymsFaithful
  <2> DEFINE map == prep[c].speaker_map
  <2>1. prep[c].prepared \in Seq(Prepared) /\ map \in Seq(STRING)
    BY DEF PrepInv, PrepTypeOK, Threads
  <2>2. \A k \in DOMAIN prep[c].prepared : Named(c, prep[c].prepared[k], map)
    BY <2>1 DEF PseudonymInv, ThreadNames
  <2>3. Named(c, m, map) /\ Named(c, n, map)
    BY <2>2 DEF PreparedMessages
  <2>4. Distinct(map) /\ Len(map) \in Nat
    BY <2>1, LenProperties DEF PseudonymInv, ThreadNames
  <2> HIDE DEF map
  <2>5. PICK i \in 1..Len(map) :
          /\ map[i] = Raw[c][m.index].speaker_external_id
          /\ m.row.speaker_local_id = LocalSpeakerId(i - 1)
    BY <2>3 DEF Named
  <2>6. PICK j \in 1..Len(map) :
          /\ map[j] = Raw[c][n.index].speaker_external_id
          /\ n.row.speaker_local_id = LocalSpeakerId(j - 1)
    BY <2>3 DEF Named
  <2>7. i - 1 \in Nat /\ j - 1 \in Nat /\ (i - 1 = j - 1 => i = j)
    BY <2>4
  <2>8. LocalSpeakerId(i - 1) = LocalSpeakerId(j - 1) => i = j
    BY <2>7, PseudonymsDiffer
  <2>9. map[i] = map[j] => i = j
    BY <2>4 DEF Distinct
  <2> QED BY <2>5, <2>6, <2>8, <2>9
<1> QED BY <1>1, PseudonymInvariant, CaseInvariant, PTL
===============================================================================

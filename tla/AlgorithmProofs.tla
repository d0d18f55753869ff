--------------------------- MODULE AlgorithmProofs ---------------------------
(* Proofs about the algorithms whose correctness is an invariant or an action *)
(* property: the selection loop of the PLIC, the memo of the decoder, and the *)
(* arithmetic of the instructions, for bytes and registers of any width. Each *)
(* has a state machine and a specification of its own. Induction comes from   *)
(* AddressProofs.                                                             *)
EXTENDS AddressProofs, PlicSelect, Decode, Alu

-----------------------------------------------------------------------------
\* The selection loop of the PLIC.

\* The invariant that carries the proof: the types, and the best so far.
LoopHolds == TypeOK /\ BestSoFar

\* What the type invariant gives the arithmetic.
LEMMA Numbers ==
  ASSUME TypeOK
  PROVE  /\ PLIC_MAX_SOURCE \in Nat /\ source \in Nat
         /\ candidates \subseteq Nat
         /\ priority \in [Sources -> Nat] /\ threshold \in Nat
<1>1. PLIC_MAX_SOURCE \in Nat /\ Priorities \subseteq Nat
  BY SelectAssumption DEF SelectAssumption
<1>2. source \in Nat /\ candidates \subseteq Nat
  BY <1>1 DEF TypeOK, Sources
<1>3. priority \in [Sources -> Nat] /\ threshold \in Nat
  BY <1>1 DEF TypeOK
<1>4. QED
  BY <1>1, <1>2, <1>3

\* The sources below the next limit are those below this one, and possibly
\* the current source.
LEMMA EligibleNext ==
  ASSUME TypeOK, source <= PLIC_MAX_SOURCE
  PROVE  /\ Skipped(source) => Eligible(source + 1) = Eligible(source)
         /\ ~Skipped(source) => Eligible(source + 1) = Eligible(source) \cup {source}
<1>1. candidates \subseteq Sources
  BY DEF TypeOK
<1>2. \A s \in candidates : s < source + 1 <=> s < source \/ s = source
  BY Numbers
<1>3. \A s \in Sources : priority[s] \in Nat
  BY Numbers
<1>4. \A s \in candidates : priority[s] > threshold <=> ~(priority[s] <= threshold)
  BY <1>1, <1>3, Numbers
<1>5. CASE Skipped(source)
  BY <1>2, <1>4, <1>5 DEF Eligible, Skipped
<1>6. CASE ~Skipped(source)
  BY <1>2, <1>4, <1>6 DEF Eligible, Skipped
<1>7. QED
  BY <1>5, <1>6

\* The loop preserves its invariant.
LEMMA IterateKeeps ==
  ASSUME LoopHolds, Iterate
  PROVE  LoopHolds'
<1> USE SelectAssumption DEF SelectAssumption, LoopHolds
<1>1. source <= PLIC_MAX_SOURCE /\ source' = source + 1 /\ UNCHANGED inputs
  BY DEF Iterate
<1>2. source \in Sources /\ source \notin Eligible(source)
  BY <1>1 DEF TypeOK, Sources, Eligible
<1>3. Eligible(source)' = Eligible(source + 1)
  BY <1>1 DEF Eligible, inputs
<1>4. \A r \in Eligible(source) : r \in Sources /\ r < source
  BY DEF Eligible, TypeOK
<1>5. priority \in [Sources -> Nat] /\ priority' = priority
  BY <1>1 DEF TypeOK, inputs
<1>6. CASE Take(source)
  <2>1. /\ bestSource' = source /\ bestPriority' = priority[source]
        /\ ~Skipped(source) /\ Beats(source)
    BY <1>6 DEF Take
  <2>2. TypeOK'
    BY <1>1, <1>2, <2>1 DEF TypeOK, inputs, Sources
  <2>3. Eligible(source)' = Eligible(source) \cup {source}
    BY <1>1, <1>3, <2>1, EligibleNext
  <2>4. \A r \in Eligible(source) : priority[r] < priority[source]
    <3>1. CASE bestSource = 0
      BY <3>1 DEF BestSoFar
    <3>2. CASE bestSource # 0
      <4>1. bestSource \in Eligible(source) /\ bestPriority = priority[bestSource]
        BY <3>2 DEF BestSoFar, IsBest
      <4>2. priority[source] > bestPriority
        BY <1>2, <1>4, <1>5, <2>1, <3>2, <4>1 DEF Beats, Sources
      <4>3. QED
        BY <1>2, <1>4, <1>5, <3>2, <4>1, <4>2 DEF BestSoFar, IsBest
    <3>3. QED
      BY <3>1, <3>2
  <2>5. IsBest(source, Eligible(source) \cup {source})
    BY <1>2, <2>4 DEF IsBest, Sources
  <2>6. BestSoFar'
    BY <1>2, <1>5, <2>1, <2>3, <2>5 DEF BestSoFar, IsBest, Sources
  <2>7. QED
    BY <2>2, <2>6
<1>7. CASE Pass(source)
  <2>1. UNCHANGED <<bestSource, bestPriority>> /\ (Skipped(source) \/ ~Beats(source))
    BY <1>7 DEF Pass
  <2>2. TypeOK'
    BY <1>1, <2>1 DEF TypeOK, inputs
  <2>3. CASE Skipped(source)
    <3>1. Eligible(source)' = Eligible(source)
      BY <1>1, <1>3, <2>3, EligibleNext
    <3>2. BestSoFar'
      BY <1>5, <2>1, <3>1 DEF BestSoFar, IsBest
    <3>3. QED
      BY <2>2, <3>2
  <2>4. CASE ~Skipped(source)
    <3>1. bestSource # 0 /\ ~(priority[source] > bestPriority)
      BY <2>1, <2>4 DEF Beats
    <3>2. Eligible(source)' = Eligible(source) \cup {source}
      BY <1>1, <1>3, <2>4, EligibleNext
    <3>3. /\ IsBest(bestSource, Eligible(source)) /\ bestPriority = priority[bestSource]
          /\ bestSource \in Sources /\ bestSource < source
      BY <1>4, <3>1 DEF BestSoFar, IsBest
    <3>4. IsBest(bestSource, Eligible(source) \cup {source})
      BY <1>2, <1>5, <3>1, <3>3 DEF IsBest, Sources
    <3>5. BestSoFar'
      BY <1>5, <2>1, <3>1, <3>2, <3>3, <3>4 DEF BestSoFar, IsBest
    <3>6. QED
      BY <2>2, <3>5
  <2>5. QED
    BY <2>3, <2>4
<1>8. QED
  BY <1>6, <1>7 DEF Iterate

\* The loop invariant: types, and the best of the sources looked at so far.
THEOREM LoopInvariant == Spec => []LoopHolds
<1>1. Init => LoopHolds
  <2> SUFFICES ASSUME Init PROVE LoopHolds
    OBVIOUS
  <2>1. PLIC_MAX_SOURCE \in Nat \ {0}
    BY SelectAssumption DEF SelectAssumption
  <2>2. TypeOK
    BY <2>1 DEF Init, TypeOK, Sources
  <2>3. Eligible(source) = {}
    <3>1. source = 1 /\ \A s \in candidates : ~(s < 1)
      BY <2>1 DEF Init, Sources
    <3>2. QED
      BY <3>1 DEF Eligible
  <2>4. QED
    BY <2>2, <2>3 DEF Init, LoopHolds, BestSoFar
<1>2. LoopHolds /\ [Next]_vars => LoopHolds'
  <2>1. LoopHolds /\ Next => LoopHolds'
    BY IterateKeeps DEF Next
  <2>2. LoopHolds /\ UNCHANGED vars => LoopHolds'
    BY DEF LoopHolds, TypeOK, BestSoFar, Eligible, IsBest, vars, inputs
  <2>3. QED
    BY <2>1, <2>2
<1>3. QED
  BY <1>1, <1>2, PTL DEF Spec

\* The same of the invariant TLC checks: the best so far is the best so far.
THEOREM BestSoFarHolds == Spec => []BestSoFar
<1>1. LoopHolds => BestSoFar
  BY DEF LoopHolds
<1>2. QED
  BY LoopInvariant, <1>1, PTL

\* selectClaimableSource returns the claimable source of highest priority,
\* lowest id first, or 0 when there is none, for every input.
THEOREM SelectionCorrect == Spec => []SelectsBest
<1>1. LoopHolds => SelectsBest
  BY DEF LoopHolds, BestSoFar, SelectsBest
<1>2. QED
  BY LoopInvariant, <1>1, PTL

-----------------------------------------------------------------------------
\* The decoder's memo.

\* What the guest fetches, and what the map may hold: a key and what it decodes to.
Fetchable == Parcels \cup HotParcels
Entry(w)  == <<KeyOf(w), decode(w)>>
EntrySet  == {Entry(w) : w \in Fetchable}

\* No two entries of a map have the same key.
Distinct(map) == \A j, k \in DOMAIN map : map[j][1] = map[k][1] => j = k

\* The inductive form of CacheFaithful.
MapHolds ==
  /\ fetched.word \in Fetchable /\ fetched.ins = decode(fetched.word)
  /\ thunks \in Seq(EntrySet) /\ Distinct(thunks)
  /\ Len(thunks) \in 1 .. MaxEntries
  /\ thunks[Len(thunks)] = Entry(fetched.word)

\* The key of an encoding decodes to what the encoding does: the high halfword of a
\* compressed one is not looked at.
LEMMA KeyDecodes ==
  ASSUME NEW w \in Fetchable
  PROVE  decode(KeyOf(w)) = decode(w)
<1>1. w \in [lo : Halfwords, hi : Halfwords]
  BY DecodeAssumption DEF Fetchable
<1>2. KeyOf(w).lo = w.lo /\ (Is32Bit(w) => KeyOf(w) = w)
  BY <1>1 DEF KeyOf
<1>3. Is32Bit(KeyOf(w)) <=> Is32Bit(w)
  BY <1>2 DEF Is32Bit
<1>4. QED
  BY <1>2, <1>3 DEF decode

\* Encodings with the same key decode to the same.
LEMMA SameKey ==
  ASSUME NEW v \in Fetchable, NEW w \in Fetchable, KeyOf(v) = KeyOf(w)
  PROVE  Entry(v) = Entry(w)
BY KeyDecodes DEF Entry

\* Removing an entry closes the gap.
LEMMA Removed ==
  ASSUME NEW S, NEW s \in Seq(S), NEW i \in 1 .. Len(s)
  PROVE  /\ RemoveAt(s, i) \in Seq(S) /\ Len(RemoveAt(s, i)) = Len(s) - 1
         /\ \A j \in 1 .. Len(s) - 1 : RemoveAt(s, i)[j] = IF j < i THEN s[j] ELSE s[j + 1]
<1> DEFINE a == SubSeq(s, 1, i - 1)
           b == SubSeq(s, i + 1, Len(s))
<1>1. Len(s) \in Nat
  BY LenProperties
<1>2. /\ a \in Seq(S) /\ Len(a) = i - 1
      /\ \A j \in 1 .. i - 1 : a[j] = s[j]
  <2>1. \A k \in 1 .. i - 1 : s[k] \in S
    BY <1>1, ElementOfSeq
  <2>2. QED
    BY <1>1, <2>1, SubSeqProperties
<1>3. /\ b \in Seq(S) /\ Len(b) = Len(s) - i
      /\ \A j \in 1 .. Len(s) - i : b[j] = s[i + j]
  BY <1>1
<1>4. RemoveAt(s, i) = a \o b
  BY DEF RemoveAt
<1> HIDE DEF a, b
<1>0. a \in Seq(S) /\ b \in Seq(S)
  BY <1>2, <1>3
<1>5. a \o b \in Seq(S) /\ Len(a \o b) = Len(a) + Len(b)
  BY <1>0, ConcatProperties
<1>6. \A j \in 1 .. Len(a) + Len(b) : (a \o b)[j] = IF j <= Len(a) THEN a[j] ELSE b[j - Len(a)]
  BY <1>0, ConcatProperties
<1>7. ASSUME NEW j \in 1 .. Len(s) - 1
      PROVE  (a \o b)[j] = IF j < i THEN s[j] ELSE s[j + 1]
  <2>1. CASE j < i
    BY <1>1, <1>2, <1>3, <1>6, <2>1
  <2>2. CASE ~(j < i)
    <3>1. (a \o b)[j] = b[j - (i - 1)]
      BY <1>1, <1>2, <1>3, <1>6, <2>2
    <3>2. j - (i - 1) \in 1 .. Len(s) - i /\ i + (j - (i - 1)) = j + 1
      BY <1>1, <2>2
    <3>3. QED
      BY <1>3, <2>2, <3>1, <3>2
  <2>3. QED
    BY <2>1, <2>2
<1>8. \A j \in 1 .. Len(s) - 1 : (a \o b)[j] = IF j < i THEN s[j] ELSE s[j + 1]
  BY <1>7
<1>9. Len(a \o b) = Len(s) - 1
  BY <1>1, <1>2, <1>3, <1>5
<1>10. QED
  BY <1>4, <1>5, <1>8, <1>9

\* A map that gains an entry whose key it does not have stays one.
LEMMA Added ==
  ASSUME NEW s \in Seq(EntrySet), Distinct(s), NEW x \in EntrySet,
         \A j \in DOMAIN s : s[j][1] # x[1]
  PROVE  /\ Append(s, x) \in Seq(EntrySet) /\ Distinct(Append(s, x))
         /\ Len(Append(s, x)) = Len(s) + 1 /\ Append(s, x)[Len(s) + 1] = x
<1>1. /\ Append(s, x) \in Seq(EntrySet) /\ Len(Append(s, x)) = Len(s) + 1
      /\ DOMAIN s = 1 .. Len(s) /\ DOMAIN Append(s, x) = 1 .. Len(s) + 1 /\ Len(s) \in Nat
  OBVIOUS
<1>2. \A j \in 1 .. Len(s) + 1 : Append(s, x)[j] = IF j = Len(s) + 1 THEN x ELSE s[j]
  OBVIOUS
<1>3. ASSUME NEW j \in 1 .. Len(s) + 1, NEW k \in 1 .. Len(s) + 1,
             Append(s, x)[j][1] = Append(s, x)[k][1]
      PROVE  j = k
  <2>1. CASE j = Len(s) + 1 \/ k = Len(s) + 1
    <3>1. ASSUME NEW m \in 1 .. Len(s), Append(s, x)[m][1] = x[1] PROVE FALSE
      BY <1>1, <1>2, <3>1
    <3>2. QED
      BY <1>1, <1>2, <1>3, <2>1, <3>1
  <2>2. CASE j # Len(s) + 1 /\ k # Len(s) + 1
    BY <1>1, <1>2, <1>3, <2>2 DEF Distinct
  <2>3. QED
    BY <2>1, <2>2
<1>4. QED
  BY <1>1, <1>2, <1>3 DEF Distinct

\* So does one that loses its oldest entry,
LEMMA Evicted ==
  ASSUME NEW s \in Seq(EntrySet), Distinct(s), s # <<>>
  PROVE  /\ Tail(s) \in Seq(EntrySet) /\ Distinct(Tail(s)) /\ Len(Tail(s)) = Len(s) - 1
         /\ \A j \in DOMAIN Tail(s) : j + 1 \in DOMAIN s /\ Tail(s)[j] = s[j + 1]
<1>1. /\ Tail(s) \in Seq(EntrySet) /\ Len(Tail(s)) = Len(s) - 1 /\ DOMAIN s = 1 .. Len(s)
      /\ DOMAIN Tail(s) = 1 .. Len(s) - 1 /\ Len(s) \in Nat \ {0}
  BY EmptySeq, HeadTailProperties
<1>2. \A j \in 1 .. Len(s) - 1 : j + 1 \in DOMAIN s /\ Tail(s)[j] = s[j + 1]
  BY <1>1
<1>3. QED
  BY <1>1, <1>2 DEF Distinct

\* and one that moves an entry to the newest end.
LEMMA Moved ==
  ASSUME NEW s \in Seq(EntrySet), Distinct(s), NEW i \in DOMAIN s
  PROVE  LET m == Append(RemoveAt(s, i), s[i])
         IN  m \in Seq(EntrySet) /\ Distinct(m) /\ Len(m) = Len(s) /\ m[Len(m)] = s[i]
<1> DEFINE r == RemoveAt(s, i)
<1>1. DOMAIN s = 1 .. Len(s) /\ Len(s) \in Nat /\ i \in 1 .. Len(s) /\ s[i] \in EntrySet
  OBVIOUS
<1>2. /\ r \in Seq(EntrySet) /\ Len(r) = Len(s) - 1
      /\ \A j \in 1 .. Len(s) - 1 : r[j] = IF j < i THEN s[j] ELSE s[j + 1]
  BY <1>1, Removed
<1> HIDE DEF r
<1>3. DOMAIN r = 1 .. Len(s) - 1
  BY <1>1, <1>2
<1>4. ASSUME NEW j \in DOMAIN r
      PROVE  \E k \in DOMAIN s : k # i /\ r[j] = s[k] /\ (k = j \/ k = j + 1)
                                 /\ (k = j <=> j < i)
  <2>1. CASE j < i
    BY <1>1, <1>2, <1>3, <2>1
  <2>2. CASE ~(j < i)
    <3>1. j + 1 \in DOMAIN s /\ r[j] = s[j + 1] /\ j + 1 # i /\ j + 1 # j
      BY <1>1, <1>2, <1>3, <2>2
    <3>2. QED
      BY <2>2, <3>1
  <2>3. QED
    BY <2>1, <2>2
<1>5. Distinct(r)
  <2> SUFFICES ASSUME NEW j \in DOMAIN r, NEW k \in DOMAIN r, r[j][1] = r[k][1] PROVE j = k
    BY DEF Distinct
  <2>1. PICK p \in DOMAIN s : r[j] = s[p] /\ (p = j \/ p = j + 1) /\ (p = j <=> j < i)
    BY <1>4
  <2>2. PICK q \in DOMAIN s : r[k] = s[q] /\ (q = k \/ q = k + 1) /\ (q = k <=> k < i)
    BY <1>4
  <2>3. p = q
    BY <2>1, <2>2 DEF Distinct
  <2>4. QED
    BY <1>1, <1>3, <2>1, <2>2, <2>3
<1>6. \A j \in DOMAIN r : r[j][1] # s[i][1]
  BY <1>4 DEF Distinct
<1>7. /\ Append(r, s[i]) \in Seq(EntrySet) /\ Distinct(Append(r, s[i]))
      /\ Len(Append(r, s[i])) = Len(r) + 1 /\ Append(r, s[i])[Len(r) + 1] = s[i]
  BY <1>1, <1>2, <1>5, <1>6, Added
<1>8. Len(r) + 1 = Len(s)
  BY <1>1, <1>2
<1>9. QED
  BY <1>7, <1>8 DEF r

\* A fetch that hits keeps the map.
LEMMA HitKeeps ==
  ASSUME MapHolds, NEW w \in Fetchable, DecodeHit(w)
  PROVE  MapHolds'
<1>1. PICK i \in DOMAIN thunks :
        /\ thunks[i][1] = KeyOf(w)
        /\ thunks' = Append(RemoveAt(thunks, i), thunks[i])
        /\ fetched' = [word |-> w, ins |-> thunks[i][2], length |-> LengthOf(w)]
  BY DEF DecodeHit, Cached
<1>2. thunks \in Seq(EntrySet) /\ Distinct(thunks)
  BY DEF MapHolds
<1>3. PICK v \in Fetchable : thunks[i] = Entry(v)
  <2>1. thunks[i] \in EntrySet
    BY <1>2
  <2>2. QED
    BY <2>1 DEF EntrySet
<1>4. thunks[i] = Entry(w)
  BY <1>1, <1>3, SameKey DEF Entry
<1>5. /\ thunks' \in Seq(EntrySet) /\ Distinct(thunks') /\ Len(thunks') = Len(thunks)
      /\ thunks'[Len(thunks')] = thunks[i]
  BY <1>1, <1>2, Moved
<1>6. fetched'.word = w /\ fetched'.ins = decode(w)
  BY <1>1, <1>4 DEF Entry
<1>7. QED
  BY <1>4, <1>5, <1>6 DEF MapHolds

\* So does one that misses.
LEMMA MissKeeps ==
  ASSUME MapHolds, NEW w \in Fetchable, DecodeMiss(w)
  PROVE  MapHolds'
<1> DEFINE kept == IF Len(thunks) >= MaxEntries THEN Tail(thunks) ELSE thunks
<1>1. /\ \A j \in DOMAIN thunks : thunks[j][1] # KeyOf(w)
      /\ thunks' = Append(kept, Entry(w))
      /\ fetched' = [word |-> w, ins |-> decode(w), length |-> LengthOf(w)]
  BY DEF DecodeMiss, Cached, Entry
<1>2. thunks \in Seq(EntrySet) /\ Distinct(thunks) /\ Len(thunks) \in 1 .. MaxEntries
  BY DEF MapHolds
<1>3. MaxEntries \in Nat \ {0}
  BY DecodeAssumption
<1>4. /\ kept \in Seq(EntrySet) /\ Distinct(kept) /\ Len(kept) \in 0 .. MaxEntries - 1
      /\ \A j \in DOMAIN kept : kept[j][1] # KeyOf(w)
  <2>1. CASE Len(thunks) >= MaxEntries
    <3>1. thunks # <<>>
      BY <1>2
    <3>2. /\ Tail(thunks) \in Seq(EntrySet) /\ Distinct(Tail(thunks))
          /\ Len(Tail(thunks)) = Len(thunks) - 1
          /\ \A j \in DOMAIN Tail(thunks) : Tail(thunks)[j][1] # KeyOf(w)
      BY <1>1, <1>2, <3>1, Evicted
    <3>3. QED
      BY <1>2, <1>3, <2>1, <3>2
  <2>2. CASE ~(Len(thunks) >= MaxEntries)
    BY <1>1, <1>2, <1>3, <2>2
  <2>3. QED
    BY <2>1, <2>2
<1> HIDE DEF kept
<1>5. Entry(w) \in EntrySet /\ Entry(w)[1] = KeyOf(w)
  BY DEF EntrySet, Entry
<1>6. /\ thunks' \in Seq(EntrySet) /\ Distinct(thunks') /\ Len(thunks') = Len(kept) + 1
      /\ thunks'[Len(kept) + 1] = Entry(w)
  BY <1>1, <1>4, <1>5, Added
<1>7. fetched'.word = w /\ fetched'.ins = decode(w)
  BY <1>1
<1>8. QED
  BY <1>3, <1>4, <1>6, <1>7 DEF MapHolds

\* The memo is faithful, whatever is fetched and however small the map: a key decodes
\* to what any encoding with that key does, and eviction and reinsertion keep it a map.
THEOREM MemoIsFaithful == DecodeSpec => []CacheFaithful
<1>1. DecodeInit => MapHolds
  <2> SUFFICES ASSUME NEW w \in Fetchable, thunks = <<Entry(w)>>,
                      fetched = [word |-> w, ins |-> decode(w), length |-> LengthOf(w)]
               PROVE  MapHolds
    BY DEF DecodeInit, Fetchable, Entry
  <2>1. Entry(w) \in EntrySet
    BY DEF EntrySet
  <2>2. thunks \in Seq(EntrySet) /\ Len(thunks) = 1 /\ thunks[1] = Entry(w)
    BY <2>1
  <2>3. Distinct(thunks)
    BY <2>2 DEF Distinct
  <2>4. QED
    BY <2>2, <2>3, DecodeAssumption DEF MapHolds
<1>2. MapHolds /\ [DecodeNext]_decodeVars => MapHolds'
  <2>1. ASSUME MapHolds, DecodeNext PROVE MapHolds'
    BY <2>1, HitKeeps, MissKeeps DEF DecodeNext, Fetchable
  <2>2. ASSUME MapHolds, UNCHANGED decodeVars PROVE MapHolds'
    BY <2>2 DEF MapHolds, decodeVars
  <2>3. QED
    BY <2>1, <2>2
<1>3. MapHolds => CacheFaithful
  <2> SUFFICES ASSUME MapHolds PROVE CacheFaithful
    OBVIOUS
  <2>1. ASSUME NEW j \in DOMAIN thunks PROVE thunks[j][2] = decode(thunks[j][1])
    <3>1. PICK w \in Fetchable : thunks[j] = Entry(w)
      BY DEF MapHolds, EntrySet
    <3>2. QED
      BY <3>1, KeyDecodes DEF Entry
  <2>2. Last(thunks) = Entry(fetched.word)
    BY DEF MapHolds, Last
  <2>3. Last(thunks)[1] = KeyOf(fetched.word)
    BY <2>2 DEF Entry
  <2>4. /\ fetched.ins = decode(fetched.word) /\ Len(thunks) <= MaxEntries
        /\ \A j, k \in DOMAIN thunks : thunks[j][1] = thunks[k][1] => j = k
    BY DecodeAssumption DEF MapHolds, Distinct
  <2>5. QED
    BY <2>1, <2>3, <2>4 DEF CacheFaithful
<1>4. QED
  BY <1>1, <1>2, <1>3, PTL DEF DecodeSpec

-----------------------------------------------------------------------------
\* Products and remainders.

\* Quotient and remainder of any integer by a positive number.
LEMMA Euclid ==
  ASSUME NEW a \in Int, NEW p \in Nat \ {0}
  PROVE  a \div p \in Int /\ a % p \in 0 .. p - 1 /\ a = p * (a \div p) + (a % p)
OBVIOUS

\* They are the only pair.
LEMMA EuclidIs ==
  ASSUME NEW a \in Int, NEW p \in Nat \ {0}, NEW q \in Int, NEW r \in 0 .. p - 1, a = p * q + r
  PROVE  a \div p = q /\ a % p = r
<1> DEFINE d == a \div p
           m == a % p
<1>1. d \in Int /\ m \in 0 .. p - 1 /\ a = p * d + m
  BY Euclid
<1> HIDE DEF d, m
<1>2. p * (q - d) = m - r
  BY <1>1
<1>3. CASE q > d
  <2>1. p * (q - d) >= p
    BY <1>1, <1>3
  <2>2. QED
    BY <1>1, <1>2, <2>1
<1>4. CASE q < d
  <2>1. p * (q - d) <= -p
    BY <1>1, <1>4
  <2>2. QED
    BY <1>1, <1>2, <2>1
<1>5. CASE q = d
  <2>1. p * (q - d) = 0
    BY <1>1, <1>5
  <2>2. m = r
    BY <1>1, <1>2, <2>1
  <2>3. QED
    BY <1>5, <2>2 DEF d, m
<1>6. QED
  BY <1>1, <1>3, <1>4, <1>5

\* What is below the modulus is its own remainder.
LEMMA Small ==
  ASSUME NEW p \in Nat \ {0}, NEW r \in 0 .. p - 1
  PROVE  r % p = r /\ r \div p = 0
<1>1. r = p * 0 + r
  OBVIOUS
<1>2. QED
  BY <1>1, EuclidIs

\* A multiple of the modulus changes the quotient only.
LEMMA AddMultiple ==
  ASSUME NEW a \in Int, NEW p \in Nat \ {0}, NEW k \in Int
  PROVE  (a + p * k) % p = a % p /\ (a + p * k) \div p = (a \div p) + k
<1> DEFINE d == a \div p
           m == a % p
<1>1. d \in Int /\ m \in 0 .. p - 1 /\ a = p * d + m
  BY Euclid
<1> HIDE DEF d, m
<1>2. a + p * k = p * (d + k) + m /\ a + p * k \in Int /\ d + k \in Int
  BY <1>1
<1>3. (a + p * k) \div p = d + k /\ (a + p * k) % p = m
  BY <1>1, <1>2, EuclidIs
<1>4. QED
  BY <1>3 DEF d, m

\* Two numbers are congruent if their difference is a multiple.
LEMMA Congruent ==
  ASSUME NEW a \in Int, NEW b \in Int, NEW p \in Nat \ {0}
  PROVE  /\ (a - b) % p = 0 <=> a % p = b % p
         /\ a % p = b % p <=> \E k \in Int : a = b + p * k
<1>1. ASSUME NEW k \in Int, a = b + p * k PROVE a % p = b % p /\ (a - b) % p = 0
  <2>1. a % p = b % p
    BY <1>1, AddMultiple
  <2>2. a - b = p * k + 0 /\ a - b \in Int
    BY <1>1
  <2>3. QED
    BY <2>1, <2>2, EuclidIs
<1>2. ASSUME a % p = b % p PROVE \E k \in Int : a = b + p * k
  <2> DEFINE d == a \div p
             e == b \div p
             m == a % p
  <2>1. d \in Int /\ m \in Int /\ a = p * d + m
    BY Euclid
  <2>2. e \in Int /\ b = p * e + m
    BY <1>2, Euclid
  <2> HIDE DEF d, e, m
  <2>3. a = b + p * (d - e) /\ d - e \in Int
    BY <2>1, <2>2
  <2>4. QED
    BY <2>3
<1>3. ASSUME (a - b) % p = 0 PROVE \E k \in Int : a = b + p * k
  <2> DEFINE d == (a - b) \div p
  <2>1. d \in Int /\ a - b = p * d + 0
    BY <1>3, Euclid
  <2> HIDE DEF d
  <2>2. a = b + p * d
    BY <2>1
  <2>3. QED
    BY <2>1, <2>2
<1>4. QED
  BY <1>1, <1>2, <1>3

\* d is the product of p and q; what a leaves when divided by it.
Product(d, p, q) == d = p * q
DividedBy(a, d, p, q) ==
    /\ a \div d = (a \div p) \div q
    /\ a % d = p * ((a \div p) % q) + (a % p)
    /\ (a % d) % p = a % p

\* Division by a product.
LEMMA ByProduct ==
  ASSUME NEW a \in Int, NEW p \in Nat \ {0}, NEW q \in Nat \ {0}, NEW pq, Product(pq, p, q)
  PROVE  pq \in Nat \ {0} /\ DividedBy(a, pq, p, q)
<1> DEFINE d == a \div p
           m == a % p
           e == d \div q
           n == d % q
<1>1. d \in Int /\ m \in 0 .. p - 1 /\ a = p * d + m
  BY Euclid
<1>2. e \in Int /\ n \in 0 .. q - 1 /\ d = q * e + n
  <2> HIDE DEF d
  <2>1. QED
    BY <1>1, Euclid
<1> HIDE DEF d, m, e, n
<1>3. p * q \in Nat \ {0} /\ pq = p * q
  BY DEF Product
<1>4. a = (p * q) * e + (p * n + m)
  <2>1. p * d = p * (q * e) + p * n
    BY <1>1, <1>2
  <2>2. p * (q * e) = (p * q) * e
    BY <1>2
  <2>3. QED
    BY <1>1, <1>2, <2>1, <2>2
<1>5. p * n + m \in 0 .. p * q - 1
  <2>1. p * n \in Nat
    BY <1>2
  <2>2. p * (q - 1 - n) >= 0
    BY <1>2
  <2>3. p * (q - 1 - n) = p * q - p - p * n
    BY <1>2
  <2>4. QED
    BY <1>1, <1>3, <2>1, <2>2, <2>3
<1> DEFINE r == p * n + m
<1>6. a = pq * e + r /\ r \in 0 .. pq - 1 /\ pq \in Nat \ {0}
  BY <1>3, <1>4, <1>5
<1> HIDE DEF r
<1>7. a \div pq = e /\ a % pq = r
  BY <1>2, <1>6, EuclidIs
<1>8. r % p = m
  <2>1. r = p * n + m /\ r \in Int
    BY <1>1, <1>2 DEF r
  <2>2. QED
    BY <1>1, <1>2, <2>1, EuclidIs
<1>9. QED
  BY <1>3, <1>7, <1>8 DEF r, d, m, e, n, DividedBy

\* Two numbers with the same remainder.
Alike(a, b, p) == a % p = b % p

\* A product keeps congruence.
LEMMA CongruentProduct ==
  ASSUME NEW a \in Int, NEW b \in Int, NEW c \in Int, NEW d \in Int, NEW p \in Nat \ {0},
         Alike(a, b, p), Alike(c, d, p)
  PROVE  Alike(a * c, b * d, p)
<1>1. PICK k \in Int : a = b + p * k
  BY Congruent DEF Alike
<1>2. PICK l \in Int : c = d + p * l
  BY Congruent DEF Alike
<1> DEFINE j == b * l + k * d + p * k * l
           u == a * c
           v == b * d
<1>3. u = v + p * j /\ j \in Int /\ v \in Int
  BY <1>1, <1>2
<1> HIDE DEF j, u, v
<1>4. u % p = v % p
  BY <1>3, AddMultiple
<1>5. QED
  BY <1>4 DEF u, v, Alike

\* So do sum and difference.
LEMMA CongruentSum ==
  ASSUME NEW a \in Int, NEW b \in Int, NEW c \in Int, NEW d \in Int, NEW p \in Nat \ {0},
         Alike(a, b, p), Alike(c, d, p)
  PROVE  Alike(a + c, b + d, p) /\ Alike(a - c, b - d, p)
<1>1. PICK k \in Int : a = b + p * k
  BY Congruent DEF Alike
<1>2. PICK l \in Int : c = d + p * l
  BY Congruent DEF Alike
<1> DEFINE s == b + d
           t == b - d
           g == k + l
           h == k - l
<1>3. a + c = s + p * g /\ a - c = t + p * h
  BY <1>1, <1>2
<1>4. s \in Int /\ t \in Int /\ g \in Int /\ h \in Int
  OBVIOUS
<1> HIDE DEF s, t, g, h
<1>5. (s + p * g) % p = s % p
  BY <1>4, AddMultiple
<1>6. (t + p * h) % p = t % p
  BY <1>4, AddMultiple
<1>7. QED
  BY <1>3, <1>5, <1>6 DEF s, t, Alike

-----------------------------------------------------------------------------
\* The value of the bytes of a register.

\* The widths of an access and of a register.
LEMMA Widths ==
  /\ ByteBits \in Nat \ {0} /\ Count \in Nat \ {0}
  /\ Half \in Nat \ {0} /\ Quarter \in Nat \ {0} /\ Half = 2 * Quarter /\ Count = 2 * Half
  /\ HalfBits \in Nat \ {0} /\ XLEN \in Nat \ {0} /\ XLEN = 2 * HalfBits
  /\ XLEN = ByteBits * Count /\ HalfBits = ByteBits * Half /\ ByteBits <= HalfBits
  /\ XLEN \div 2 = HalfBits /\ XLEN \div 4 = ByteBits * Quarter
<1>1. ByteBits \in Nat \ {0} /\ Count \in Nat \ {0} /\ Count % 4 = 0
  BY AluAssumption DEF AluAssumption
<1>2. Half = 2 * Quarter /\ Count = 2 * Half /\ Half \in Nat \ {0} /\ Quarter \in Nat \ {0}
  BY <1>1 DEF Half, Quarter
<1>3. HalfBits = ByteBits * Half /\ XLEN = ByteBits * Count
  BY DEF HalfBits, XLEN
<1>4. XLEN = 2 * HalfBits /\ HalfBits \in Nat \ {0} /\ XLEN \in Nat \ {0}
  BY <1>1, <1>2, <1>3
<1>5. ByteBits <= HalfBits
  <2>1. ByteBits * (Half - 1) >= 0
    BY <1>1, <1>2
  <2>2. QED
    BY <1>1, <1>2, <1>3, <2>1
<1>6. XLEN \div 4 = ByteBits * Quarter
  <2> DEFINE q == ByteBits * Quarter
  <2>1. XLEN = 4 * q /\ q \in Nat
    BY <1>1, <1>2, <1>3
  <2> HIDE DEF q
  <2>2. XLEN \div 4 = q
    BY <2>1
  <2>3. QED
    BY <2>2 DEF q
<1>7. XLEN \div 2 = HalfBits
  BY <1>4
<1>8. QED
  BY <1>1, <1>2, <1>3, <1>4, <1>5, <1>6, <1>7

\* The recursion of Power is what it says.
LEMMA PowerValues ==
  /\ Power[0] = 1
  /\ \A k \in 1 .. XLEN : Power[k] = 2 * Power[k - 1]
  /\ \A k \in 0 .. XLEN : Power[k] \in Nat \ {0}
<1> DEFINE N == XLEN
           step == [k \in 1 .. N |-> [v \in Nat |-> 2 * v]]
<1>1. N \in Nat
  BY Widths
<1> HIDE DEF N
<1>2. \A k \in 1 .. N, v \in Nat : step[k][v] = 2 * v
  OBVIOUS
<1> HIDE DEF step
<1>3. PICK f : Solves(f, N, Nat, 1, step)
  <2>1. 1 \in Nat /\ \A k \in 1 .. N : \A v \in Nat : step[k][v] \in Nat
    BY <1>2
  <2>2. QED
    BY <1>1, <2>1, Recursion, Zenon
<1>4. f \in [0 .. N -> Nat] /\ f[0] = 1 /\ \A k \in 1 .. N : f[k] = step[k][f[k - 1]]
  BY <1>3 DEF Solves
<1>5. \A k \in 0 .. N : f[k] = IF k = 0 THEN 1 ELSE 2 * f[k - 1]
  <2>1. \A k \in 1 .. N : f[k - 1] \in Nat /\ k # 0
    BY <1>1, <1>4
  <2>2. \A k \in 1 .. N : f[k] = 2 * f[k - 1]
    BY <1>2, <1>4, <2>1
  <2>3. \A k \in 0 .. N : k = 0 \/ k \in 1 .. N
    OBVIOUS
  <2>4. QED
    BY <1>4, <2>1, <2>2, <2>3
<1>6. f = [k \in 0 .. N |-> IF k = 0 THEN 1 ELSE 2 * f[k - 1]]
  BY <1>4, <1>5
<1>7. Power = [k \in 0 .. N |-> IF k = 0 THEN 1 ELSE 2 * Power[k - 1]]
  BY <1>6 DEF Power, N
<1>8. Power[0] = 1 /\ \A k \in 1 .. N : Power[k] = 2 * Power[k - 1]
  BY <1>1, <1>7
<1> DEFINE S == {k \in 0 .. N : Power[k] \in Nat \ {0}}
<1>9. 0 \in S /\ \A k \in 0 .. N - 1 : k \in S => k + 1 \in S
  BY <1>1, <1>8
<1> HIDE DEF S
<1>10. 0 .. N \subseteq S
  BY <1>1, <1>9, InductionTo
<1>11. QED
  BY <1>8, <1>10 DEF S, N

\* A power of a sum is the product.
LEMMA PowerSum ==
  ASSUME NEW i \in Nat, NEW j \in Nat, i + j <= XLEN
  PROVE  Power[i + j] = Power[i] * Power[j]
<1> DEFINE N == XLEN - i
           S == {k \in 0 .. N : Power[i + k] = Power[i] * Power[k]}
<1>1. XLEN \in Nat /\ N \in Nat /\ j \in 0 .. N
  BY Widths
<1>2. 0 \in S
  BY <1>1, PowerValues
<1>3. \A k \in 0 .. N - 1 : k \in S => k + 1 \in S
  <2> SUFFICES ASSUME NEW k \in 0 .. N - 1, Power[i + k] = Power[i] * Power[k]
               PROVE  Power[i + (k + 1)] = Power[i] * Power[k + 1]
    BY <1>1
  <2>1. i + (k + 1) \in 1 .. XLEN /\ k + 1 \in 1 .. XLEN /\ i \in 0 .. XLEN /\ k \in 0 .. XLEN
    BY <1>1
  <2>2. Power[i + (k + 1)] = 2 * Power[i + k] /\ Power[k + 1] = 2 * Power[k]
    <3>1. (i + (k + 1)) - 1 = i + k /\ (k + 1) - 1 = k
      OBVIOUS
    <3>2. QED
      BY <2>1, <3>1, PowerValues
  <2>3. Power[i] \in Nat /\ Power[k] \in Nat
    BY <2>1, PowerValues
  <2>4. QED
    BY <2>2, <2>3
<1> HIDE DEF S
<1>4. 0 .. N \subseteq S
  BY <1>1, <1>2, <1>3, InductionTo
<1>5. QED
  BY <1>1, <1>4 DEF S

\* What k bytes can hold.
Weight == [k \in 0 .. Count |-> Power[ByteBits * k]]

\* Byte by byte it grows by the base, up to the register.
LEMMA Weights ==
  /\ Weight[0] = 1 /\ Weight[Count] = Power[XLEN] /\ Weight[1] = Base /\ Weight[Half] = Power[HalfBits]
  /\ Base \in Nat \ {0} /\ \A k \in 0 .. Count : Weight[k] \in Nat \ {0}
  /\ \A k \in 1 .. Count : Weight[k] = Weight[k - 1] * Base
  /\ \A k \in 0 .. Count : ByteBits * k \in 0 .. XLEN
  /\ \A j \in 0 .. Count : \A k \in 0 .. Count - j : Weight[j + k] = Weight[j] * Weight[k]
<1>1. \A k \in 0 .. Count : ByteBits * k \in 0 .. XLEN
  <2> SUFFICES ASSUME NEW k \in 0 .. Count PROVE ByteBits * k \in 0 .. XLEN
    OBVIOUS
  <2>1. ByteBits * k \in Nat /\ ByteBits * (Count - k) >= 0
    BY Widths
  <2>2. QED
    BY Widths, <2>1
<1>2. 0 \in 0 .. Count /\ 1 \in 0 .. Count /\ Half \in 0 .. Count /\ Count \in 0 .. Count
  BY Widths
<1>3. /\ ByteBits * 0 = 0 /\ ByteBits * 1 = ByteBits /\ ByteBits * Half = HalfBits
      /\ ByteBits * Count = XLEN
  BY Widths
<1>4. /\ Weight[0] = 1 /\ Weight[Count] = Power[XLEN] /\ Weight[1] = Base
      /\ Weight[Half] = Power[HalfBits]
  <2>1. Weight[0] = Power[0] /\ Weight[1] = Power[ByteBits]
        /\ Weight[Half] = Power[HalfBits] /\ Weight[Count] = Power[XLEN]
    BY <1>2, <1>3 DEF Weight
  <2>2. QED
    BY <2>1, PowerValues DEF Base
<1>5. \A k \in 0 .. Count : Weight[k] \in Nat \ {0}
  BY <1>1, PowerValues DEF Weight
<1>6. \A j \in 0 .. Count : \A k \in 0 .. Count - j : Weight[j + k] = Weight[j] * Weight[k]
  <2> SUFFICES ASSUME NEW j \in 0 .. Count, NEW k \in 0 .. Count - j
               PROVE  Weight[j + k] = Weight[j] * Weight[k]
    OBVIOUS
  <2>1. j + k \in 0 .. Count /\ k \in 0 .. Count
    BY Widths
  <2>2. ByteBits * (j + k) = ByteBits * j + ByteBits * k
    BY Widths
  <2>3. ByteBits * j \in Nat /\ ByteBits * k \in Nat /\ ByteBits * j + ByteBits * k <= XLEN
    BY <1>1, <2>1, <2>2
  <2>4. Power[ByteBits * j + ByteBits * k] = Power[ByteBits * j] * Power[ByteBits * k]
    BY <2>3, PowerSum
  <2>5. QED
    BY <2>1, <2>2, <2>4 DEF Weight
<1>7. \A k \in 1 .. Count : Weight[k] = Weight[k - 1] * Base
  <2> SUFFICES ASSUME NEW k \in 1 .. Count PROVE Weight[k] = Weight[k - 1] * Base
    OBVIOUS
  <2>1. k - 1 \in 0 .. Count /\ 1 \in 0 .. Count - (k - 1) /\ (k - 1) + 1 = k
    BY Widths
  <2>2. QED
    BY <1>4, <1>6, <2>1
<1>8. Base \in Nat \ {0}
  BY <1>2, <1>4, <1>5
<1>9. QED
  BY <1>1, <1>4, <1>5, <1>6, <1>7, <1>8

\* The values that bytesToBigInt goes through.
Tops(a) ==
    LET value[k \in 0 .. Count] == IF k = 0 THEN 0 ELSE value[k - 1] * Base + a[Count + 1 - k]
    IN value

\* The recursion is what it says.
LEMMA TopValues ==
  ASSUME NEW a \in [Sizes -> Int]
  PROVE  /\ Tops(a)[0] = 0 /\ bytesToBigInt(a) = Tops(a)[Count]
         /\ \A k \in 1 .. Count : Tops(a)[k] = Tops(a)[k - 1] * Base + a[Count + 1 - k]
         /\ \A k \in 0 .. Count : Tops(a)[k] \in Int
<1> DEFINE N == Count
           step == [k \in 1 .. N |-> [v \in Int |-> v * Base + a[N + 1 - k]]]
<1>1. N \in Nat /\ Base \in Nat
  BY Widths, Weights
<1>2. \A k \in 1 .. N : a[N + 1 - k] \in Int
  BY <1>1 DEF Sizes
<1> HIDE DEF N
<1>3. \A k \in 1 .. N, v \in Int : step[k][v] = v * Base + a[N + 1 - k] /\ step[k][v] \in Int
  <2> SUFFICES ASSUME NEW k \in 1 .. N, NEW v \in Int
               PROVE  step[k][v] = v * Base + a[N + 1 - k] /\ step[k][v] \in Int
    OBVIOUS
  <2>1. step[k][v] = v * Base + a[N + 1 - k]
    OBVIOUS
  <2> HIDE DEF step
  <2>2. QED
    BY <1>1, <1>2, <2>1
<1> HIDE DEF step
<1>4. PICK f : Solves(f, N, Int, 0, step)
  <2>1. 0 \in Int /\ \A k \in 1 .. N : \A v \in Int : step[k][v] \in Int
    BY <1>3
  <2>2. QED
    BY <1>1, <2>1, Recursion, Zenon
<1>5. f \in [0 .. N -> Int] /\ f[0] = 0 /\ \A k \in 1 .. N : f[k] = step[k][f[k - 1]]
  BY <1>4 DEF Solves
<1>6. \A k \in 0 .. N : f[k] = IF k = 0 THEN 0 ELSE f[k - 1] * Base + a[N + 1 - k]
  <2>1. \A k \in 1 .. N : f[k - 1] \in Int /\ k # 0
    BY <1>1, <1>5
  <2>2. \A k \in 1 .. N : f[k] = f[k - 1] * Base + a[N + 1 - k]
    BY <1>3, <1>5, <2>1
  <2>3. \A k \in 0 .. N : k = 0 \/ k \in 1 .. N
    OBVIOUS
  <2>4. QED
    BY <1>5, <2>1, <2>2, <2>3
<1>7. f = [k \in 0 .. N |-> IF k = 0 THEN 0 ELSE f[k - 1] * Base + a[N + 1 - k]]
  BY <1>5, <1>6
<1> DEFINE t == Tops(a)
<1>8. t = [k \in 0 .. N |-> IF k = 0 THEN 0 ELSE t[k - 1] * Base + a[N + 1 - k]]
  BY <1>7 DEF Tops, N
<1>9. bytesToBigInt(a) = t[N]
  BY DEF bytesToBigInt, Tops, N
<1> HIDE DEF t
<1>10. t[0] = 0 /\ \A k \in 1 .. N : t[k] = t[k - 1] * Base + a[N + 1 - k]
  BY <1>1, <1>8
<1> DEFINE S == {k \in 0 .. N : t[k] \in Int}
<1>11. 0 \in S /\ \A k \in 0 .. N - 1 : k \in S => k + 1 \in S
  <2> SUFFICES ASSUME NEW k \in 0 .. N - 1, t[k] \in Int PROVE t[k + 1] \in Int
    BY <1>1, <1>10
  <2>1. k + 1 \in 1 .. N /\ (k + 1) - 1 = k
    BY <1>1
  <2>2. t[k + 1] = t[k] * Base + a[N + 1 - (k + 1)] /\ a[N + 1 - (k + 1)] \in Int
    BY <1>2, <1>10, <2>1
  <2>3. QED
    BY <1>1, <2>2
<1> HIDE DEF S
<1>12. 0 .. N \subseteq S
  BY <1>1, <1>11, InductionTo
<1>13. QED
  BY <1>9, <1>10, <1>12 DEF S, t, N

\* The top bytes hold what they weigh.
LEMMA TopRange ==
  ASSUME NEW a \in Words
  PROVE  a \in [Sizes -> Int] /\ \A k \in 0 .. Count : Tops(a)[k] \in 0 .. Weight[k] - 1
<1> DEFINE t == Tops(a)
           S == {k \in 0 .. Count : t[k] \in 0 .. Weight[k] - 1}
<1>1. Count \in Nat /\ Base \in Nat \ {0}
  BY Widths, Weights
<1>2. a \in [Sizes -> Int] /\ \A i \in Sizes : a[i] \in 0 .. Base - 1
  BY <1>1 DEF Words
<1>3. t[0] = 0 /\ \A k \in 1 .. Count : t[k] = t[k - 1] * Base + a[Count + 1 - k]
  BY <1>2, TopValues
<1> HIDE DEF t
<1>4. 0 \in S
  BY <1>1, <1>3, Weights
<1>5. \A k \in 0 .. Count - 1 : k \in S => k + 1 \in S
  <2> SUFFICES ASSUME NEW k \in 0 .. Count - 1, t[k] \in 0 .. Weight[k] - 1
               PROVE  t[k + 1] \in 0 .. Weight[k + 1] - 1
    BY <1>1
  <2>1. k + 1 \in 1 .. Count /\ (k + 1) - 1 = k /\ Count - k \in Sizes /\ k \in 0 .. Count
        /\ Count + 1 - (k + 1) = Count - k
    BY <1>1 DEF Sizes
  <2>2. t[k + 1] = t[k] * Base + a[Count - k] /\ a[Count - k] \in 0 .. Base - 1
    BY <1>2, <1>3, <2>1
  <2>3. Weight[k + 1] = Weight[k] * Base /\ Weight[k] \in Nat
    BY <2>1, Weights
  <2>4. (Weight[k] - 1 - t[k]) * Base >= 0
    BY <1>1, <2>3
  <2>5. t[k] * Base >= 0
    BY <1>1, <2>3
  <2>6. QED
    BY <1>1, <2>2, <2>3, <2>4, <2>5
<1> HIDE DEF S
<1>6. 0 .. Count \subseteq S
  BY <1>1, <1>4, <1>5, InductionTo
<1>7. QED
  BY <1>2, <1>6 DEF S, t

\* The value of a register is one.
LEMMA ValueRange ==
  ASSUME NEW a \in Words
  PROVE  bytesToBigInt(a) \in 0 .. Power[XLEN] - 1
<1>1. Count \in 0 .. Count /\ bytesToBigInt(a) = Tops(a)[Count] /\ Weight[Count] = Power[XLEN]
  BY TopRange, TopValues, Weights, Widths
<1>2. QED
  BY <1>1, TopRange

\* Bytes r with carries c out of them are x with the carries into it.
Carried(r, x, c) == \A i \in Sizes : r[i] + Base * c[i] = x[i] + c[i - 1]

\* Then the values differ by the carry into the first and the carry out of the last.
LEMMA Chain ==
  ASSUME NEW r \in [Sizes -> Int], NEW x \in [Sizes -> Int], NEW c \in [0 .. Count -> Int],
         Carried(r, x, c)
  PROVE  /\ bytesToBigInt(r) \in Int /\ bytesToBigInt(x) \in Int
         /\ bytesToBigInt(r) = bytesToBigInt(x) + c[0] - Power[XLEN] * c[Count]
<1> DEFINE t == Tops(r)
           u == Tops(x)
           S == {k \in 0 .. Count : t[k] + Weight[k] * c[Count] = u[k] + c[Count - k]}
<1>1. Count \in Nat /\ Base \in Nat \ {0}
  BY Widths, Weights
<1>2. /\ t[0] = 0 /\ bytesToBigInt(r) = t[Count] /\ \A k \in 0 .. Count : t[k] \in Int
      /\ \A k \in 1 .. Count : t[k] = t[k - 1] * Base + r[Count + 1 - k]
  BY TopValues
<1>3. /\ u[0] = 0 /\ bytesToBigInt(x) = u[Count] /\ \A k \in 0 .. Count : u[k] \in Int
      /\ \A k \in 1 .. Count : u[k] = u[k - 1] * Base + x[Count + 1 - k]
  BY TopValues
<1> HIDE DEF t, u
<1>4. 0 \in S
  <2>1. Weight[0] = 1 /\ c[Count] \in Int /\ 0 \in 0 .. Count /\ Count - 0 = Count
    BY <1>1, Weights
  <2>2. QED
    BY <1>2, <1>3, <2>1
<1>5. \A k \in 0 .. Count - 1 : k \in S => k + 1 \in S
  <2> SUFFICES ASSUME NEW k \in 0 .. Count - 1,
                      t[k] + Weight[k] * c[Count] = u[k] + c[Count - k]
               PROVE  t[k + 1] + Weight[k + 1] * c[Count] = u[k + 1] + c[Count - (k + 1)]
    BY <1>1
  <2> DEFINE i == Count - k
  <2>1. k + 1 \in 1 .. Count /\ (k + 1) - 1 = k /\ i \in Sizes /\ k \in 0 .. Count
        /\ Count + 1 - (k + 1) = i /\ Count - (k + 1) = i - 1 /\ i \in 0 .. Count
        /\ i - 1 \in 0 .. Count /\ Count \in 0 .. Count
    BY <1>1 DEF Sizes
  <2> HIDE DEF i
  <2>2. t[k + 1] = t[k] * Base + r[i] /\ u[k + 1] = u[k] * Base + x[i]
    BY <1>2, <1>3, <2>1
  <2>3. /\ t[k] \in Int /\ u[k] \in Int /\ r[i] \in Int /\ x[i] \in Int /\ c[i] \in Int
        /\ c[i - 1] \in Int /\ c[Count] \in Int
    BY <1>2, <1>3, <2>1
  <2>4. Weight[k + 1] = Weight[k] * Base /\ Weight[k] \in Nat
    BY <2>1, Weights
  <2>5. r[i] + Base * c[i] = x[i] + c[i - 1]
    BY <2>1 DEF Carried
  <2>6. t[k] + Weight[k] * c[Count] = u[k] + c[i]
    BY DEF i
  <2>7. t[k] * Base + r[i] + (Weight[k] * Base) * c[Count] = u[k] * Base + x[i] + c[i - 1]
    <3> DEFINE tk == t[k]
               uk == u[k]
               ri == r[i]
               xi == x[i]
               ci == c[i]
               cj == c[i - 1]
               cn == c[Count]
               w == Weight[k]
    <3>1. tk + w * cn = uk + ci /\ ri + Base * ci = xi + cj
      BY <2>5, <2>6
    <3>2. tk \in Int /\ uk \in Int /\ ri \in Int /\ xi \in Int /\ ci \in Int /\ cj \in Int
          /\ cn \in Int /\ w \in Int /\ Base \in Int
      BY <1>1, <2>3, <2>4
    <3> HIDE DEF tk, uk, ri, xi, ci, cj, cn, w
    <3>3. (tk + w * cn) * Base = tk * Base + (w * Base) * cn
      BY <3>2
    <3>4. (uk + ci) * Base = uk * Base + Base * ci
      BY <3>2
    <3> DEFINE m == tk * Base
               n == (w * Base) * cn
               p == uk * Base
               q == Base * ci
    <3>5. m + n = p + q
      BY <3>1, <3>3, <3>4
    <3>6. m \in Int /\ n \in Int /\ p \in Int /\ q \in Int
      BY <3>2
    <3>7. ri + q = xi + cj
      BY <3>1
    <3> HIDE DEF m, n, p, q
    <3>8. m + ri + n = p + xi + cj
      BY <3>2, <3>5, <3>6, <3>7
    <3>9. QED
      BY <3>8 DEF m, n, p, q, tk, uk, ri, xi, ci, cj, cn, w
  <2>8. QED
    BY <2>1, <2>2, <2>4, <2>7
<1> HIDE DEF S
<1>6. 0 .. Count \subseteq S
  BY <1>1, <1>4, <1>5, InductionTo
<1>7. t[Count] + Weight[Count] * c[Count] = u[Count] + c[0]
  BY <1>1, <1>6 DEF S
<1>8. t[Count] \in Int /\ u[Count] \in Int /\ c[0] \in Int /\ c[Count] \in Int
  BY <1>1, <1>2, <1>3
<1>9. Weight[Count] \in Nat /\ Weight[Count] = Power[XLEN]
  BY <1>1, Weights
<1> DEFINE w == Weight[Count] * c[Count]
           tn == t[Count]
           un == u[Count]
           cn == c[0]
<1>10. w = Power[XLEN] * c[Count]
  BY <1>9
<1>11. w \in Int /\ tn \in Int /\ un \in Int /\ cn \in Int /\ tn + w = un + cn
  BY <1>7, <1>8, <1>9
<1> HIDE DEF w, tn, un, cn
<1>12. tn = un + cn - w
  BY <1>11
<1>13. QED
  BY <1>2, <1>3, <1>8, <1>10, <1>12 DEF tn, un, cn

-----------------------------------------------------------------------------
\* Addition and subtraction.

\* Bytes x are those of a plus, or minus, those of b.
Linear(x, a, b, s) == \A i \in Sizes : x[i] = a[i] + s * b[i]

\* Then so is the value.
LEMMA ValueLinear ==
  ASSUME NEW a \in [Sizes -> Int], NEW b \in [Sizes -> Int], NEW s \in {1, -1},
         NEW x \in [Sizes -> Int], Linear(x, a, b, s)
  PROVE  bytesToBigInt(x) = bytesToBigInt(a) + s * bytesToBigInt(b)
<1> DEFINE t == Tops(x)
           u == Tops(a)
           v == Tops(b)
           S == {k \in 0 .. Count : t[k] = u[k] + s * v[k]}
<1>1. Count \in Nat /\ Base \in Nat \ {0} /\ s \in Int
  BY Widths, Weights
<1>2. /\ t[0] = 0 /\ bytesToBigInt(x) = t[Count] /\ \A k \in 0 .. Count : t[k] \in Int
      /\ \A k \in 1 .. Count : t[k] = t[k - 1] * Base + x[Count + 1 - k]
  BY TopValues
<1>3. /\ u[0] = 0 /\ bytesToBigInt(a) = u[Count] /\ \A k \in 0 .. Count : u[k] \in Int
      /\ \A k \in 1 .. Count : u[k] = u[k - 1] * Base + a[Count + 1 - k]
  BY TopValues
<1>4. /\ v[0] = 0 /\ bytesToBigInt(b) = v[Count] /\ \A k \in 0 .. Count : v[k] \in Int
      /\ \A k \in 1 .. Count : v[k] = v[k - 1] * Base + b[Count + 1 - k]
  BY TopValues
<1> HIDE DEF t, u, v
<1>5. 0 \in S
  <2>1. 0 = 0 + s * 0 /\ 0 \in 0 .. Count
    BY <1>1
  <2>2. t[0] = u[0] + s * v[0]
    BY <1>2, <1>3, <1>4, <2>1
  <2>3. QED
    BY <2>1, <2>2
<1>6. \A k \in 0 .. Count - 1 : k \in S => k + 1 \in S
  <2> SUFFICES ASSUME NEW k \in 0 .. Count - 1, t[k] = u[k] + s * v[k]
               PROVE  t[k + 1] = u[k + 1] + s * v[k + 1]
    BY <1>1
  <2> DEFINE i == Count - k
  <2>1. k + 1 \in 1 .. Count /\ (k + 1) - 1 = k /\ i \in Sizes /\ k \in 0 .. Count
        /\ Count + 1 - (k + 1) = i
    BY <1>1 DEF Sizes
  <2> HIDE DEF i
  <2>2. /\ t[k + 1] = t[k] * Base + x[i] /\ u[k + 1] = u[k] * Base + a[i]
        /\ v[k + 1] = v[k] * Base + b[i] /\ x[i] = a[i] + s * b[i]
    BY <1>2, <1>3, <1>4, <2>1 DEF Linear
  <2>3. u[k] \in Int /\ v[k] \in Int /\ a[i] \in Int /\ b[i] \in Int
    BY <1>3, <1>4, <2>1
  <2> DEFINE uk == u[k]
             vk == v[k]
             ai == a[i]
             bi == b[i]
  <2>4. t[k + 1] = (uk + s * vk) * Base + (ai + s * bi)
    BY <2>2
  <2>5. uk \in Int /\ vk \in Int /\ ai \in Int /\ bi \in Int
    BY <2>3
  <2> HIDE DEF uk, vk, ai, bi
  <2>6. (uk + s * vk) * Base + (ai + s * bi) = (uk * Base + ai) + s * (vk * Base + bi)
    <3>1. CASE s = 1
      BY <1>1, <2>5, <3>1
    <3>2. CASE s = -1
      BY <1>1, <2>5, <3>2
    <3>3. QED
      BY <3>1, <3>2
  <2>7. QED
    BY <2>2, <2>4, <2>6 DEF uk, vk, ai, bi
<1> HIDE DEF S
<1>7. 0 .. Count \subseteq S
  BY <1>1, <1>5, <1>6, InductionTo
<1>8. QED
  BY <1>1, <1>2, <1>3, <1>4, <1>7 DEF S

\* The loop of addBytes adds.
LEMMA AddIsSum ==
  ASSUME NEW a \in Words, NEW b \in Words
  PROVE  /\ addBytes(a, b) \in Words
         /\ bytesToBigInt(addBytes(a, b)) = (bytesToBigInt(a) + bytesToBigInt(b)) % Power[XLEN]
<1> DEFINE N == Count
           step == [i \in 1 .. N |-> [v \in Int |-> (a[i] + b[i] + v) \div Base]]
<1>1. N \in Nat /\ Base \in Nat \ {0} /\ Sizes = 1 .. N
  BY Widths, Weights DEF Sizes
<1>2. /\ \A i \in Sizes : a[i] \in 0 .. Base - 1 /\ b[i] \in 0 .. Base - 1
      /\ a \in [Sizes -> Int] /\ b \in [Sizes -> Int]
  BY TopRange DEF Words
<1> HIDE DEF N
<1>3. \A i \in 1 .. N, v \in Int : /\ step[i][v] = (a[i] + b[i] + v) \div Base
                                   /\ step[i][v] \in Int
  <2> SUFFICES ASSUME NEW i \in 1 .. N, NEW v \in Int
               PROVE  step[i][v] = (a[i] + b[i] + v) \div Base /\ step[i][v] \in Int
    OBVIOUS
  <2>1. step[i][v] = (a[i] + b[i] + v) \div Base
    OBVIOUS
  <2> HIDE DEF step
  <2>2. a[i] + b[i] + v \in Int
    BY <1>1, <1>2
  <2>3. QED
    BY <1>1, <2>1, <2>2, Euclid
<1> HIDE DEF step
<1>4. PICK f : Solves(f, N, Int, 0, step)
  <2>1. 0 \in Int /\ \A i \in 1 .. N : \A v \in Int : step[i][v] \in Int
    BY <1>3
  <2>2. QED
    BY <1>1, <2>1, Recursion, Zenon
<1>5. f \in [0 .. N -> Int] /\ f[0] = 0 /\ \A i \in 1 .. N : f[i] = step[i][f[i - 1]]
  BY <1>4 DEF Solves
<1>6. \A i \in 0 .. N : f[i] = IF i = 0 THEN 0 ELSE (a[i] + b[i] + f[i - 1]) \div Base
  <2>1. \A i \in 1 .. N : f[i - 1] \in Int /\ i # 0
    BY <1>1, <1>5
  <2>2. \A i \in 1 .. N : f[i] = (a[i] + b[i] + f[i - 1]) \div Base
    BY <1>3, <1>5, <2>1
  <2>3. \A i \in 0 .. N : i = 0 \/ i \in 1 .. N
    OBVIOUS
  <2>4. QED
    BY <1>5, <2>1, <2>2, <2>3
<1>7. f = [i \in 0 .. N |-> IF i = 0 THEN 0 ELSE (a[i] + b[i] + f[i - 1]) \div Base]
  BY <1>5, <1>6
<1> DEFINE c == CHOOSE carry : carry = [i \in 0 .. N |->
                     IF i = 0 THEN 0 ELSE (a[i] + b[i] + carry[i - 1]) \div Base]
           r == addBytes(a, b)
           x == [i \in Sizes |-> a[i] + b[i]]
<1>8. c = [i \in 0 .. N |-> IF i = 0 THEN 0 ELSE (a[i] + b[i] + c[i - 1]) \div Base]
  BY <1>7
<1>9. r = [i \in Sizes |-> (a[i] + b[i] + c[i - 1]) % Base]
  BY DEF addBytes, N
<1> HIDE DEF c, r
<1>10. c \in [0 .. N -> Int] /\ c[0] = 0
  <2> DEFINE S == {i \in 0 .. N : c[i] \in Int}
  <2>1. 0 \in S
    BY <1>1, <1>8
  <2>2. \A i \in 0 .. N - 1 : i \in S => i + 1 \in S
    <3> SUFFICES ASSUME NEW i \in 0 .. N - 1, c[i] \in Int PROVE c[i + 1] \in Int
      BY <1>1
    <3>1. i + 1 \in 1 .. N /\ (i + 1) - 1 = i /\ i + 1 \in 0 .. N
      BY <1>1
    <3> DEFINE j == i + 1
    <3>2. c[j] = (a[j] + b[j] + c[j - 1]) \div Base
      <4>1. j \in 0 .. N /\ j # 0
        BY <1>1
      <4> HIDE DEF j
      <4>2. QED
        BY <1>8, <4>1
    <3>5. c[i + 1] = (a[i + 1] + b[i + 1] + c[i]) \div Base
      BY <3>1, <3>2
    <3>3. a[i + 1] + b[i + 1] + c[i] \in Int
      BY <1>1, <1>2, <3>1
    <3>4. QED
      BY <1>1, <3>5, <3>3, Euclid
  <2> HIDE DEF S
  <2>3. 0 .. N \subseteq S
    BY <1>1, <2>1, <2>2, InductionTo
  <2>4. \A i \in 0 .. N : c[i] \in Int
    BY <2>3 DEF S
  <2>5. QED
    BY <1>1, <1>8, <2>4
<1>11. \A i \in Sizes : r[i] \in 0 .. Base - 1 /\ r[i] + Base * c[i] = x[i] + c[i - 1]
  <2> SUFFICES ASSUME NEW i \in Sizes
               PROVE  r[i] \in 0 .. Base - 1 /\ r[i] + Base * c[i] = x[i] + c[i - 1]
    OBVIOUS
  <2> DEFINE v == a[i] + b[i] + c[i - 1]
  <2>1. r[i] = v % Base /\ c[i] = v \div Base /\ v = x[i] + c[i - 1]
    BY <1>1, <1>8, <1>9
  <2>2. v \in Int
    BY <1>1, <1>2, <1>10
  <2> HIDE DEF v
  <2>3. v \div Base \in Int /\ v % Base \in 0 .. Base - 1 /\ v = Base * (v \div Base) + (v % Base)
    BY <1>1, <2>2, Euclid
  <2>4. r[i] + Base * c[i] = v
    BY <1>1, <2>1, <2>3
  <2>5. QED
    BY <2>1, <2>3, <2>4
<1>12. r \in Words /\ r \in [Sizes -> Int] /\ x \in [Sizes -> Int] /\ c \in [0 .. Count -> Int]
  <2>1. r \in Words
    BY <1>9, <1>11 DEF Words
  <2>2. r \in [Sizes -> Int]
    BY <2>1, TopRange
  <2>3. x \in [Sizes -> Int]
    BY <1>2
  <2>4. c \in [0 .. Count -> Int]
    BY <1>10 DEF N
  <2>5. QED
    BY <2>1, <2>2, <2>3, <2>4
<1>13. bytesToBigInt(x) = bytesToBigInt(a) + 1 * bytesToBigInt(b)
  <2>1. Linear(x, a, b, 1)
    BY <1>1, <1>2 DEF Linear
  <2> HIDE DEF x
  <2>2. QED
    BY <1>2, <1>12, <2>1, ValueLinear
<1> HIDE DEF x
<1>14. Carried(r, x, c)
  BY <1>11 DEF Carried
<1> DEFINE s == bytesToBigInt(x)
           p == Power[XLEN]
           k == c[Count]
<1>15. bytesToBigInt(r) = s + c[0] - p * k
  BY <1>12, <1>14, Chain
<1>16. bytesToBigInt(r) \in 0 .. p - 1
  BY <1>12, ValueRange
<1>17. s \in Int /\ p \in Nat \ {0} /\ k \in Int /\ c[0] = 0
  <2>1. s \in Int
    BY <1>12, <1>14, Chain
  <2>2. p \in Nat \ {0}
    BY PowerValues, Widths
  <2>3. k \in Int
    BY <1>1, <1>10 DEF N
  <2>4. QED
    BY <1>10, <2>1, <2>2, <2>3
<1>18. s = bytesToBigInt(a) + bytesToBigInt(b)
  <2>1. bytesToBigInt(b) \in Int
    BY ValueRange
  <2>2. QED
    BY <1>13, <2>1
<1> HIDE DEF s, p, k
<1>19. bytesToBigInt(r) = s % p
  <2> DEFINE w == bytesToBigInt(r)
  <2>1. w \in 0 .. p - 1 /\ w = s - p * k
    BY <1>15, <1>16, <1>17
  <2> HIDE DEF w
  <2>2. s = p * k + w
    BY <1>17, <2>1
  <2>3. s % p = w
    BY <1>17, <2>1, <2>2, EuclidIs
  <2>4. QED
    BY <2>3 DEF w
<1>20. QED
  BY <1>12, <1>18, <1>19 DEF r, p

\* The loop of subtractBytes subtracts.
LEMMA SubtractIsDifference ==
  ASSUME NEW a \in Words, NEW b \in Words
  PROVE  /\ subtractBytes(a, b) \in Words
         /\ bytesToBigInt(subtractBytes(a, b)) = (bytesToBigInt(a) - bytesToBigInt(b)) % Power[XLEN]
<1> DEFINE N == Count
           step == [i \in 1 .. N |-> [v \in {0, 1} |-> IF a[i] - b[i] - v < 0 THEN 1 ELSE 0]]
<1>1. N \in Nat /\ Base \in Nat \ {0} /\ Sizes = 1 .. N
  BY Widths, Weights DEF Sizes
<1>2. /\ \A i \in Sizes : a[i] \in 0 .. Base - 1 /\ b[i] \in 0 .. Base - 1
      /\ a \in [Sizes -> Int] /\ b \in [Sizes -> Int]
  BY TopRange DEF Words
<1> HIDE DEF N
<1>3. \A i \in 1 .. N, v \in {0, 1} : /\ step[i][v] = IF a[i] - b[i] - v < 0 THEN 1 ELSE 0
                                      /\ step[i][v] \in {0, 1}
  OBVIOUS
<1> HIDE DEF step
<1>4. PICK f : Solves(f, N, {0, 1}, 0, step)
  <2>1. 0 \in {0, 1} /\ \A i \in 1 .. N : \A v \in {0, 1} : step[i][v] \in {0, 1}
    BY <1>3
  <2>2. QED
    BY <1>1, <2>1, Recursion, Zenon
<1>5. f \in [0 .. N -> {0, 1}] /\ f[0] = 0 /\ \A i \in 1 .. N : f[i] = step[i][f[i - 1]]
  BY <1>4 DEF Solves
<1>6. \A i \in 0 .. N : f[i] = IF i > 0 /\ a[i] - b[i] - f[i - 1] < 0 THEN 1 ELSE 0
  <2>1. \A i \in 1 .. N : f[i - 1] \in {0, 1} /\ i > 0
    BY <1>1, <1>5
  <2>2. \A i \in 1 .. N : f[i] = IF a[i] - b[i] - f[i - 1] < 0 THEN 1 ELSE 0
    BY <1>3, <1>5, <2>1
  <2>3. \A i \in 0 .. N : i = 0 \/ i \in 1 .. N
    OBVIOUS
  <2>4. QED
    BY <1>5, <2>1, <2>2, <2>3
<1>7. f = [i \in 0 .. N |-> IF i > 0 /\ a[i] - b[i] - f[i - 1] < 0 THEN 1 ELSE 0]
  BY <1>5, <1>6
<1> DEFINE w == CHOOSE borrow : borrow = [i \in 0 .. N |->
                     IF i > 0 /\ a[i] - b[i] - borrow[i - 1] < 0 THEN 1 ELSE 0]
           r == subtractBytes(a, b)
           x == [i \in Sizes |-> a[i] - b[i]]
           c == [i \in 0 .. N |-> 0 - w[i]]
<1>8. w = [i \in 0 .. N |-> IF i > 0 /\ a[i] - b[i] - w[i - 1] < 0 THEN 1 ELSE 0]
  BY <1>7
<1>9. r = [i \in Sizes |-> (a[i] - b[i] - w[i - 1]) % Base]
  BY DEF subtractBytes, N
<1> HIDE DEF w, r
<1>10. w \in [0 .. N -> {0, 1}] /\ w[0] = 0
  BY <1>1, <1>8
<1>11. \A i \in Sizes : r[i] \in 0 .. Base - 1 /\ r[i] + Base * c[i] = x[i] + c[i - 1]
  <2> SUFFICES ASSUME NEW i \in Sizes
               PROVE  r[i] \in 0 .. Base - 1 /\ r[i] + Base * c[i] = x[i] + c[i - 1]
    OBVIOUS
  <2> DEFINE v == a[i] - b[i] - w[i - 1]
             u == w[i]
  <2>1. i \in 0 .. N /\ i - 1 \in 0 .. N /\ i > 0
    BY <1>1
  <2>2. r[i] = v % Base /\ u = IF v < 0 THEN 1 ELSE 0
    BY <1>8, <1>9, <2>1
  <2>3. w[i - 1] \in {0, 1} /\ x[i] = a[i] - b[i] /\ c[i] = 0 - u /\ c[i - 1] = 0 - w[i - 1]
    BY <1>10, <2>1
  <2>4. v = x[i] + c[i - 1] /\ v \in -Base .. Base - 1 /\ u \in {0, 1}
    <3> DEFINE ai == a[i]
               bi == b[i]
               wj == w[i - 1]
    <3>1. ai \in 0 .. Base - 1 /\ bi \in 0 .. Base - 1 /\ wj \in {0, 1} /\ u \in {0, 1}
      BY <1>2, <2>2, <2>3
    <3>2. v = ai - bi - wj /\ x[i] = ai - bi /\ c[i - 1] = 0 - wj
      BY <2>3
    <3> HIDE DEF ai, bi, wj, v, u, c, x
    <3>3. QED
      BY <1>1, <3>1, <3>2
  <2> HIDE DEF v, u, c, x
  <2>5. CASE v < 0
    <3>1. v + Base \in 0 .. Base - 1 /\ v = Base * (-1) + (v + Base)
      BY <1>1, <2>4, <2>5
    <3>2. v % Base = v + Base
      <4> DEFINE z == v + Base
                 q == -1
      <4>1. z \in 0 .. Base - 1 /\ q \in Int /\ v = Base * q + z /\ v \in Int
        BY <1>1, <2>4, <3>1
      <4> HIDE DEF z, q
      <4>2. v % Base = z
        BY <1>1, <4>1, EuclidIs
      <4>3. QED
        BY <4>2 DEF z
    <3>3. u = 1 /\ c[i] = -1 /\ Base * (-1) = -Base
      BY <1>1, <2>2, <2>3, <2>5
    <3>4. QED
      BY <1>1, <2>2, <2>4, <3>1, <3>2, <3>3
  <2>6. CASE v >= 0
    <3>1. v % Base = v
      BY SMTT(30), <1>1, <2>4, <2>6, Small
    <3>2. u = 0
      BY <1>1, <2>2, <2>4, <2>6
    <3>4. c[i] = 0 /\ Base * 0 = 0
      BY <1>1, <2>3, <3>2
    <3>3. QED
      BY <1>1, <2>2, <2>4, <2>6, <3>1, <3>4
  <2>7. QED
    BY <2>4, <2>5, <2>6
<1>12. r \in Words /\ r \in [Sizes -> Int] /\ x \in [Sizes -> Int] /\ c \in [0 .. Count -> Int]
  <2>1. r \in Words
    BY <1>9, <1>11 DEF Words
  <2>2. r \in [Sizes -> Int]
    BY <2>1, TopRange
  <2>3. x \in [Sizes -> Int]
    BY <1>2
  <2>4. c \in [0 .. Count -> Int]
    BY <1>10 DEF N
  <2>5. QED
    BY <2>1, <2>2, <2>3, <2>4
<1>13. bytesToBigInt(x) = bytesToBigInt(a) + (-1) * bytesToBigInt(b)
  <2>1. Linear(x, a, b, -1)
    BY <1>1, <1>2 DEF Linear
  <2> HIDE DEF x
  <2>2. QED
    BY <1>2, <1>12, <2>1, ValueLinear
<1>14. c[0] = 0
  BY <1>1, <1>10
<1> HIDE DEF x, c
<1>15. Carried(r, x, c)
  BY <1>11 DEF Carried
<1> DEFINE s == bytesToBigInt(x)
           p == Power[XLEN]
           k == c[Count]
<1>16. bytesToBigInt(r) = s + c[0] - p * k
  BY <1>12, <1>15, Chain
<1>17. bytesToBigInt(r) \in 0 .. p - 1
  BY <1>12, ValueRange
<1>18. s \in Int /\ p \in Nat \ {0} /\ k \in Int
  <2>1. s \in Int
    BY <1>12, <1>15, Chain
  <2>2. p \in Nat \ {0}
    BY PowerValues, Widths
  <2>3. k \in Int
    BY <1>1, <1>12 DEF N
  <2>4. QED
    BY <2>1, <2>2, <2>3
<1>19. s = bytesToBigInt(a) - bytesToBigInt(b)
  <2>1. bytesToBigInt(b) \in Int /\ bytesToBigInt(a) \in Int
    BY ValueRange
  <2>2. QED
    BY <1>13, <2>1
<1> HIDE DEF s, p, k
<1>20. bytesToBigInt(r) = s % p
  <2> DEFINE z == bytesToBigInt(r)
  <2>1. z \in 0 .. p - 1 /\ z = s - p * k
    BY <1>14, <1>16, <1>17, <1>18
  <2> HIDE DEF z
  <2>2. s = p * k + z
    BY <1>18, <2>1
  <2>3. s % p = z
    BY <1>18, <2>1, <2>2, EuclidIs
  <2>4. QED
    BY <2>3 DEF z
<1>21. QED
  BY <1>12, <1>19, <1>20 DEF r, p

-----------------------------------------------------------------------------
\* Extension, signs and comparison.

\* The bytes of a above the first n are d.
Filled(a, n, d) == \A i \in Sizes : i > n => a[i] = d

\* What these bytes hold when they are all zero or all ones.
LEMMA FilledTops ==
  ASSUME NEW a \in Words, NEW n \in 0 .. Count, NEW e \in {0, 1}, Filled(a, n, e * (Base - 1))
  PROVE  \A k \in 0 .. Count - n : Tops(a)[k] = e * (Weight[k] - 1)
<1> DEFINE t == Tops(a)
           N == Count - n
           S == {k \in 0 .. N : t[k] = e * (Weight[k] - 1)}
<1>1. Count \in Nat /\ Base \in Nat \ {0} /\ N \in 0 .. Count
  BY Widths, Weights
<1>2. t[0] = 0 /\ \A k \in 1 .. Count : t[k] = t[k - 1] * Base + a[Count + 1 - k]
  BY TopRange, TopValues
<1> HIDE DEF t
<1>3. 0 \in S
  <2>1. Weight[0] = 1
    BY Weights
  <2>2. e * (1 - 1) = 0
    OBVIOUS
  <2>3. QED
    BY <1>1, <1>2, <2>1, <2>2
<1>4. \A k \in 0 .. N - 1 : k \in S => k + 1 \in S
  <2> SUFFICES ASSUME NEW k \in 0 .. N - 1, t[k] = e * (Weight[k] - 1)
               PROVE  t[k + 1] = e * (Weight[k + 1] - 1)
    BY <1>1
  <2>1. k + 1 \in 1 .. Count /\ (k + 1) - 1 = k /\ Count - k \in Sizes /\ Count - k > n
        /\ Count + 1 - (k + 1) = Count - k /\ k \in 0 .. Count
    BY <1>1 DEF Sizes
  <2>2. t[k + 1] = t[k] * Base + a[Count - k]
    BY <1>2, <2>1
  <2>3. a[Count - k] = e * (Base - 1)
    BY <2>1 DEF Filled
  <2>4. Weight[k + 1] = Weight[k] * Base /\ Weight[k] \in Nat
    BY <2>1, Weights
  <2> DEFINE w == Weight[k]
  <2>5. t[k + 1] = (e * (w - 1)) * Base + e * (Base - 1) /\ Weight[k + 1] = w * Base /\ w \in Nat
    BY <2>2, <2>3, <2>4
  <2> HIDE DEF w
  <2>6. CASE e = 0
    <3>1. t[k + 1] = (0 * (w - 1)) * Base + 0 * (Base - 1)
      BY <2>5, <2>6
    <3>2. w * Base \in Int
      BY <1>1, <2>5
    <3>3. QED
      BY <1>1, <2>5, <2>6, <3>1, <3>2
  <2>7. CASE e = 1
    <3>1. t[k + 1] = (1 * (w - 1)) * Base + 1 * (Base - 1)
      BY <2>5, <2>7
    <3>2. (1 * (w - 1)) * Base + 1 * (Base - 1) = 1 * (w * Base - 1)
      BY <1>1, <2>5
    <3>3. QED
      BY <2>5, <2>7, <3>1, <3>2
  <2>8. QED
    BY <2>6, <2>7
<1> HIDE DEF S
<1>5. 0 .. N \subseteq S
  BY <1>1, <1>3, <1>4, InductionTo
<1>6. QED
  BY <1>5 DEF S, t

\* The low n bytes hold the remainder by what they weigh, and the others the quotient.
LEMMA Split ==
  ASSUME NEW a \in Words, NEW n \in 0 .. Count
  PROVE  /\ zeroExtendBytes(a, n) \in Words
         /\ bytesToBigInt(zeroExtendBytes(a, n)) = bytesToBigInt(a) % Weight[n]
         /\ Tops(a)[Count - n] = bytesToBigInt(a) \div Weight[n]
<1> DEFINE z == zeroExtendBytes(a, n)
           t == Tops(a)
           u == Tops(z)
           N == Count - n
           S == {k \in 0 .. n : /\ t[N + k] = t[N] * Weight[k] + u[N + k]
                                /\ u[N + k] \in 0 .. Weight[k] - 1}
<1>1. Count \in Nat /\ Base \in Nat \ {0} /\ n \in Nat /\ N \in 0 .. Count
  BY Widths, Weights
<1>2. z \in Words /\ Filled(z, n, 0 * (Base - 1)) /\ \A i \in Sizes : i <= n => z[i] = a[i]
  <2>1. z = [i \in Sizes |-> IF i <= n THEN a[i] ELSE 0]
    BY DEF zeroExtendBytes
  <2> HIDE DEF z
  <2>2. \A i \in Sizes : a[i] \in 0 .. Base - 1 /\ i \in Int
    BY <1>1 DEF Words, Sizes
  <2>3. 0 * (Base - 1) = 0 /\ 0 \in 0 .. Base - 1
    BY <1>1
  <2>4. \A i \in Sizes : z[i] \in 0 .. Base - 1
    BY <2>1, <2>2, <2>3
  <2>5. z \in Words
    BY <2>1, <2>4 DEF Words
  <2>6. \A i \in Sizes : i > n => z[i] = 0
    BY <1>1, <2>1, <2>2
  <2>7. QED
    BY <2>1, <2>3, <2>5, <2>6 DEF Filled
<1> HIDE DEF z
<1>3. a \in [Sizes -> Int] /\ z \in [Sizes -> Int]
  BY <1>2, TopRange
<1>4. /\ t[0] = 0 /\ bytesToBigInt(a) = t[Count] /\ \A k \in 0 .. Count : t[k] \in Int
      /\ \A k \in 1 .. Count : t[k] = t[k - 1] * Base + a[Count + 1 - k]
  BY <1>3, TopValues
<1>5. /\ u[0] = 0 /\ bytesToBigInt(z) = u[Count] /\ \A k \in 0 .. Count : u[k] \in Int
      /\ \A k \in 1 .. Count : u[k] = u[k - 1] * Base + z[Count + 1 - k]
  BY <1>3, TopValues
<1>6. u[N] = 0
  <2>1. Tops(z)[N] = 0 * (Weight[N] - 1)
    BY <1>1, <1>2, FilledTops
  <2>2. Weight[N] \in Int
    BY <1>1, Weights
  <2>3. QED
    BY <2>1, <2>2
<1> HIDE DEF t, u
<1>7. 0 \in S
  <2>1. N + 0 = N /\ t[N] \in Int /\ Weight[0] = 1
    BY <1>1, <1>4, Weights
  <2>2. QED
    BY <1>1, <1>6, <2>1
<1>8. \A k \in 0 .. n - 1 : k \in S => k + 1 \in S
  <2> SUFFICES ASSUME NEW k \in 0 .. n - 1, t[N + k] = t[N] * Weight[k] + u[N + k],
                      u[N + k] \in 0 .. Weight[k] - 1
               PROVE  /\ t[N + (k + 1)] = t[N] * Weight[k + 1] + u[N + (k + 1)]
                      /\ u[N + (k + 1)] \in 0 .. Weight[k + 1] - 1
    BY <1>1
  <2> DEFINE j == N + (k + 1)
             i == n - k
  <2>1. j \in 1 .. Count /\ j - 1 = N + k /\ i \in Sizes /\ i <= n /\ Count + 1 - j = i
        /\ k + 1 \in 1 .. Count /\ (k + 1) - 1 = k /\ k \in 0 .. Count /\ N + k \in 0 .. Count
    BY <1>1 DEF Sizes
  <2> HIDE DEF j, i
  <2>2. t[j] = t[N + k] * Base + a[i] /\ u[j] = u[N + k] * Base + a[i]
    BY <1>2, <1>4, <1>5, <2>1
  <2>3. Weight[k + 1] = Weight[k] * Base /\ Weight[k] \in Nat
    BY <2>1, Weights
  <2> DEFINE w == Weight[k]
             h == t[N]
             l == u[N + k]
             b == a[i]
  <2>4. w \in Nat /\ h \in Int /\ l \in 0 .. w - 1 /\ b \in 0 .. Base - 1
    BY <1>1, <1>4, <2>1, <2>3 DEF Words
  <2>5. t[j] = (h * w + l) * Base + b /\ u[j] = l * Base + b /\ Weight[k + 1] = w * Base
    BY <2>2, <2>3
  <2> HIDE DEF w, h, l, b
  <2>6. (h * w + l) * Base + b = h * (w * Base) + (l * Base + b)
    BY <1>1, <2>4
  <2>7. l * Base + b \in 0 .. w * Base - 1
    <3>1. l * Base \in Nat /\ (w - 1 - l) * Base \in Nat
      BY <1>1, <2>4
    <3>2. (w - 1 - l) * Base = w * Base - Base - l * Base
      BY <1>1, <2>4
    <3>3. w * Base \in Nat
      BY <1>1, <2>4
    <3>4. QED
      BY <1>1, <2>4, <3>1, <3>2, <3>3
  <2>8. t[j] = h * Weight[k + 1] + u[j] /\ u[j] \in 0 .. Weight[k + 1] - 1
    BY <2>5, <2>6, <2>7
  <2>9. QED
    BY <2>8 DEF j, h
<1> HIDE DEF S
<1>9. 0 .. n \subseteq S
  BY <1>1, <1>7, <1>8, InductionTo
<1>10. t[N + n] = t[N] * Weight[n] + u[N + n] /\ u[N + n] \in 0 .. Weight[n] - 1 /\ N + n = Count
  <2>1. n \in 0 .. n /\ N + n = Count
    BY <1>1
  <2>2. QED
    BY <1>9, <2>1 DEF S
<1> DEFINE w == Weight[n]
           x == t[Count]
           h == t[N]
           l == u[Count]
<1>11. w \in Nat \ {0} /\ h \in Int /\ x \in Int /\ x = h * w + l /\ l \in 0 .. w - 1
  BY <1>1, <1>4, <1>10, Weights
<1> HIDE DEF w, x, h, l
<1>12. x = w * h + l
  BY <1>11
<1>13. x \div w = h /\ x % w = l
  BY <1>11, <1>12, EuclidIs
<1>14. QED
  BY <1>2, <1>4, <1>5, <1>13 DEF w, x, h, l, z, t, N

\* Products keep the order.
LEMMA Monotone ==
  ASSUME NEW p \in Nat, NEW x \in Int, NEW y \in Int, x <= y
  PROVE  p * x <= p * y /\ p * x \in Int /\ p * y \in Int
<1>1. p * (y - x) \in Nat
  OBVIOUS
<1>2. p * (y - x) = p * y - p * x /\ p * x \in Int /\ p * y \in Int
  OBVIOUS
<1>3. QED
  BY <1>1, <1>2

\* Half of what n bytes can hold is a power too.
LEMMA HalfWeight ==
  ASSUME NEW n \in 1 .. Count
  PROVE  /\ ByteBits * n \in 1 .. XLEN /\ Weight[n] = Power[ByteBits * n]
         /\ Power[ByteBits * n - 1] \in Nat \ {0} /\ Weight[n] = 2 * Power[ByteBits * n - 1]
<1> DEFINE b == ByteBits * n
<1>1. b \in 1 .. XLEN
  <2>1. n \in 0 .. Count /\ n \in Nat \ {0}
    BY Widths
  <2>2. b \in 0 .. XLEN
    BY <2>1, Weights
  <2>3. b # 0
    BY <2>1, Widths
  <2>4. QED
    BY <2>2, <2>3, Widths
<1>2. Weight[n] = Power[b]
  BY Widths DEF Weight
<1> HIDE DEF b
<1>3. b - 1 \in 0 .. XLEN
  BY <1>1, Widths
<1>4. Power[b] = 2 * Power[b - 1] /\ Power[b - 1] \in Nat \ {0}
  BY <1>1, <1>3, PowerValues
<1>5. QED
  BY <1>1, <1>2, <1>4 DEF b

\* The top bit of n bytes is that of the number they hold.
LEMMA SignBit ==
  ASSUME NEW a \in Words, NEW n \in 1 .. Count
  PROVE  2 * a[n] >= Base <=> bytesToBigInt(a) % Weight[n] >= Power[ByteBits * n - 1]
<1> DEFINE z == zeroExtendBytes(a, n)
           m == bytesToBigInt(a) % Weight[n]
           j == n - 1
           N == Count - n
           H == Power[ByteBits - 1]
           W == Weight[j]
           d == a[n]
           l == m % W
<1>1. Count \in Nat /\ Base \in Nat \ {0} /\ n \in Sizes /\ n \in 0 .. Count /\ j \in 0 .. Count
      /\ N \in 0 .. Count /\ N + 1 = Count - j /\ N + 1 \in 1 .. Count /\ (N + 1) - 1 = N
      /\ Count + 1 - (N + 1) = n
  BY Widths, Weights DEF Sizes
<1>2. z \in Words /\ bytesToBigInt(z) = m /\ z[n] = d /\ Filled(z, n, 0 * (Base - 1))
  <2>1. \A i \in Sizes : i > n => z[i] = 0
    BY <1>1 DEF zeroExtendBytes, Sizes
  <2>2. 0 * (Base - 1) = 0
    BY <1>1
  <2>3. z[n] = d
    BY <1>1 DEF zeroExtendBytes
  <2>4. z \in Words /\ bytesToBigInt(z) = m
    BY <1>1, Split
  <2>5. QED
    BY <2>1, <2>2, <2>3, <2>4 DEF Filled
<1> HIDE DEF z
<1>3. Tops(z)[N] = 0
  <2>1. Tops(z)[N] = 0 * (Weight[N] - 1)
    BY <1>1, <1>2, FilledTops
  <2>2. Weight[N] \in Int
    BY <1>1, Weights
  <2>3. QED
    BY <2>1, <2>2
<1>4. Tops(z)[N + 1] = d
  <2>1. Tops(z)[N + 1] = Tops(z)[N] * Base + z[n]
    BY <1>1, <1>2, TopRange, TopValues
  <2>2. z[n] \in Int /\ 0 * Base = 0
    BY <1>1, <1>2 DEF Words
  <2>3. QED
    BY <1>2, <1>3, <2>1, <2>2
<1>5. Tops(z)[N + 1] = m \div W /\ W \in Nat \ {0} /\ m \in Int
  <2>1. Tops(z)[Count - j] = bytesToBigInt(z) \div Weight[j]
    BY <1>1, <1>2, Split
  <2>2. bytesToBigInt(z) \in Int
    BY <1>2, ValueRange
  <2>3. QED
    BY <1>1, <1>2, <2>1, <2>2, Weights
<1>6. d \in 0 .. Base - 1 /\ d = m \div W
  BY <1>1, <1>4, <1>5 DEF Words
<1>7. Base = 2 * H /\ H \in Nat \ {0}
  <2>1. 1 \in 1 .. Count /\ ByteBits * 1 = ByteBits /\ Weight[1] = Base
    BY Widths, Weights
  <2>2. QED
    BY <2>1, HalfWeight
<1>8. Power[ByteBits * n - 1] = W * H
  <2>1. Weight[n] = W * Base
    BY <1>1, Weights
  <2>2. Weight[n] = 2 * Power[ByteBits * n - 1] /\ Power[ByteBits * n - 1] \in Nat
    BY HalfWeight
  <2> DEFINE q == Power[ByteBits * n - 1]
  <2> HIDE DEF q, W, H
  <2>3. 2 * q = W * (2 * H) /\ q \in Nat
    BY <1>7, <2>1, <2>2 DEF q
  <2>4. W * (2 * H) = 2 * (W * H) /\ W * H \in Int
    BY <1>5, <1>7
  <2>5. q = W * H
    BY <2>3, <2>4
  <2>6. QED
    BY <2>5 DEF q
<1> HIDE DEF m, d, W, H
<1>9. m = W * d + l /\ l \in 0 .. W - 1
  BY <1>5, <1>6, Euclid
<1> HIDE DEF l
<1>10. CASE d >= H
  <2>1. W * (d - H) \in Nat /\ W * (d - H) = W * d - W * H /\ W * d \in Int /\ W * H \in Int
    BY <1>5, <1>6, <1>7, <1>10
  <2>2. m >= W * H
    BY <1>9, <2>1
  <2>3. 2 * d >= Base
    BY <1>6, <1>7, <1>10
  <2>4. QED
    BY <1>8, <2>2, <2>3 DEF m, d
<1>11. CASE d < H
  <2>1. W * (d + 1) <= W * H /\ W * (d + 1) = W * d + W /\ W * d \in Int /\ W * H \in Int
    <3>1. W * (d + 1) = W * d + W /\ W * d \in Int
      BY <1>5, <1>6
    <3> DEFINE x == d + 1
    <3>2. x <= H /\ x \in Int /\ W \in Nat /\ H \in Int
      BY <1>5, <1>6, <1>7, <1>11
    <3> HIDE DEF x
    <3>3. W * x <= W * H /\ W * H \in Int
      BY <3>2, Monotone
    <3>4. QED
      BY <3>1, <3>3 DEF x
  <2>2. m < W * H
    BY <1>5, <1>9, <2>1
  <2>3. ~(2 * d >= Base)
    BY <1>6, <1>7, <1>11
  <2>4. ~(m >= W * H)
    BY <1>5, <2>1, <2>2
  <2>5. QED
    BY <1>8, <2>3, <2>4 DEF m, d
<1>12. QED
  BY <1>6, <1>7, <1>10, <1>11

\* A number of n bytes read with its sign.
LEMMA SignedRange ==
  ASSUME NEW v \in Int, NEW n \in 1 .. Count
  PROVE  /\ ToSigned(v, ByteBits * n) \in Int
         /\ ToSigned(v, ByteBits * n) >= 0 - Power[ByteBits * n - 1]
         /\ ToSigned(v, ByteBits * n) < Power[ByteBits * n - 1]
         /\ ToSigned(v, ByteBits * n) % Weight[n] = v % Weight[n]
         /\ v % Weight[n] \in 0 .. Weight[n] - 1
<1> DEFINE w == Weight[n]
           h == Power[ByteBits * n - 1]
           m == v % w
           s == ToSigned(v, ByteBits * n)
<1>1. w \in Nat \ {0} /\ h \in Nat \ {0} /\ w = 2 * h
  <2>1. n \in 0 .. Count
    BY Widths
  <2>2. Weight[n] \in Nat \ {0}
    BY <2>1, Weights
  <2>3. h \in Nat \ {0} /\ w = 2 * h
    BY HalfWeight
  <2>4. QED
    BY <2>2, <2>3
<1>2. s = IF m >= h THEN m - w ELSE m
  BY HalfWeight DEF ToSigned, Mod
<1> HIDE DEF s, w, h
<1>3. m \in 0 .. w - 1
  BY <1>1, Euclid
<1>4. m % w = m
  <2> HIDE DEF m
  <2>1. QED
    BY <1>1, <1>3, Small
<1>5. s % w = m
  <2>1. CASE m >= h
    <3> DEFINE k == -1
    <3>1. s = m + w * k /\ m \in Int /\ k \in Int
      BY <1>1, <1>2, <1>3, <2>1
    <3> HIDE DEF m, k
    <3>2. (m + w * k) % w = m % w
      BY <1>1, <3>1, AddMultiple
    <3>3. QED
      BY <1>4, <3>1, <3>2
  <2>2. CASE ~(m >= h)
    BY <1>2, <1>4, <2>2
  <2>3. QED
    BY <2>1, <2>2
<1> HIDE DEF m
<1>6. s \in Int /\ s >= 0 - h /\ s < h
  BY <1>1, <1>2, <1>3
<1>7. QED
  BY <1>3, <1>5, <1>6 DEF s, w, h, m

\* r and a have the same first n bytes.
Agree(r, a, n) == \A i \in Sizes : i <= n => r[i] = a[i]

\* Then their values have the same remainder.
LEMMA SameLow ==
  ASSUME NEW r \in Words, NEW a \in Words, NEW n \in 0 .. Count, Agree(r, a, n)
  PROVE  bytesToBigInt(r) % Weight[n] = bytesToBigInt(a) % Weight[n]
<1>1. zeroExtendBytes(r, n) = zeroExtendBytes(a, n)
  BY DEF Agree, zeroExtendBytes
<1>2. QED
  BY <1>1, Split

\* A remainder by more bytes has the same remainder by fewer.
LEMMA FewerBytes ==
  ASSUME NEW v \in Int, NEW n \in 0 .. Count, NEW j \in 0 .. n
  PROVE  (v % Weight[n]) % Weight[j] = v % Weight[j]
<1> DEFINE p == Weight[j]
           q == Weight[n - j]
<1>1. j \in 0 .. Count /\ n - j \in 0 .. Count - j /\ n - j \in 0 .. Count /\ j + (n - j) = n
  BY Widths
<1>2. p \in Nat \ {0} /\ q \in Nat \ {0}
  BY <1>1, Weights
<1> DEFINE w == Weight[n]
<1>3. Product(w, p, q)
  <2>1. Weight[j + (n - j)] = Weight[j] * Weight[n - j]
    BY <1>1, Weights
  <2>2. QED
    BY <1>1, <2>1 DEF Product
<1> HIDE DEF p, q, w
<1>4. DividedBy(v, w, p, q)
  BY <1>2, <1>3, ByProduct
<1>5. QED
  BY <1>4 DEF p, w, DividedBy

\* The low n bytes and the value of the others make up the value.
LEMMA Joined ==
  ASSUME NEW a \in Words, NEW n \in 0 .. Count
  PROVE  /\ Weight[n] \in Nat \ {0} /\ Weight[Count - n] \in Nat \ {0}
         /\ Weight[n] * Weight[Count - n] = Power[XLEN]
         /\ bytesToBigInt(a) = Weight[n] * Tops(a)[Count - n] + (bytesToBigInt(a) % Weight[n])
         /\ bytesToBigInt(a) % Weight[n] \in 0 .. Weight[n] - 1
         /\ Tops(a)[Count - n] \in 0 .. Weight[Count - n] - 1
<1>1. n \in 0 .. Count /\ Count - n \in 0 .. Count - n /\ Count - n \in 0 .. Count
      /\ n + (Count - n) = Count
  BY Widths
<1>2. Weight[n] \in Nat \ {0} /\ Weight[Count - n] \in Nat \ {0}
  BY <1>1, Weights
<1>3. Weight[n] * Weight[Count - n] = Power[XLEN]
  <2>1. Weight[n + (Count - n)] = Weight[n] * Weight[Count - n]
    BY <1>1, Weights
  <2>2. Weight[Count] = Power[XLEN]
    BY Weights
  <2>3. QED
    BY <1>1, <2>1, <2>2
<1>4. Tops(a)[Count - n] \in 0 .. Weight[Count - n] - 1
  BY <1>1, TopRange
<1>5. Tops(a)[Count - n] = bytesToBigInt(a) \div Weight[n] /\ bytesToBigInt(a) \in Int
  BY Split, ValueRange
<1> DEFINE v == bytesToBigInt(a)
           w == Weight[n]
<1>6. v \in Int /\ w \in Nat \ {0}
  BY <1>2, <1>5
<1> HIDE DEF v, w
<1>7. v = w * (v \div w) + (v % w) /\ v % w \in 0 .. w - 1
  BY <1>6, Euclid
<1>8. QED
  BY <1>2, <1>3, <1>4, <1>5, <1>7 DEF v, w

\* Sign extension keeps the signed value of the low bytes.
LEMMA SignExtend ==
  ASSUME NEW a \in Words, NEW n \in 1 .. Count
  PROVE  /\ signExtendBytes(a, n) \in Words
         /\ bytesToBigInt(signExtendBytes(a, n)) = ToSigned(bytesToBigInt(a), ByteBits * n) % Power[XLEN]
         /\ Agree(signExtendBytes(a, n), a, n)
<1> DEFINE s == signExtendBytes(a, n)
           e == IF 2 * a[n] >= Base THEN 1 ELSE 0
           N == Count - n
           m == bytesToBigInt(a) % Weight[n]
           w == Weight[n]
           u == Weight[N]
           p == Power[XLEN]
           v == bytesToBigInt(s)
           t == ToSigned(bytesToBigInt(a), ByteBits * n)
           h == Power[ByteBits * n - 1]
<1>1. Count \in Nat /\ Base \in Nat \ {0} /\ n \in Sizes /\ n \in 0 .. Count /\ N \in 0 .. Count
      /\ N \in 0 .. Count - n
  BY Widths, Weights DEF Sizes
<1>2. e \in {0, 1} /\ e * (Base - 1) \in 0 .. Base - 1
      /\ e * (Base - 1) = IF 2 * a[n] >= Base THEN Base - 1 ELSE 0
  <2>1. 0 * (Base - 1) = 0 /\ 1 * (Base - 1) = Base - 1
    BY <1>1
  <2>2. QED
    BY <1>1, <2>1
<1>3. s \in Words /\ Filled(s, n, e * (Base - 1)) /\ Agree(s, a, n)
  <2>1. s = [i \in Sizes |-> IF i <= n THEN a[i] ELSE e * (Base - 1)]
    BY <1>2 DEF signExtendBytes
  <2> HIDE DEF s, e
  <2>2. \A i \in Sizes : a[i] \in 0 .. Base - 1 /\ i \in Int
    BY <1>1 DEF Words, Sizes
  <2>3. \A i \in Sizes : s[i] \in 0 .. Base - 1
    BY <1>2, <2>1, <2>2
  <2>4. s \in Words
    BY <2>1, <2>3 DEF Words
  <2>5. Filled(s, n, e * (Base - 1))
    BY <1>1, <2>1, <2>2 DEF Filled
  <2>6. Agree(s, a, n)
    BY <2>1 DEF Agree
  <2>7. QED
    BY <2>4, <2>5, <2>6
<1> HIDE DEF s
<1>4. v % w = m
  BY <1>1, <1>3, SameLow
<1>5. Tops(s)[N] = e * (u - 1)
  BY <1>1, <1>2, <1>3, FilledTops
<1>6. w \in Nat \ {0} /\ u \in Nat \ {0} /\ w * u = p /\ m \in 0 .. w - 1
      /\ v = w * Tops(s)[N] + m
  <2>1. v = w * Tops(s)[N] + (v % w) /\ v % w \in 0 .. w - 1
    BY <1>1, <1>3, Joined
  <2>2. QED
    BY <1>1, <1>3, <1>4, <2>1, Joined
<1>7. h \in Nat \ {0} /\ w = 2 * h /\ (e = 1 <=> m >= h)
  <2>1. 2 * a[n] >= Base <=> bytesToBigInt(a) % Weight[n] >= Power[ByteBits * n - 1]
    BY SignBit
  <2>2. QED
    BY <2>1, HalfWeight
<1>8. t = IF m >= h THEN m - w ELSE m
  BY HalfWeight DEF ToSigned, Mod
<1>9. v \in 0 .. p - 1 /\ p \in Nat \ {0}
  BY <1>3, ValueRange, PowerValues, Widths
<1>10. v = w * (e * (u - 1)) + m
  BY <1>5, <1>6
<1> HIDE DEF v, w, u, m, h, t, e, p
<1>11. v = t % p
  <2>1. CASE e = 1
    <3>1. w * (1 * (u - 1)) = p - w
      BY <1>6
    <3>2. v = p - w + m /\ t = m - w
      BY <1>7, <1>8, <1>10, <2>1, <3>1
    <3> DEFINE k == -1
    <3>3. t = p * k + v /\ k \in Int /\ t \in Int
      BY <1>6, <1>9, <3>2
    <3> HIDE DEF k
    <3>4. QED
      BY <1>9, <3>3, EuclidIs
  <2>2. CASE e = 0
    <3>1. w * (0 * (u - 1)) = 0
      BY <1>6
    <3>2. v = m /\ t = m
      BY <1>6, <1>7, <1>8, <1>10, <2>2, <3>1
    <3>3. QED
      BY <1>9, <3>2, Small
  <2>3. QED
    BY <1>2, <2>1, <2>2
<1>12. QED
  BY <1>3, <1>11 DEF v, t, s, p

\* The value read with its sign.
LEMMA SignedValue ==
  ASSUME NEW a \in Words
  PROVE  /\ signedBytesToBigInt(a) = ToSigned(bytesToBigInt(a), XLEN)
         /\ Negative(a) <=> ToSigned(bytesToBigInt(a), XLEN) < 0
<1> DEFINE v == bytesToBigInt(a)
           p == Power[XLEN]
           h == Power[XLEN - 1]
<1>1. Count \in 1 .. Count /\ ByteBits * Count = XLEN /\ Weight[Count] = p
  BY Widths, Weights
<1>2. h \in Nat \ {0} /\ p = 2 * h
  <2>1. Power[ByteBits * Count - 1] \in Nat \ {0} /\ Weight[Count] = 2 * Power[ByteBits * Count - 1]
    BY <1>1, HalfWeight
  <2>2. QED
    BY <1>1, <2>1
<1>3. v \in 0 .. p - 1
  BY ValueRange
<1>4. Negative(a) <=> v % p >= h
  <2>1. 2 * a[Count] >= Base <=> v % Weight[Count] >= Power[ByteBits * Count - 1]
    BY <1>1, SignBit
  <2>2. QED
    BY <1>1, <2>1 DEF Negative
<1>5. signedBytesToBigInt(a) = IF Negative(a) THEN v - p ELSE v
  BY DEF signedBytesToBigInt
<1>6. ToSigned(v, XLEN) = IF v % p >= h THEN (v % p) - p ELSE v % p
  BY DEF ToSigned, Mod
<1> HIDE DEF v, p, h
<1>7. v % p = v
  BY <1>2, <1>3, Small
<1>8. QED
  BY <1>2, <1>3, <1>4, <1>5, <1>6, <1>7 DEF v

\* A register of zeros holds zero.
LEMMA ZeroValue ==
  /\ [i \in Sizes |-> 0] \in Words
  /\ bytesToBigInt([i \in Sizes |-> 0]) = 0
<1> DEFINE z == [i \in Sizes |-> 0]
<1>1. Base \in Nat \ {0} /\ 0 * (Base - 1) = 0 /\ 0 \in 0 .. Count /\ Count - 0 = Count
      /\ Count \in 0 .. Count
  BY Weights, Widths
<1>2. z \in Words
  BY <1>1 DEF Words
<1>3. Filled(z, 0, 0 * (Base - 1))
  BY <1>1 DEF Filled
<1> HIDE DEF z
<1>4. Tops(z)[Count] = 0 * (Weight[Count] - 1)
  BY <1>1, <1>2, <1>3, FilledTops
<1>5. Weight[Count] \in Int
  BY <1>1, Weights
<1>6. Tops(z)[Count] = 0
  BY <1>4, <1>5
<1>7. QED
  BY <1>2, <1>6, TopRange, TopValues DEF z

\* The bytes of an integer hold its low XLEN bits.
LEMMA FromInteger ==
  ASSUME NEW v \in Int
  PROVE  /\ unsignedBigIntToBytes(v) \in Words
         /\ bytesToBigInt(unsignedBigIntToBytes(v)) = v % Power[XLEN]
<1> DEFINE N == Count
           v0 == v % Power[XLEN]
           step == [k \in 1 .. N |-> [x \in Int |-> x \div Base]]
<1>1. N \in Nat /\ Base \in Nat \ {0} /\ Sizes = 1 .. N /\ v0 \in Int
  <2>1. Power[XLEN] \in Nat \ {0}
    BY PowerValues, Widths
  <2>2. v0 \in Int
    BY <2>1, Euclid
  <2>3. QED
    BY <2>2, Widths, Weights DEF Sizes
<1> HIDE DEF N, v0
<1>2. \A k \in 1 .. N, x \in Int : step[k][x] = x \div Base /\ step[k][x] \in Int
  BY <1>1
<1> HIDE DEF step
<1>3. PICK f : Solves(f, N, Int, v0, step)
  <2>1. \A k \in 1 .. N : \A x \in Int : step[k][x] \in Int
    BY <1>2
  <2>2. QED
    BY <1>1, <2>1, Recursion, Zenon
<1>4. f \in [0 .. N -> Int] /\ f[0] = v0 /\ \A k \in 1 .. N : f[k] = step[k][f[k - 1]]
  BY <1>3 DEF Solves
<1>5. \A k \in 0 .. N : f[k] = IF k = 0 THEN v0 ELSE f[k - 1] \div Base
  <2>1. \A k \in 1 .. N : f[k - 1] \in Int /\ k # 0
    BY <1>1, <1>4
  <2>2. \A k \in 1 .. N : f[k] = f[k - 1] \div Base
    BY <1>2, <1>4, <2>1
  <2>3. \A k \in 0 .. N : k = 0 \/ k \in 1 .. N
    OBVIOUS
  <2>4. QED
    BY <1>4, <2>1, <2>2, <2>3
<1>6. f = [k \in 0 .. N |-> IF k = 0 THEN v0 ELSE f[k - 1] \div Base]
  BY <1>4, <1>5
<1> DEFINE c == CHOOSE remaining : remaining = [k \in 0 .. N |->
                     IF k = 0 THEN v0 ELSE remaining[k - 1] \div Base]
           r == unsignedBigIntToBytes(v)
           x == [i \in Sizes |-> 0]
<1>7. c = [k \in 0 .. N |-> IF k = 0 THEN v0 ELSE c[k - 1] \div Base]
  BY <1>6
<1>8. r = [i \in Sizes |-> c[i - 1] % Base]
  BY DEF unsignedBigIntToBytes, N, v0
<1> HIDE DEF c, r
<1>9. c \in [0 .. N -> Int] /\ c[0] = v0
  <2> DEFINE S == {i \in 0 .. N : c[i] \in Int}
  <2>1. 0 \in S
    BY <1>1, <1>7
  <2>2. \A i \in 0 .. N - 1 : i \in S => i + 1 \in S
    <3> SUFFICES ASSUME NEW i \in 0 .. N - 1, c[i] \in Int PROVE c[i + 1] \in Int
      BY <1>1
    <3> DEFINE j == i + 1
    <3>1. j \in 0 .. N /\ j # 0 /\ j - 1 = i
      BY <1>1
    <3> HIDE DEF j
    <3>2. c[j] = c[j - 1] \div Base
      BY <1>7, <3>1
    <3>3. c[i] \div Base \in Int
      BY <1>1, Euclid
    <3>4. QED
      BY <3>1, <3>2, <3>3 DEF j
  <2> HIDE DEF S
  <2>3. 0 .. N \subseteq S
    BY <1>1, <2>1, <2>2, InductionTo
  <2>4. \A i \in 0 .. N : c[i] \in Int
    BY <2>3 DEF S
  <2>5. QED
    BY <1>1, <1>7, <2>4
<1>10. \A i \in Sizes : r[i] \in 0 .. Base - 1 /\ r[i] + Base * c[i] = x[i] + c[i - 1]
  <2> SUFFICES ASSUME NEW i \in Sizes
               PROVE  r[i] \in 0 .. Base - 1 /\ r[i] + Base * c[i] = x[i] + c[i - 1]
    OBVIOUS
  <2> DEFINE y == c[i - 1]
  <2>1. i \in 0 .. N /\ i - 1 \in 0 .. N /\ i # 0
    BY <1>1
  <2>2. r[i] = y % Base /\ c[i] = y \div Base /\ y \in Int /\ x[i] = 0
    BY <1>7, <1>8, <1>9, <2>1
  <2> HIDE DEF y, x
  <2>3. y \div Base \in Int /\ y % Base \in 0 .. Base - 1 /\ y = Base * (y \div Base) + (y % Base)
    BY <1>1, <2>2, Euclid
  <2>4. r[i] + Base * c[i] = y /\ y = 0 + y
    BY <1>1, <2>2, <2>3
  <2>5. QED
    BY <2>2, <2>3, <2>4 DEF y
<1>11. r \in Words /\ r \in [Sizes -> Int] /\ x \in [Sizes -> Int] /\ c \in [0 .. Count -> Int]
  <2>1. r \in Words
    BY <1>8, <1>10 DEF Words
  <2>2. r \in [Sizes -> Int]
    BY <2>1, TopRange
  <2>3. c \in [0 .. Count -> Int]
    BY <1>9 DEF N
  <2>4. QED
    BY <2>1, <2>2, <2>3
<1>12. bytesToBigInt(x) = 0
  BY ZeroValue
<1> HIDE DEF x
<1>13. Carried(r, x, c)
  BY <1>10 DEF Carried
<1> DEFINE p == Power[XLEN]
           k == c[Count]
           w == bytesToBigInt(r)
<1>14. w = 0 + v0 - p * k
  BY <1>9, <1>11, <1>12, <1>13, Chain
<1>15. w \in 0 .. p - 1
  BY <1>11, ValueRange
<1>16. p \in Nat \ {0} /\ k \in Int
  <2>1. XLEN \in 0 .. XLEN /\ Count \in 0 .. Count
    BY Widths
  <2>2. QED
    BY <1>11, <2>1, PowerValues
<1>17. v0 \in 0 .. p - 1
  BY <1>16, Euclid DEF v0
<1> HIDE DEF p, k, w
<1>18. v0 = p * k + w
  BY <1>1, <1>14, <1>15, <1>16
<1>19. v0 % p = w
  BY <1>1, <1>15, <1>16, <1>18, EuclidIs
<1>20. v0 % p = v0
  BY <1>16, <1>17, Small
<1>21. QED
  BY <1>11, <1>19, <1>20 DEF r, w, v0, p

\* r and a have the same bytes above the first n.
AgreeAbove(r, a, n) == \A i \in Sizes : i > n => r[i] = a[i]

\* Then these hold the same.
LEMMA SameTops ==
  ASSUME NEW r \in Words, NEW a \in Words, NEW n \in 0 .. Count, AgreeAbove(r, a, n)
  PROVE  \A k \in 0 .. Count - n : Tops(r)[k] = Tops(a)[k]
<1> DEFINE t == Tops(r)
           u == Tops(a)
           N == Count - n
           S == {k \in 0 .. N : t[k] = u[k]}
<1>1. Count \in Nat /\ N \in 0 .. Count
  BY Widths
<1>2. t[0] = 0 /\ \A k \in 1 .. Count : t[k] = t[k - 1] * Base + r[Count + 1 - k]
  BY TopRange, TopValues
<1>3. u[0] = 0 /\ \A k \in 1 .. Count : u[k] = u[k - 1] * Base + a[Count + 1 - k]
  BY TopRange, TopValues
<1> HIDE DEF t, u
<1>4. 0 \in S
  BY <1>1, <1>2, <1>3
<1>5. \A k \in 0 .. N - 1 : k \in S => k + 1 \in S
  <2> SUFFICES ASSUME NEW k \in 0 .. N - 1, t[k] = u[k] PROVE t[k + 1] = u[k + 1]
    BY <1>1
  <2>1. k + 1 \in 1 .. Count /\ (k + 1) - 1 = k /\ Count - k \in Sizes /\ Count - k > n
        /\ Count + 1 - (k + 1) = Count - k
    BY <1>1 DEF Sizes
  <2>2. t[k + 1] = t[k] * Base + r[Count - k] /\ u[k + 1] = u[k] * Base + a[Count - k]
    BY <1>2, <1>3, <2>1
  <2>3. QED
    BY <2>1, <2>2 DEF AgreeAbove
<1> HIDE DEF S
<1>6. 0 .. N \subseteq S
  BY <1>1, <1>4, <1>5, InductionTo
<1>7. QED
  BY <1>6 DEF S, t, u

\* The most significant byte that differs orders the values.
LEMMA TopDifference ==
  ASSUME NEW a \in Words, NEW b \in Words, NEW m \in Sizes, AgreeAbove(a, b, m), a[m] < b[m]
  PROVE  bytesToBigInt(a) < bytesToBigInt(b)
<1> DEFINE j == m - 1
           N == Count - m
           t == Tops(a)[N]
           w == Weight[j]
           x == bytesToBigInt(a)
           y == bytesToBigInt(b)
           am == a[m]
           bm == b[m]
<1>1. Count \in Nat /\ Base \in Nat \ {0} /\ m \in 0 .. Count /\ j \in 0 .. Count /\ N \in 0 .. Count
      /\ N + 1 = Count - j /\ N + 1 \in 1 .. Count /\ (N + 1) - 1 = N /\ Count + 1 - (N + 1) = m
  BY Widths, Weights DEF Sizes
<1>2. t = Tops(b)[N]
  <2>1. N \in 0 .. Count - m
    BY <1>1
  <2>2. QED
    BY <1>1, <2>1, SameTops
<1>3. Tops(a)[Count - j] = t * Base + am /\ Tops(b)[Count - j] = t * Base + bm
  <2>1. Tops(a)[N + 1] = Tops(a)[N] * Base + a[m]
    BY <1>1, TopRange, TopValues
  <2>2. Tops(b)[N + 1] = Tops(b)[N] * Base + b[m]
    BY <1>1, TopRange, TopValues
  <2>3. QED
    BY <1>1, <1>2, <2>1, <2>2
<1>4. w \in Nat \ {0} /\ x = w * Tops(a)[Count - j] + (x % w) /\ x % w \in 0 .. w - 1
  BY <1>1, Joined
<1>5. y = w * Tops(b)[Count - j] + (y % w) /\ y % w \in 0 .. w - 1
  BY <1>1, Joined
<1> DEFINE l == x % w
           k == y % w
           p == t * Base + am
           q == t * Base + bm
<1>6. am \in Int /\ bm \in Int /\ t \in Int /\ am < bm
  <2>1. t \in Int
    BY <1>1, TopRange
  <2>2. QED
    BY <1>1, <2>1 DEF Words
<1> HIDE DEF am, bm, t
<1>7. p + 1 <= q /\ p \in Int /\ q \in Int
  <2>1. t * Base \in Int
    BY <1>1, <1>6
  <2>2. QED
    BY <1>6, <2>1
<1>8. x = w * p + l /\ y = w * q + k /\ l \in 0 .. w - 1 /\ k \in 0 .. w - 1
  BY <1>3, <1>4, <1>5
<1> HIDE DEF p, q, l, k, x, y, w
<1>9. w * (p + 1) <= w * q /\ w * p \in Int /\ w * q \in Int /\ w * (p + 1) = w * p + w
  <2> DEFINE z == p + 1
  <2>1. z \in Int /\ z <= q
    BY <1>7
  <2> HIDE DEF z
  <2>2. w * z <= w * q
    BY <1>4, <1>7, <2>1, Monotone
  <2>3. QED
    BY <1>4, <1>7, <2>2 DEF z
<1>10. x < y
  BY <1>4, <1>8, <1>9
<1>11. QED
  BY <1>10 DEF x, y

\* What a three-way comparison returns.
Order(x, y) == IF x = y THEN 0 ELSE IF x < y THEN -1 ELSE 1

\* The comparison of the bytes is that of the values.
LEMMA CompareIsOrder ==
  ASSUME NEW a \in Words, NEW b \in Words
  PROVE  compareUnsignedBytes(a, b) = Order(bytesToBigInt(a), bytesToBigInt(b))
<1> DEFINE differ == {i \in Sizes : a[i] # b[i]}
           m == Max(differ)
           x == bytesToBigInt(a)
           y == bytesToBigInt(b)
<1>1. x \in Int /\ y \in Int /\ Count \in Nat
  BY ValueRange, Widths
<1>2. CASE differ = {}
  <2>1. a = b
    <3>1. \A i \in Sizes : a[i] = b[i]
      BY <1>2
    <3>2. QED
      BY <3>1 DEF Words
  <2>2. compareUnsignedBytes(a, b) = 0
    BY <1>2 DEF compareUnsignedBytes
  <2>3. QED
    BY <2>1, <2>2 DEF Order
<1>3. CASE differ # {}
  <2>1. m \in differ /\ \A i \in differ : m >= i
    <3> DEFINE D == {Count - i : i \in differ}
    <3>1. D \in SUBSET Nat /\ D # {}
      BY <1>1, <1>3 DEF Sizes
    <3>2. PICK d \in D : \A k \in D : d <= k
      BY <3>1, LeastNatural
    <3>3. PICK i \in differ : d = Count - i
      BY <3>2
    <3>4. \A k \in differ : i >= k
      <4> SUFFICES ASSUME NEW k \in differ PROVE i >= k
        OBVIOUS
      <4>1. d <= Count - k
        BY <3>2
      <4>2. i \in Int /\ k \in Int
        BY DEF Sizes
      <4>3. QED
        BY <1>1, <3>3, <4>1, <4>2
    <3>5. QED
      BY <3>3, <3>4 DEF Max
  <2>2. compareUnsignedBytes(a, b) = IF a[m] < b[m] THEN -1 ELSE 1
    BY <1>3 DEF compareUnsignedBytes
  <2>3. m \in Sizes /\ a[m] # b[m]
    BY <2>1
  <2>4. AgreeAbove(a, b, m) /\ AgreeAbove(b, a, m)
    <3> SUFFICES ASSUME NEW i \in Sizes, i > m PROVE a[i] = b[i]
      BY DEF AgreeAbove
    <3>1. i \in Int /\ m \in Int
      BY <2>3 DEF Sizes
    <3>2. i \notin differ
      <4> HIDE DEF m, differ
      <4>1. QED
        BY <2>1, <3>1
    <3>3. QED
      BY <3>2
  <2> HIDE DEF m, differ
  <2>5. a[m] \in Int /\ b[m] \in Int
    BY <2>3, Weights DEF Words
  <2>6. CASE a[m] < b[m]
    <3>1. x < y
      BY <2>3, <2>4, <2>6, TopDifference
    <3>2. QED
      BY <1>1, <2>2, <2>6, <3>1 DEF Order
  <2>7. CASE b[m] < a[m]
    <3>1. y < x
      BY <2>3, <2>4, <2>7, TopDifference
    <3>2. ~(a[m] < b[m]) /\ x # y /\ ~(x < y)
      BY <1>1, <2>5, <2>7, <3>1
    <3>3. QED
      BY <2>2, <3>2 DEF Order
  <2>8. QED
    BY <2>3, <2>5, <2>6, <2>7
<1>4. QED
  BY <1>2, <1>3

\* The signed comparison is that of the signed values.
LEMMA CompareIsSignedOrder ==
  ASSUME NEW a \in Words, NEW b \in Words
  PROVE  compareSignedBytes(a, b)
           = Order(ToSigned(bytesToBigInt(a), XLEN), ToSigned(bytesToBigInt(b), XLEN))
<1> DEFINE x == bytesToBigInt(a)
           y == bytesToBigInt(b)
           sx == ToSigned(x, XLEN)
           sy == ToSigned(y, XLEN)
           p == Power[XLEN]
<1>1. x \in 0 .. p - 1 /\ y \in 0 .. p - 1 /\ p \in Nat
  BY ValueRange, PowerValues, Widths
<1>2. sx = IF Negative(a) THEN x - p ELSE x
  BY SignedValue DEF signedBytesToBigInt
<1>3. sy = IF Negative(b) THEN y - p ELSE y
  BY SignedValue DEF signedBytesToBigInt
<1>4. compareUnsignedBytes(a, b) = Order(x, y)
  BY CompareIsOrder
<1>5. (Negative(a) <=> sx < 0) /\ (Negative(b) <=> sy < 0)
  BY SignedValue
<1> HIDE DEF x, y, sx, sy, p
<1>6. compareSignedBytes(a, b) = IF Negative(a) # Negative(b) THEN IF Negative(a) THEN -1 ELSE 1
                                 ELSE Order(x, y)
  BY <1>4 DEF compareSignedBytes
<1>7. sx \in Int /\ sy \in Int
  BY <1>1, <1>2, <1>3
<1>8. CASE Negative(a) /\ Negative(b)
  <2>1. sx = x - p /\ sy = y - p
    BY <1>2, <1>3, <1>8
  <2>2. Order(x, y) = Order(sx, sy)
    BY <1>1, <2>1 DEF Order
  <2>3. QED
    BY <1>6, <1>8, <2>2 DEF x, y, sx, sy
<1>9. CASE ~Negative(a) /\ ~Negative(b)
  <2>1. sx = x /\ sy = y
    BY <1>2, <1>3, <1>9
  <2>2. Order(x, y) = Order(sx, sy)
    BY <2>1
  <2>3. Negative(a) = Negative(b)
    BY <1>9 DEF Negative
  <2>4. compareSignedBytes(a, b) = Order(sx, sy)
    BY <1>6, <2>2, <2>3
  <2>5. QED
    BY <2>4 DEF x, y, sx, sy
<1>10. CASE Negative(a) /\ ~Negative(b)
  <2>1. sx < sy
    BY <1>5, <1>7, <1>10
  <2>2. Order(sx, sy) = -1
    BY <1>7, <2>1 DEF Order
  <2>3. QED
    BY <1>6, <1>10, <2>2 DEF x, y, sx, sy
<1>11. CASE ~Negative(a) /\ Negative(b)
  <2>1. sy < sx
    BY <1>5, <1>7, <1>11
  <2>2. Order(sx, sy) = 1
    BY <1>7, <2>1 DEF Order
  <2>3. QED
    BY <1>6, <1>11, <2>2 DEF x, y, sx, sy
<1>12. QED
  BY <1>8, <1>9, <1>10, <1>11

-----------------------------------------------------------------------------
\* Shifts.

\* A shift by whole bytes and one within a byte.
LEMMA ShiftParts ==
  ASSUME NEW amount \in 0 .. XLEN - 1, NEW q, NEW s, q = amount \div ByteBits, s = amount % ByteBits
  PROVE  /\ q \in 0 .. Count - 1 /\ s \in 0 .. ByteBits - 1
         /\ Power[s] \in Nat \ {0} /\ Power[ByteBits - s] \in Nat \ {0}
         /\ Power[s] * Power[ByteBits - s] = Base
         /\ Power[amount] = Weight[q] * Power[s] /\ Power[amount] \in Nat \ {0}
         /\ Power[XLEN - amount] = Weight[Count - q - 1] * Power[ByteBits - s]
<1>1. ByteBits \in Nat \ {0} /\ Count \in Nat \ {0} /\ XLEN = ByteBits * Count /\ XLEN \in Nat
  BY Widths
<1>2. q \in Int /\ s \in 0 .. ByteBits - 1 /\ amount = ByteBits * q + s /\ amount \in 0 .. XLEN - 1
  BY <1>1, Euclid
<1>3. q \in 0 .. Count - 1
  <2>1. CASE q < 0
    <3> DEFINE z == -1
    <3>1. q <= z /\ z \in Int
      BY <1>2, <2>1
    <3> HIDE DEF z
    <3>2. ByteBits * q <= ByteBits * z
      BY <1>1, <1>2, <3>1, Monotone
    <3>3. ByteBits * z = 0 - ByteBits
      BY <1>1 DEF z
    <3>4. QED
      BY <1>1, <1>2, <3>2, <3>3
  <2>2. CASE q >= Count
    <3>1. ByteBits * Count <= ByteBits * q
      BY <1>1, <1>2, <2>2, Monotone
    <3>2. ByteBits * q \in Int
      BY <1>1, <1>2
    <3>3. QED
      BY <1>1, <1>2, <3>1, <3>2
  <2>3. QED
    BY <1>1, <1>2, <2>1, <2>2
<1>4. ByteBits <= XLEN /\ s \in 0 .. XLEN /\ ByteBits - s \in 0 .. XLEN /\ ByteBits - s \in Nat
  <2>1. ByteBits * 1 <= ByteBits * Count
    BY <1>1, Monotone
  <2>2. QED
    BY <1>1, <1>2, <2>1
<1>5. Power[s] \in Nat \ {0} /\ Power[ByteBits - s] \in Nat \ {0}
  BY <1>4, PowerValues
<1>6. Power[s] * Power[ByteBits - s] = Base
  <2>1. s \in Nat /\ s + (ByteBits - s) = ByteBits
    BY <1>1, <1>2
  <2>2. Power[s + (ByteBits - s)] = Power[s] * Power[ByteBits - s]
    BY <1>4, <2>1, PowerSum
  <2>3. QED
    BY <2>1, <2>2 DEF Base
<1>7. Power[amount] = Weight[q] * Power[s] /\ Power[amount] \in Nat \ {0}
  <2> DEFINE b == ByteBits * q
  <2>1. b \in Nat /\ s \in Nat /\ b + s = amount /\ amount \in 0 .. XLEN
    BY <1>1, <1>2, <1>3
  <2>2. Weight[q] = Power[b]
    BY <1>1, <1>3 DEF Weight
  <2> HIDE DEF b
  <2>3. Power[b + s] = Power[b] * Power[s]
    BY <1>1, <2>1, PowerSum
  <2>4. QED
    BY <2>1, <2>2, <2>3, PowerValues
<1>8. Power[XLEN - amount] = Weight[Count - q - 1] * Power[ByteBits - s]
  <2> DEFINE k == Count - q - 1
             b == ByteBits * k
             d == ByteBits - s
  <2>1. k \in 0 .. Count /\ b \in Nat
    BY <1>1, <1>3
  <2>2. b = ByteBits * Count - ByteBits * q - ByteBits
    BY <1>1, <1>3
  <2>3. b + d = XLEN - amount
    <3>1. ByteBits * q \in Int
      BY <1>1, <1>3
    <3> HIDE DEF b
    <3>2. QED
      BY <1>1, <1>2, <2>1, <2>2, <3>1
  <2>4. Weight[k] = Power[b]
    BY <2>1 DEF Weight
  <2> HIDE DEF b, k, d
  <2>5. d \in Nat /\ b + d <= XLEN
    BY <1>1, <1>2, <2>3 DEF d
  <2>6. Power[b + d] = Power[b] * Power[d]
    BY <2>1, <2>5, PowerSum
  <2>7. QED
    BY <2>3, <2>4, <2>6 DEF k, d
<1>9. QED
  BY <1>2, <1>3, <1>5, <1>6, <1>7, <1>8

\* The value of bytes that are u times those of y.
Scaled(x, y, u) == \A i \in Sizes : x[i] = u * y[i]

\* is u times theirs.
LEMMA ValueScaled ==
  ASSUME NEW x \in [Sizes -> Int], NEW y \in [Sizes -> Int], NEW u \in Nat, Scaled(x, y, u)
  PROVE  bytesToBigInt(x) = u * bytesToBigInt(y)
<1> DEFINE t == Tops(x)
           v == Tops(y)
           S == {k \in 0 .. Count : t[k] = u * v[k]}
<1>1. Count \in Nat /\ Base \in Nat \ {0}
  BY Widths, Weights
<1>2. /\ t[0] = 0 /\ bytesToBigInt(x) = t[Count] /\ \A k \in 0 .. Count : t[k] \in Int
      /\ \A k \in 1 .. Count : t[k] = t[k - 1] * Base + x[Count + 1 - k]
  BY TopValues
<1>3. /\ v[0] = 0 /\ bytesToBigInt(y) = v[Count] /\ \A k \in 0 .. Count : v[k] \in Int
      /\ \A k \in 1 .. Count : v[k] = v[k - 1] * Base + y[Count + 1 - k]
  BY TopValues
<1> HIDE DEF t, v
<1>4. 0 \in S
  <2>1. 0 = u * 0 /\ 0 \in 0 .. Count
    BY <1>1
  <2>2. QED
    BY <1>2, <1>3, <2>1
<1>5. \A k \in 0 .. Count - 1 : k \in S => k + 1 \in S
  <2> SUFFICES ASSUME NEW k \in 0 .. Count - 1, t[k] = u * v[k] PROVE t[k + 1] = u * v[k + 1]
    BY <1>1
  <2> DEFINE i == Count - k
             vk == v[k]
             yi == y[i]
  <2>1. k + 1 \in 1 .. Count /\ (k + 1) - 1 = k /\ i \in Sizes /\ k \in 0 .. Count
        /\ Count + 1 - (k + 1) = i
    BY <1>1 DEF Sizes
  <2> HIDE DEF i
  <2>2. t[k + 1] = t[k] * Base + x[i] /\ v[k + 1] = vk * Base + yi /\ x[i] = u * yi
    BY <1>2, <1>3, <2>1 DEF Scaled
  <2>3. vk \in Int /\ yi \in Int /\ t[k + 1] = (u * vk) * Base + u * yi
    BY <1>3, <2>1, <2>2
  <2> HIDE DEF vk, yi
  <2>4. (u * vk) * Base + u * yi = u * (vk * Base + yi)
    BY <1>1, <2>3
  <2>5. QED
    BY <2>2, <2>3, <2>4
<1> HIDE DEF S
<1>6. 0 .. Count \subseteq S
  BY <1>1, <1>4, <1>5, InductionTo
<1>7. QED
  BY <1>1, <1>2, <1>3, <1>6 DEF S

\* The value with its bytes moved up by q.
Up(a, q) == [i \in Sizes |-> IF i - q < 1 THEN 0 ELSE a[i - q]]

\* It is multiplied by their weight, without what moves out at the top.
LEMMA UpValue ==
  ASSUME NEW a \in Words, NEW q \in 0 .. Count - 1
  PROVE  /\ Up(a, q) \in Words
         /\ bytesToBigInt(Up(a, q)) = Weight[q] * (bytesToBigInt(a) % Weight[Count - q])
<1> DEFINE y == Up(a, q)
           N == Count - q
           z == zeroExtendBytes(a, N)
           t == Tops(y)
           u == Tops(z)
           S == {k \in 0 .. N : t[k] = u[q + k]}
<1>1. Count \in Nat /\ Base \in Nat \ {0} /\ q \in 0 .. Count /\ N \in 0 .. Count /\ Count - N = q
      /\ q + N = Count
  BY Widths, Weights
<1>2. y \in Words /\ \A i \in Sizes : y[i] = IF i - q < 1 THEN 0 ELSE a[i - q]
  <2>1. y = [i \in Sizes |-> IF i - q < 1 THEN 0 ELSE a[i - q]]
    BY DEF Up
  <2> HIDE DEF y
  <2>2. \A i \in Sizes : ~(i - q < 1) => i - q \in Sizes
    BY <1>1 DEF Sizes
  <2>3. \A i \in Sizes : a[i] \in 0 .. Base - 1
    BY DEF Words
  <2>4. \A i \in Sizes : y[i] \in 0 .. Base - 1
    BY <1>1, <2>1, <2>2, <2>3
  <2>5. QED
    BY <2>1, <2>4 DEF Words
<1> HIDE DEF y
<1>3. z \in Words /\ Filled(z, N, 0 * (Base - 1)) /\ \A i \in Sizes : i <= N => z[i] = a[i]
  <2>1. z = [i \in Sizes |-> IF i <= N THEN a[i] ELSE 0]
    BY DEF zeroExtendBytes
  <2>2. z \in Words
    BY <1>1, Split
  <2> HIDE DEF z
  <2>3. 0 * (Base - 1) = 0 /\ \A i \in Sizes : i \in Int
    BY <1>1 DEF Sizes
  <2>4. \A i \in Sizes : i > N => z[i] = 0
    BY <1>1, <2>1, <2>3
  <2>5. QED
    BY <2>1, <2>2, <2>3, <2>4 DEF Filled
<1>4. bytesToBigInt(z) = bytesToBigInt(a) % Weight[N]
  BY <1>1, Split
<1> HIDE DEF z
<1>5. /\ t[0] = 0 /\ \A k \in 0 .. Count : t[k] \in Int
      /\ \A k \in 1 .. Count : t[k] = t[k - 1] * Base + y[Count + 1 - k]
  BY <1>2, TopRange, TopValues
<1>6. /\ bytesToBigInt(z) = u[Count] /\ \A k \in 0 .. Count : u[k] \in Int
      /\ \A k \in 1 .. Count : u[k] = u[k - 1] * Base + z[Count + 1 - k]
  BY <1>3, TopRange, TopValues
<1>7. u[q] = 0
  <2>1. Tops(z)[q] = 0 * (Weight[q] - 1)
    <3>1. q \in 0 .. Count - N
      BY <1>1
    <3>2. QED
      BY <1>1, <1>3, <3>1, FilledTops
  <2>2. Weight[q] \in Int
    BY <1>1, Weights
  <2>3. QED
    BY <2>1, <2>2
<1>8. bytesToBigInt(y) = Weight[q] * t[N] + (bytesToBigInt(y) % Weight[q])
  BY <1>1, <1>2, Joined
<1> HIDE DEF t, u
<1>9. 0 \in S
  <2>1. q + 0 = q /\ 0 \in 0 .. N
    BY <1>1
  <2>2. QED
    BY <1>5, <1>7, <2>1
<1>10. \A k \in 0 .. N - 1 : k \in S => k + 1 \in S
  <2> SUFFICES ASSUME NEW k \in 0 .. N - 1, t[k] = u[q + k] PROVE t[k + 1] = u[q + (k + 1)]
    BY <1>1
  <2> DEFINE i == Count - k
             j == q + (k + 1)
  <2>1. k + 1 \in 1 .. Count /\ (k + 1) - 1 = k /\ i \in Sizes /\ Count + 1 - (k + 1) = i
        /\ j \in 1 .. Count /\ j - 1 = q + k /\ Count + 1 - j = i - q /\ i - q \in Sizes /\ i - q <= N
        /\ ~(i - q < 1)
    BY <1>1 DEF Sizes
  <2> HIDE DEF i, j
  <2>2. t[k + 1] = t[k] * Base + y[i] /\ u[j] = u[q + k] * Base + z[i - q]
    BY <1>5, <1>6, <2>1
  <2>3. y[i] = a[i - q] /\ z[i - q] = a[i - q]
    BY <1>2, <1>3, <2>1
  <2>4. QED
    BY <2>2, <2>3 DEF j
<1> HIDE DEF S
<1>11. 0 .. N \subseteq S
  BY <1>1, <1>9, <1>10, InductionTo
<1>12. t[N] = u[Count]
  <2>1. N \in 0 .. N
    BY <1>1
  <2>2. QED
    BY <1>1, <1>11, <2>1 DEF S
<1>13. bytesToBigInt(y) % Weight[q] = 0
  <2> DEFINE o == [i \in Sizes |-> 0]
  <2>1. o \in Words /\ bytesToBigInt(o) = 0
    BY ZeroValue
  <2>2. Agree(y, o, q)
    BY <1>1, <1>2 DEF Agree, Sizes
  <2> HIDE DEF o
  <2>3. bytesToBigInt(y) % Weight[q] = 0 % Weight[q]
    BY <1>1, <1>2, <2>1, <2>2, SameLow
  <2>4. Weight[q] \in Nat \ {0}
    BY <1>1, Weights
  <2>5. 0 % Weight[q] = 0
    BY <2>4, Small
  <2>6. QED
    BY <2>3, <2>5
<1>14. Weight[q] * t[N] \in Int
  <2>1. Weight[q] \in Int
    BY <1>1, Weights
  <2>2. t[N] \in Int
    BY <1>1, <1>5
  <2>3. QED
    BY <2>1, <2>2
<1>15. bytesToBigInt(y) = Weight[q] * t[N]
  BY <1>8, <1>13, <1>14
<1>16. QED
  BY <1>2, <1>4, <1>6, <1>12, <1>15 DEF y, N

\* The value with its bytes moved down by q.
Down(a, q) == [i \in Sizes |-> IF i + q > Count THEN 0 ELSE a[i + q]]

\* It is divided by their weight.
LEMMA DownValue ==
  ASSUME NEW a \in Words, NEW q \in 0 .. Count - 1
  PROVE  /\ Down(a, q) \in Words
         /\ bytesToBigInt(Down(a, q)) = bytesToBigInt(a) \div Weight[q]
<1> DEFINE y == Down(a, q)
           N == Count - q
           t == Tops(y)
           u == Tops(a)
           S == {k \in 0 .. N : t[q + k] = u[k]}
<1>1. Count \in Nat /\ Base \in Nat \ {0} /\ q \in 0 .. Count /\ N \in 0 .. Count /\ Count - N = q
      /\ q + N = Count
  BY Widths, Weights
<1>2. y \in Words /\ \A i \in Sizes : y[i] = IF i + q > Count THEN 0 ELSE a[i + q]
  <2>1. y = [i \in Sizes |-> IF i + q > Count THEN 0 ELSE a[i + q]]
    BY DEF Down
  <2> HIDE DEF y
  <2>2. \A i \in Sizes : ~(i + q > Count) => i + q \in Sizes
    BY <1>1 DEF Sizes
  <2>3. \A i \in Sizes : a[i] \in 0 .. Base - 1
    BY DEF Words
  <2>4. \A i \in Sizes : y[i] \in 0 .. Base - 1
    BY <1>1, <2>1, <2>2, <2>3
  <2>5. QED
    BY <2>1, <2>4 DEF Words
<1> HIDE DEF y
<1>3. /\ bytesToBigInt(y) = t[Count] /\ \A k \in 0 .. Count : t[k] \in Int
      /\ \A k \in 1 .. Count : t[k] = t[k - 1] * Base + y[Count + 1 - k]
  BY <1>2, TopRange, TopValues
<1>4. /\ u[0] = 0 /\ \A k \in 0 .. Count : u[k] \in Int
      /\ \A k \in 1 .. Count : u[k] = u[k - 1] * Base + a[Count + 1 - k]
  BY TopRange, TopValues
<1>5. t[q] = 0
  <2>1. 0 * (Base - 1) = 0 /\ q \in 0 .. Count - N
    BY <1>1
  <2>2. Filled(y, N, 0 * (Base - 1))
    BY <1>1, <1>2, <2>1 DEF Filled, Sizes
  <2>3. Tops(y)[q] = 0 * (Weight[q] - 1)
    BY <1>1, <1>2, <2>1, <2>2, FilledTops
  <2>4. Weight[q] \in Int
    BY <1>1, Weights
  <2>5. QED
    BY <2>3, <2>4
<1>6. u[N] = bytesToBigInt(a) \div Weight[q]
  BY <1>1, Split
<1> HIDE DEF t, u
<1>7. 0 \in S
  <2>1. q + 0 = q /\ 0 \in 0 .. N
    BY <1>1
  <2>2. QED
    BY <1>4, <1>5, <2>1
<1>8. \A k \in 0 .. N - 1 : k \in S => k + 1 \in S
  <2> SUFFICES ASSUME NEW k \in 0 .. N - 1, t[q + k] = u[k] PROVE t[q + (k + 1)] = u[k + 1]
    BY <1>1
  <2> DEFINE i == Count - k
             j == q + (k + 1)
  <2>1. k + 1 \in 1 .. Count /\ (k + 1) - 1 = k /\ i \in Sizes /\ Count + 1 - (k + 1) = i
        /\ j \in 1 .. Count /\ j - 1 = q + k /\ Count + 1 - j = i - q /\ i - q \in Sizes
        /\ ~((i - q) + q > Count) /\ (i - q) + q = i
    BY <1>1 DEF Sizes
  <2> HIDE DEF i, j
  <2>2. u[k + 1] = u[k] * Base + a[i] /\ t[j] = t[q + k] * Base + y[i - q]
    BY <1>3, <1>4, <2>1
  <2>3. y[i - q] = a[i]
    BY <1>2, <2>1
  <2>4. QED
    BY <2>2, <2>3 DEF j
<1> HIDE DEF S
<1>9. 0 .. N \subseteq S
  BY <1>1, <1>7, <1>8, InductionTo
<1>10. t[Count] = u[N]
  <2>1. N \in 0 .. N
    BY <1>1
  <2>2. QED
    BY <1>1, <1>9, <2>1 DEF S
<1>11. QED
  BY <1>2, <1>3, <1>6, <1>10 DEF y

\* Two factors of the base; a byte times u with c coming in; what is left of it with d going out.
Factors(u, t) == u * t = Base
ByteTimes(b, u, c) == (b * u + c) % Base
Leaves(o, d, b, u, c) == o + Base * d = u * b + c

\* A byte times u: what stays in it and what goes on to the next.
LEMMA ByteUp ==
  ASSUME NEW u \in Nat \ {0}, NEW t \in Nat \ {0}, Factors(u, t), NEW b \in 0 .. Base - 1,
         NEW c \in 0 .. u - 1
  PROVE  /\ b \div t \in 0 .. u - 1
         /\ ByteTimes(b, u, c) \in 0 .. Base - 1
         /\ Leaves(ByteTimes(b, u, c), b \div t, b, u, c)
<1> DEFINE d == b \div t
           m == b % t
           r == u * m + c
<1>1. d \in Int /\ m \in 0 .. t - 1 /\ b = t * d + m /\ Base \in Nat \ {0}
  <2>1. Base \in Nat \ {0}
    BY Weights
  <2>2. b \in Int
    BY <2>1
  <2>3. QED
    BY <2>1, <2>2, Euclid
<1> HIDE DEF d, m
<1>2. u * m + c \in 0 .. Base - 1
  <2>1. u * m <= u * (t - 1) /\ u * m \in Int /\ u * 0 <= u * m
    <3> DEFINE z == t - 1
    <3>1. m <= z /\ z \in Int /\ 0 <= m /\ m \in Int
      BY <1>1
    <3> HIDE DEF z
    <3>2. u * m <= u * z /\ u * m \in Int
      BY <3>1, Monotone
    <3>3. u * 0 <= u * m
      BY <3>1, Monotone
    <3>4. QED
      BY <3>2, <3>3 DEF z
  <2>2. u * (t - 1) = Base - u /\ u * 0 = 0
    BY DEF Factors
  <2>3. QED
    BY <1>1, <2>1, <2>2
<1>3. b * u + c = Base * d + r
  <2>1. b * u = (u * t) * d + u * m
    BY <1>1
  <2>2. b * u = Base * d + u * m
    BY <2>1 DEF Factors
  <2>3. Base * d \in Int /\ u * m \in Int /\ c \in Int
    BY <1>1
  <2> DEFINE x1 == b * u
             y1 == Base * d
             z1 == u * m
  <2>4. x1 = y1 + z1 /\ x1 \in Int /\ y1 \in Int /\ z1 \in Int /\ r = z1 + c
    BY <1>1, <2>2, <2>3
  <2> HIDE DEF x1, y1, z1, r
  <2>5. x1 + c = y1 + r
    BY <2>3, <2>4
  <2>6. QED
    BY <2>5 DEF x1, y1
<1> DEFINE x == b * u + c
<1>4. x \in Int /\ r \in 0 .. Base - 1 /\ x = Base * d + r
  BY <1>1, <1>2, <1>3
<1>5. x = u * b + c
  OBVIOUS
<1> HIDE DEF x, r
<1>6. x % Base = r
  BY <1>1, <1>4, EuclidIs
<1>7. d \in 0 .. u - 1
  <2>1. CASE d < 0
    <3> DEFINE z == -1
    <3>1. d <= z /\ z \in Int
      BY <1>1, <2>1
    <3> HIDE DEF z
    <3>2. t * d <= t * z /\ t * d \in Int
      BY <1>1, <3>1, Monotone
    <3>3. t * z = 0 - t
      BY DEF z
    <3>4. QED
      BY <1>1, <3>2, <3>3
  <2>2. CASE d >= u
    <3>1. t * u <= t * d /\ t * d \in Int
      BY <1>1, <2>2, Monotone
    <3>2. t * u = Base
      BY DEF Factors
    <3>3. QED
      BY <1>1, <3>1, <3>2
  <2>3. QED
    BY <1>1, <2>1, <2>2
<1>8. (x % Base) + Base * d = x
  <2>1. Base * d \in Int
    BY <1>1
  <2>2. QED
    BY <1>4, <1>6, <2>1
<1>9. ByteTimes(b, u, c) = x % Base
  BY DEF x, ByteTimes
<1>10. QED
  BY <1>4, <1>5, <1>6, <1>7, <1>8, <1>9 DEF d, Leaves

\* The left shift multiplies.
LEMMA ShiftLeft ==
  ASSUME NEW a \in Words, NEW amount \in 0 .. XLEN - 1
  PROVE  /\ shiftLeftBytes(a, amount) \in Words
         /\ bytesToBigInt(shiftLeftBytes(a, amount))
              = (bytesToBigInt(a) * Power[amount]) % Power[XLEN]
<1> DEFINE r == shiftLeftBytes(a, amount)
           q == amount \div ByteBits
           s == amount % ByteBits
           u == Power[s]
           t == Power[ByteBits - s]
           y == Up(a, q)
           x == [i \in Sizes |-> u * y[i]]
           c == [i \in 0 .. Count |-> IF i - q < 1 THEN 0 ELSE a[i - q] \div t]
<1>1. /\ q \in 0 .. Count - 1 /\ s \in 0 .. ByteBits - 1
      /\ u \in Nat \ {0} /\ t \in Nat \ {0} /\ Factors(u, t)
      /\ Power[amount] = Weight[q] * u /\ Power[amount] \in Nat \ {0}
  BY ShiftParts DEF Factors
<1>2. Count \in Nat /\ Base \in Nat \ {0} /\ Sizes = 1 .. Count /\ XLEN \in Nat \ {0}
  BY Widths, Weights DEF Sizes
<1>3. amount % XLEN = amount
  BY <1>2, Small
<1>4. r = [i \in Sizes |-> IF i - q < 1 THEN 0
              ELSE (a[i - q] * u
                    + (IF s # 0 /\ i - q > 1 THEN a[(i - q) - 1] \div t ELSE 0)) % Base]
  BY <1>3 DEF shiftLeftBytes
<1>5. s = 0 => t = Base
  <2>1. s = 0 => ByteBits - s = ByteBits
    BY Widths
  <2>2. QED
    BY <2>1 DEF Base
<1>6. y \in Words /\ \A i \in Sizes : y[i] = IF i - q < 1 THEN 0 ELSE a[i - q]
  BY <1>1, UpValue DEF Up
<1> HIDE DEF r, q, s, u, t, y
<1>7. \A i \in Sizes : a[i] \in 0 .. Base - 1 /\ a[i] \div t \in 0 .. u - 1
  <2> SUFFICES ASSUME NEW i \in Sizes PROVE a[i] \in 0 .. Base - 1 /\ a[i] \div t \in 0 .. u - 1
    OBVIOUS
  <2>1. a[i] \in 0 .. Base - 1
    BY DEF Words
  <2>2. 0 \in 0 .. u - 1
    BY <1>1
  <2>3. QED
    BY <1>1, <2>1, <2>2, ByteUp
<1>8. \A i \in 0 .. Count : c[i] \in 0 .. u - 1
  <2> SUFFICES ASSUME NEW i \in 0 .. Count PROVE c[i] \in 0 .. u - 1
    OBVIOUS
  <2>1. CASE i - q < 1
    BY <1>1, <2>1
  <2>2. CASE ~(i - q < 1)
    <3>1. i - q \in Sizes
      BY <1>1, <1>2, <2>2
    <3>2. QED
      BY <1>7, <2>2, <3>1
  <2>3. QED
    BY <2>1, <2>2
<1>9. \A i \in Sizes : ~(i - q < 1) =>
         (IF s # 0 /\ i - q > 1 THEN a[(i - q) - 1] \div t ELSE 0) = c[i - 1]
  <2> SUFFICES ASSUME NEW i \in Sizes, ~(i - q < 1)
               PROVE  (IF s # 0 /\ i - q > 1 THEN a[(i - q) - 1] \div t ELSE 0) = c[i - 1]
    OBVIOUS
  <2>1. i - 1 \in 0 .. Count /\ (i - 1) - q = (i - q) - 1
    BY <1>1, <1>2
  <2>2. c[i - 1] = IF (i - q) - 1 < 1 THEN 0 ELSE a[(i - q) - 1] \div t
    BY <2>1
  <2> HIDE DEF c
  <2>3. CASE i - q = 1
    <3>1. ~(i - q > 1) /\ (i - q) - 1 < 1
      BY <2>3
    <3>2. QED
      BY <2>2, <3>1
  <2>4. CASE i - q > 1 /\ s # 0
    <3>1. ~((i - q) - 1 < 1)
      BY <1>1, <1>2, <2>4
    <3>2. QED
      BY <2>2, <2>4, <3>1
  <2>5. CASE i - q > 1 /\ s = 0
    <3>1. ~((i - q) - 1 < 1) /\ (i - q) - 1 \in Sizes
      BY <1>1, <1>2, <2>5
    <3> DEFINE b == a[(i - q) - 1]
    <3>2. b \in 0 .. Base - 1
      BY <1>7, <3>1
    <3> HIDE DEF b
    <3>3. b \div Base = 0
      BY <1>2, <3>2, Small
    <3>4. c[i - 1] = 0
      BY <1>5, <2>2, <2>5, <3>1, <3>3 DEF b
    <3>5. QED
      BY <2>5, <3>4
  <2>6. i - q = 1 \/ i - q > 1
    BY <1>1, <1>2
  <2>7. QED
    BY <2>3, <2>4, <2>5, <2>6
<1>10. \A i \in Sizes : r[i] \in 0 .. Base - 1 /\ r[i] + Base * c[i] = x[i] + c[i - 1]
  <2> SUFFICES ASSUME NEW i \in Sizes
               PROVE  r[i] \in 0 .. Base - 1 /\ r[i] + Base * c[i] = x[i] + c[i - 1]
    OBVIOUS
  <2>1. i \in 0 .. Count /\ i - 1 \in 0 .. Count
    BY <1>2
  <2>2. CASE i - q < 1
    <3>1. r[i] = 0 /\ y[i] = 0
      BY <1>4, <1>6, <2>2
    <3>2. (i - 1) - q < 1
      BY <1>1, <1>2, <2>2
    <3>3. c[i] = 0 /\ c[i - 1] = 0
      BY <2>1, <2>2, <3>2
    <3>4. x[i] = u * 0
      BY <3>1
    <3> HIDE DEF x, c
    <3>5. u * 0 = 0 /\ Base * 0 = 0 /\ 0 \in 0 .. Base - 1
      BY <1>1, <1>2
    <3>6. QED
      BY <3>1, <3>3, <3>4, <3>5
  <2>3. CASE ~(i - q < 1)
    <3> DEFINE b == a[i - q]
               e == c[i - 1]
    <3>1. i - q \in Sizes
      BY <1>1, <1>2, <2>3
    <3>2. b \in 0 .. Base - 1 /\ e \in 0 .. u - 1
      BY <1>7, <1>8, <2>1, <3>1
    <3>3. r[i] = (b * u + e) % Base
      BY <1>4, <1>9, <2>3
    <3>4. c[i] = b \div t
      BY <2>1, <2>3
    <3>5. x[i] = u * b
      BY <1>6, <2>3
    <3> HIDE DEF b, e, x, c
    <3> DEFINE o == r[i]
    <3>6. o = ByteTimes(b, u, e)
      BY <3>3 DEF ByteTimes
    <3> HIDE DEF o
    <3>7. o \in 0 .. Base - 1 /\ Leaves(o, b \div t, b, u, e)
      BY <1>1, <3>2, <3>6, ByteUp
    <3>8. QED
      BY <3>4, <3>5, <3>7 DEF e, o, Leaves
  <2>4. QED
    BY <2>2, <2>3
<1>11. r \in Words /\ r \in [Sizes -> Int] /\ x \in [Sizes -> Int] /\ c \in [0 .. Count -> Int]
  <2>1. r \in Words
    BY <1>4, <1>10 DEF Words
  <2>2. r \in [Sizes -> Int]
    BY <2>1, TopRange
  <2>3. x \in [Sizes -> Int]
    <3>1. y \in [Sizes -> Int]
      BY <1>6, TopRange
    <3>2. QED
      BY <1>1, <3>1
  <2>4. c \in [0 .. Count -> Int]
    <3>1. c = [i \in 0 .. Count |-> c[i]] /\ \A i \in 0 .. Count : c[i] \in Int
      BY <1>1, <1>8
    <3> HIDE DEF c
    <3>2. QED
      BY <3>1
  <2>5. QED
    BY <2>1, <2>2, <2>3, <2>4
<1>12. bytesToBigInt(x) = u * bytesToBigInt(y)
  <2>1. Scaled(x, y, u) /\ y \in [Sizes -> Int]
    BY <1>6, TopRange DEF Scaled
  <2> HIDE DEF x
  <2>2. QED
    BY <1>1, <1>11, <2>1, ValueScaled
<1>13. c[0] = 0
  BY <1>1, <1>2
<1> HIDE DEF x, c
<1>14. Carried(r, x, c)
  BY <1>10 DEF Carried
<1> DEFINE p == Power[XLEN]
           k == c[Count]
           w == bytesToBigInt(r)
           v == bytesToBigInt(a)
           W == Weight[Count - q]
           h == v \div W
           l == v % W
           Q == Weight[q]
<1>15. w = u * bytesToBigInt(y) + c[0] - p * k
  BY ZenonT(40), <1>11, <1>12, <1>14, Chain
<1>16. bytesToBigInt(y) = Q * l
  <2>1. bytesToBigInt(Up(a, q)) = Weight[q] * (bytesToBigInt(a) % Weight[Count - q])
    BY <1>1, UpValue
  <2>2. QED
    BY <2>1 DEF y
<1>17. Q \in Nat \ {0} /\ W \in Nat \ {0} /\ Q * W = p
  <2>1. q \in 0 .. Count
    BY <1>1, <1>2
  <2>2. QED
    BY <2>1, Joined
<1>18. w \in 0 .. p - 1 /\ v \in Int /\ k \in Int /\ p \in Nat \ {0}
  <2>1. XLEN \in 0 .. XLEN /\ Count \in 0 .. Count
    BY <1>2
  <2>2. QED
    BY <1>11, <2>1, ValueRange, PowerValues
<1> HIDE DEF w, v, k, p, W, Q
<1>19. v = W * h + l /\ h \in Int /\ l \in Int
  BY <1>17, <1>18, Euclid
<1> HIDE DEF h, l
<1>20. v * (Q * u) = p * (u * h) + u * (Q * l)
  <2>1. v * (Q * u) = (Q * W) * (u * h) + u * (Q * l)
    BY <1>1, <1>17, <1>19
  <2>2. QED
    BY <1>17, <2>1
<1> DEFINE f == v * (Q * u)
           g == u * h
           j == u * (Q * l)
           o == g + k
<1>21. f = p * g + j /\ w = j - p * k
  <2>1. w = u * (Q * l) + 0 - p * k
    BY <1>13, <1>15, <1>16
  <2>2. u * (Q * l) \in Int
    BY <1>1, <1>17, <1>19
  <2>3. p * k \in Int
    BY <1>18
  <2>4. QED
    BY <1>20, <2>1, <2>2, <2>3
<1>22. f \in Int /\ g \in Int /\ j \in Int
  BY <1>1, <1>17, <1>18, <1>19
<1>23. f = v * Power[amount]
  BY <1>1 DEF Q
<1> HIDE DEF f, g, j
<1>24. f = p * o + w /\ o \in Int
  BY <1>18, <1>21, <1>22
<1> HIDE DEF o
<1>25. f % p = w
  BY <1>18, <1>22, <1>24, EuclidIs
<1>26. QED
  BY <1>11, <1>23, <1>25 DEF w, v, r, p

\* What is left of a byte b divided by u, with the low bits of the byte e above it.
ByteOver(b, u, e, t) == (b \div u + e * t) % Base
Enters(o, b, e, u) == u * o - Base * (e % u) = b - (b % u)

\* A byte divided by u.
LEMMA ByteDown ==
  ASSUME NEW u \in Nat \ {0}, NEW t \in Nat \ {0}, Factors(u, t), NEW b \in 0 .. Base - 1,
         NEW e \in Nat
  PROVE  /\ b \div u \in 0 .. t - 1
         /\ ByteOver(b, u, e, t) \in 0 .. Base - 1
         /\ Enters(ByteOver(b, u, e, t), b, e, u)
<1> DEFINE d == b \div u
           m == b % u
           g == e \div u
           f == e % u
           r == d + t * f
           x == b \div u + e * t
<1>1. Base \in Nat \ {0} /\ b \in Int
  BY Weights
<1>2. d \in Int /\ m \in 0 .. u - 1 /\ b = u * d + m
  BY <1>1, Euclid
<1>3. g \in Int /\ f \in 0 .. u - 1 /\ e = u * g + f
  <2>1. e \in Int
    OBVIOUS
  <2> HIDE DEF d, m, r, x
  <2>2. QED
    BY <2>1, Euclid
<1>4. x = d + e * t
  OBVIOUS
<1> HIDE DEF d, m, g, f, x
<1>5. u * t = Base
  BY DEF Factors
<1>6. d \in 0 .. t - 1
  <2>1. CASE d < 0
    <3> DEFINE z == -1
    <3>1. d <= z /\ z \in Int
      BY <1>2, <2>1
    <3> HIDE DEF z
    <3>2. u * d <= u * z /\ u * d \in Int
      BY <1>2, <3>1, Monotone
    <3>3. u * z = 0 - u
      BY DEF z
    <3>4. QED
      BY <1>1, <1>2, <3>2, <3>3
  <2>2. CASE d >= t
    <3>1. u * t <= u * d /\ u * d \in Int
      BY <1>2, <2>2, Monotone
    <3>2. QED
      BY <1>1, <1>2, <1>5, <3>1
  <2>3. QED
    BY <1>2, <2>1, <2>2
<1>7. r \in 0 .. Base - 1
  <2> DEFINE z == u - 1
  <2>1. f <= z /\ z \in Int /\ f \in Int /\ 0 <= f
    BY <1>3
  <2> HIDE DEF z
  <2>2. t * f <= t * z /\ t * f \in Int /\ t * 0 <= t * f
    BY <2>1, Monotone
  <2>3. t * z = Base - t /\ t * 0 = 0
    BY <1>5 DEF z
  <2>4. QED
    BY <1>1, <1>6, <2>2, <2>3
<1>8. x = Base * g + r
  <2>1. e * t = (u * t) * g + t * f
    BY <1>3
  <2>2. e * t = Base * g + t * f
    BY <1>5, <2>1
  <2> DEFINE x1 == e * t
             y1 == Base * g
             z1 == t * f
  <2>3. x1 = y1 + z1 /\ y1 \in Int /\ z1 \in Int /\ r = d + z1 /\ x = d + x1
    BY <1>1, <1>3, <1>4, <2>2
  <2> HIDE DEF x1, y1, z1, r
  <2>4. x = y1 + r
    BY <1>6, <2>3
  <2>5. QED
    BY <2>4 DEF y1
<1>9. u * r = b - m + Base * f
  <2>1. u * (t * f) = (u * t) * f
    BY <1>3
  <2>2. u * (t * f) = Base * f
    BY <1>5, <2>1
  <2>3. u * r = u * d + u * (t * f)
    BY <1>3, <1>6
  <2>4. Base * f \in Int /\ u * d \in Int
    BY <1>1, <1>3, <1>6
  <2>5. QED
    BY <1>2, <2>2, <2>3, <2>4
<1>10. r \in 0 .. Base - 1 /\ x \in Int
  <2>1. Base * g \in Int
    BY <1>1, <1>3
  <2>2. QED
    BY <1>1, <1>7, <1>8, <2>1
<1> HIDE DEF r
<1>11. x % Base = r
  BY <1>1, <1>3, <1>8, <1>10, EuclidIs
<1>12. ByteOver(b, u, e, t) = r
  BY <1>11 DEF ByteOver, x
<1>13. Enters(r, b, e, u)
  <2>1. Base * f \in Int /\ b \in Int /\ m \in Int
    BY <1>1, <1>2, <1>3
  <2>2. u * r - Base * f = b - m
    BY <1>9, <2>1
  <2>3. QED
    BY <2>2 DEF Enters, f, m
<1>14. QED
  BY <1>6, <1>10, <1>12, <1>13 DEF d

\* The logical right shift divides.
LEMMA ShiftRight ==
  ASSUME NEW a \in Words, NEW amount \in 0 .. XLEN - 1
  PROVE  /\ shiftRightLogicalBytes(a, amount) \in Words
         /\ bytesToBigInt(shiftRightLogicalBytes(a, amount)) = bytesToBigInt(a) \div Power[amount]
<1> DEFINE r == shiftRightLogicalBytes(a, amount)
           q == amount \div ByteBits
           s == amount % ByteBits
           u == Power[s]
           t == Power[ByteBits - s]
           y == Down(a, q)
           x == [i \in Sizes |-> u * r[i]]
           c == [i \in 0 .. Count |-> IF i + q >= Count THEN 0 ELSE 0 - (a[i + q + 1] % u)]
<1>1. /\ q \in 0 .. Count - 1 /\ s \in 0 .. ByteBits - 1
      /\ u \in Nat \ {0} /\ t \in Nat \ {0} /\ Factors(u, t)
      /\ Power[amount] = Weight[q] * u /\ Power[amount] \in Nat \ {0}
  BY ShiftParts DEF Factors
<1>2. Count \in Nat \ {0} /\ Base \in Nat \ {0} /\ Sizes = 1 .. Count /\ XLEN \in Nat \ {0}
  BY Widths, Weights DEF Sizes
<1>3. amount % XLEN = amount
  BY <1>2, Small
<1>4. r = [i \in Sizes |-> IF i + q > Count THEN 0
              ELSE (a[i + q] \div u
                    + (IF s # 0 /\ i + q < Count THEN a[(i + q) + 1] * t ELSE 0)) % Base]
  BY <1>3 DEF shiftRightLogicalBytes
<1>5. s = 0 => u = 1
  BY PowerValues
<1>6. y \in Words /\ \A i \in Sizes : y[i] = IF i + q > Count THEN 0 ELSE a[i + q]
  BY <1>1, DownValue DEF Down
<1> HIDE DEF r, q, s, u, t, y
<1>7. \A i \in Sizes : a[i] \in 0 .. Base - 1 /\ a[i] % u \in 0 .. u - 1
  <2> SUFFICES ASSUME NEW i \in Sizes PROVE a[i] \in 0 .. Base - 1 /\ a[i] % u \in 0 .. u - 1
    OBVIOUS
  <2>1. a[i] \in 0 .. Base - 1
    BY DEF Words
  <2>2. a[i] \in Int
    BY <1>2, <2>1
  <2>3. QED
    BY <1>1, <2>1, <2>2, Euclid
<1>8. \A i \in 0 .. Count : c[i] \in Int /\ 0 - c[i] \in 0 .. u - 1
  <2> SUFFICES ASSUME NEW i \in 0 .. Count PROVE c[i] \in Int /\ 0 - c[i] \in 0 .. u - 1
    OBVIOUS
  <2>1. CASE i + q >= Count
    BY <1>1, <2>1
  <2>2. CASE ~(i + q >= Count)
    <3>1. i + q + 1 \in Sizes
      BY <1>1, <1>2, <2>2
    <3> DEFINE f == a[i + q + 1] % u
    <3>2. f \in 0 .. u - 1
      BY <1>7, <3>1
    <3>3. c[i] = 0 - f
      BY <2>2
    <3> HIDE DEF f
    <3>4. QED
      BY <1>1, <3>2, <3>3
  <2>3. QED
    BY <2>1, <2>2
\* The byte above, of which the low bits come in.
<1> DEFINE above(i) == IF s # 0 /\ i + q < Count THEN a[(i + q) + 1] ELSE 0
<1>9. \A i \in Sizes : i + q <= Count =>
         /\ above(i) \in Nat /\ c[i] = 0 - (above(i) % u)
         /\ (IF s # 0 /\ i + q < Count THEN a[(i + q) + 1] * t ELSE 0) = above(i) * t
  <2> SUFFICES ASSUME NEW i \in Sizes, i + q <= Count
               PROVE  /\ above(i) \in Nat /\ c[i] = 0 - (above(i) % u)
                      /\ (IF s # 0 /\ i + q < Count THEN a[(i + q) + 1] * t ELSE 0) = above(i) * t
    OBVIOUS
  <2>1. i \in 0 .. Count /\ i + q + 1 = (i + q) + 1 /\ i + q \in Int
    BY <1>1, <1>2
  <2>2. c[i] = IF i + q >= Count THEN 0 ELSE 0 - (a[(i + q) + 1] % u)
    BY <2>1
  <2> HIDE DEF c
  <2>3. 0 * t = 0 /\ 0 % u = 0 /\ 0 - 0 = 0
    BY <1>1, Small
  <2>4. CASE i + q = Count
    <3>1. ~(i + q < Count) /\ i + q >= Count
      BY <1>2, <2>4
    <3>2. above(i) = 0 /\ c[i] = 0
      BY <2>2, <3>1
    <3> HIDE DEF above
    <3>3. (IF s # 0 /\ i + q < Count THEN a[(i + q) + 1] * t ELSE 0) = 0
      BY <3>1
    <3>4. QED
      BY <2>3, <3>2, <3>3
  <2>5. CASE i + q < Count
    <3>1. (i + q) + 1 \in Sizes /\ ~(i + q >= Count)
      BY <1>1, <1>2, <2>5
    <3> DEFINE b == a[(i + q) + 1]
    <3>2. b \in Nat /\ c[i] = 0 - (b % u)
      BY <1>2, <1>7, <2>2, <3>1
    <3>3. CASE s # 0
      <4>1. above(i) = b /\ (IF s # 0 /\ i + q < Count THEN a[(i + q) + 1] * t ELSE 0) = b * t
        BY <2>5, <3>3
      <4> HIDE DEF above, b
      <4>2. QED
        BY <3>2, <4>1
    <3>4. CASE s = 0
      <4>1. above(i) = 0 /\ (IF s # 0 /\ i + q < Count THEN a[(i + q) + 1] * t ELSE 0) = 0
        BY <3>4
      <4> HIDE DEF above, b
      <4>2. b % 1 = 0
        BY <3>2
      <4>3. c[i] = 0 - 0
        BY <1>5, <3>2, <3>4, <4>2
      <4>4. QED
        BY <2>3, <4>1, <4>3
    <3>5. QED
      BY <3>3, <3>4
  <2>6. QED
    BY <1>2, <2>1, <2>4, <2>5
<1>10. \A i \in Sizes : r[i] \in 0 .. Base - 1 /\ x[i] + Base * c[i] = y[i] + c[i - 1]
  <2> SUFFICES ASSUME NEW i \in Sizes
               PROVE  r[i] \in 0 .. Base - 1 /\ x[i] + Base * c[i] = y[i] + c[i - 1]
    OBVIOUS
  <2>1. i \in 0 .. Count /\ i - 1 \in 0 .. Count /\ (i - 1) + q + 1 = i + q
        /\ ((i - 1) + q >= Count <=> i + q > Count)
    BY <1>1, <1>2
  <2>2. x[i] = u * r[i]
    OBVIOUS
  <2>3. c[i - 1] = IF i + q > Count THEN 0 ELSE 0 - (a[i + q] % u)
    BY <2>1
  <2>4. CASE i + q > Count
    <3>1. r[i] = 0 /\ y[i] = 0 /\ c[i - 1] = 0
      BY <1>4, <1>6, <2>3, <2>4
    <3>2. i + q >= Count
      BY <1>1, <1>2, <2>4
    <3>3. c[i] = 0
      BY <2>1, <3>2
    <3> HIDE DEF x, c
    <3>4. u * 0 = 0 /\ Base * 0 = 0 /\ 0 \in 0 .. Base - 1 /\ 0 + 0 = 0
      BY <1>1, <1>2
    <3>5. QED
      BY <2>2, <3>1, <3>3, <3>4
  <2>5. CASE ~(i + q > Count)
    <3> DEFINE b == a[i + q]
               e == above(i)
               o == r[i]
               ci == c[i]
               cj == c[i - 1]
    <3>1. i + q \in Sizes /\ i + q <= Count
      BY <1>1, <1>2, <2>5
    <3>2. b \in 0 .. Base - 1 /\ e \in Nat /\ ci = 0 - (e % u) /\ cj = 0 - (b % u) /\ y[i] = b
      BY <1>6, <1>7, <1>9, <2>3, <2>5, <3>1
    <3>3. o = ByteOver(b, u, e, t)
      <4>1. (IF s # 0 /\ i + q < Count THEN a[(i + q) + 1] * t ELSE 0) = e * t
        BY <1>9, <3>1
      <4>2. o = (b \div u + (IF s # 0 /\ i + q < Count THEN a[(i + q) + 1] * t ELSE 0)) % Base
        BY <1>4, <2>5
      <4> HIDE DEF above, b, o
      <4>3. QED
        BY <4>1, <4>2 DEF ByteOver
    <3>4. x[i] = u * o
      OBVIOUS
    <3> HIDE DEF b, e, o, ci, cj, x
    <3>5. o \in 0 .. Base - 1 /\ Enters(o, b, e, u)
      BY <1>1, <3>2, <3>3, ByteDown
    <3> DEFINE f == e % u
               m == b % u
               uo == u * o
               bf == Base * f
               bc == Base * ci
    <3>6. f \in Int /\ m \in Int
      <4>1. b \in Int /\ e \in Int
        BY <1>2, <3>2
      <4>2. QED
        BY <1>1, <4>1, Euclid
    <3>7. uo - bf = b - m /\ ci = 0 - f /\ cj = 0 - m
      BY <3>2, <3>5 DEF Enters
    <3> HIDE DEF f, m
    <3>8. bc = 0 - bf /\ uo \in Int /\ bf \in Int /\ b \in Int /\ bc \in Int
      BY SMTT(30), <1>1, <1>2, <3>2, <3>5, <3>6, <3>7
    <3> HIDE DEF uo, bf, bc
    <3>9. uo + bc = b + cj
      BY <3>6, <3>7, <3>8
    <3>10. QED
      BY <3>2, <3>4, <3>5, <3>9 DEF uo, bc, o, ci, cj
  <2>6. QED
    BY <2>4, <2>5
<1>11. /\ r \in Words /\ r \in [Sizes -> Int] /\ x \in [Sizes -> Int]
       /\ y \in [Sizes -> Int] /\ c \in [0 .. Count -> Int]
  <2>1. r \in Words
    BY <1>4, <1>10 DEF Words
  <2>2. r \in [Sizes -> Int] /\ y \in [Sizes -> Int]
    BY <1>6, <2>1, TopRange
  <2>3. x \in [Sizes -> Int]
    BY <1>1, <2>2
  <2>4. c \in [0 .. Count -> Int]
    <3>1. c = [i \in 0 .. Count |-> c[i]] /\ \A i \in 0 .. Count : c[i] \in Int
      BY <1>8
    <3> HIDE DEF c
    <3>2. QED
      BY <3>1
  <2>5. QED
    BY <2>1, <2>2, <2>3, <2>4
<1>12. bytesToBigInt(x) = u * bytesToBigInt(r)
  <2>1. Scaled(x, r, u)
    BY DEF Scaled
  <2> HIDE DEF x
  <2>2. QED
    BY <1>1, <1>11, <2>1, ValueScaled
<1>13. c[Count] = 0
  BY <1>1, <1>2
<1> DEFINE k == 0 - c[0]
<1>14. k \in 0 .. u - 1 /\ c[0] \in Int
  BY <1>2, <1>8
<1> HIDE DEF x, c
<1>15. Carried(x, y, c)
  BY <1>10 DEF Carried
<1> DEFINE p == Power[XLEN]
           w == bytesToBigInt(r)
           v == bytesToBigInt(a)
           z == bytesToBigInt(y)
           Q == Weight[q]
<1>16. u * w = z + c[0] - p * 0
  BY <1>11, <1>12, <1>13, <1>15, Chain
<1>17. z = v \div Q
  BY <1>1, DownValue DEF y
<1>18. Q \in Nat \ {0} /\ p \in Nat
  <2>1. q \in 0 .. Count /\ XLEN \in 0 .. XLEN
    BY <1>1, <1>2
  <2>2. QED
    BY <2>1, Weights, PowerValues
<1>19. w \in Int /\ v \in Int /\ z \in Int
  BY <1>6, <1>11, ValueRange
<1> HIDE DEF w, v, p, z, Q
<1>20. z = u * w + k
  <2>1. p * 0 = 0 /\ u * w \in Int
    BY <1>1, <1>18, <1>19
  <2>2. u * w = z + c[0]
    BY <1>14, <1>16, <1>19, <2>1
  <2>3. c[0] = 0 - k
    BY <1>14
  <2> HIDE DEF k
  <2>4. QED
    BY <1>14, <1>19, <2>1, <2>2, <2>3
<1> HIDE DEF k
<1>21. z \div u = w
  BY <1>1, <1>14, <1>19, <1>20, EuclidIs
<1>22. v \div Power[amount] = (v \div Q) \div u
  <2> DEFINE d == Power[amount]
  <2>1. Product(d, Q, u)
    BY <1>1 DEF Q, Product
  <2> HIDE DEF d
  <2>3. u \in Nat \ {0} /\ Q \in Nat \ {0} /\ v \in Int
    BY <1>1, <1>18, <1>19
  <2>2. DividedBy(v, d, Q, u)
    BY <2>1, <2>3, ByProduct
  <2>4. QED
    BY <2>2 DEF d, DividedBy
<1>23. QED
  BY <1>1, <1>11, <1>17, <1>21, <1>22 DEF w, v, r, Q

\* The ones that an arithmetic shift puts in at the top.
Ones(top, t) == [i \in Sizes |-> IF i > top THEN Base - 1 ELSE IF i = top THEN Base - t ELSE 0]

\* They are what the shift by so many bits leaves free.
LEMMA OnesValue ==
  ASSUME NEW q \in 0 .. Count - 1, NEW t \in 1 .. Base
  PROVE  /\ Ones(Count - q, t) \in Words
         /\ bytesToBigInt(Ones(Count - q, t)) = Power[XLEN] - Weight[Count - q - 1] * t
<1> DEFINE top == Count - q
           f == Ones(top, t)
           j == Count - q - 1
           v == bytesToBigInt(f)
           p == Power[XLEN]
           o == [i \in Sizes |-> 0]
<1>1. Count \in Nat /\ Base \in Nat \ {0} /\ top \in Sizes /\ top \in 0 .. Count /\ Count - top = q
      /\ j \in 0 .. Count /\ Count - j = q + 1 /\ q + 1 \in 1 .. Count /\ (q + 1) - 1 = q
      /\ Count + 1 - (q + 1) = top /\ q \in 0 .. Count /\ j = top - 1
  BY Widths, Weights DEF Sizes
<1>2. /\ f \in Words /\ f[top] = Base - t
      /\ \A i \in Sizes : (i > top => f[i] = Base - 1) /\ (i <= j => f[i] = 0)
  <2>1. f = [i \in Sizes |-> IF i > top THEN Base - 1 ELSE IF i = top THEN Base - t ELSE 0]
    BY DEF Ones
  <2> HIDE DEF f
  <2>2. Base - 1 \in 0 .. Base - 1 /\ Base - t \in 0 .. Base - 1 /\ 0 \in 0 .. Base - 1
    BY <1>1
  <2>3. \A i \in Sizes : f[i] \in 0 .. Base - 1
    BY <2>1, <2>2
  <2>4. f \in Words
    BY <2>1, <2>3 DEF Words
  <2>5. \A i \in Sizes : i <= j => ~(i > top) /\ i # top
    BY <1>1 DEF Sizes
  <2>6. ~(top > top)
    BY <1>1
  <2>7. QED
    BY <1>1, <2>1, <2>4, <2>5, <2>6
<1> HIDE DEF f, top, j
<1>3. Tops(f)[q] = Weight[q] - 1
  <2>1. 1 * (Base - 1) = Base - 1 /\ q \in 0 .. Count - top
    BY <1>1
  <2>2. Filled(f, top, 1 * (Base - 1))
    BY <1>2, <2>1 DEF Filled
  <2>3. Tops(f)[q] = 1 * (Weight[q] - 1)
    BY <1>1, <1>2, <2>1, <2>2, FilledTops
  <2>4. Weight[q] \in Int
    BY <1>1, Weights
  <2>5. QED
    BY <2>3, <2>4
<1>4. Tops(f)[q + 1] = Weight[q + 1] - t
  <2>1. Tops(f)[q + 1] = Tops(f)[q] * Base + f[top]
    BY <1>1, <1>2, TopRange, TopValues
  <2>2. Weight[q + 1] = Weight[q] * Base /\ Weight[q] \in Int
    BY <1>1, Weights
  <2> DEFINE w == Weight[q]
  <2>3. Tops(f)[q + 1] = (w - 1) * Base + (Base - t) /\ Weight[q + 1] = w * Base /\ w \in Int
    BY <1>2, <1>3, <2>1, <2>2
  <2> HIDE DEF w
  <2>4. (w - 1) * Base + (Base - t) = w * Base - t
    BY <1>1, <2>3
  <2>5. QED
    BY <2>3, <2>4
<1>5. v % Weight[j] = 0
  <2>1. o \in Words /\ bytesToBigInt(o) = 0
    BY ZeroValue
  <2>2. Agree(f, o, j)
    BY <1>2 DEF Agree
  <2> HIDE DEF o
  <2>3. v % Weight[j] = 0 % Weight[j]
    BY <1>1, <1>2, <2>1, <2>2, SameLow
  <2>4. Weight[j] \in Nat \ {0}
    BY <1>1, Weights
  <2>5. 0 % Weight[j] = 0
    BY <2>4, Small
  <2>6. QED
    BY <2>3, <2>5
<1>6. /\ v = Weight[j] * Tops(f)[Count - j] + (v % Weight[j])
      /\ Weight[j] * Weight[Count - j] = p /\ Weight[j] \in Nat \ {0} /\ Weight[Count - j] \in Nat \ {0}
  BY <1>1, <1>2, Joined
<1> DEFINE w == Weight[j]
           u == Weight[q + 1]
<1>7. v = w * (u - t) + 0 /\ w * u = p /\ w \in Nat /\ u \in Nat
  BY <1>1, <1>4, <1>5, <1>6
<1> HIDE DEF w, u, v, p
<1>8. w * (u - t) = w * u - w * t /\ w * u \in Int /\ w * t \in Int
  BY <1>1, <1>7
<1>9. v = p - w * t
  BY <1>7, <1>8
<1>10. QED
  BY <1>2, <1>9 DEF v, w, f, p, top, j

\* The arithmetic right shift divides the signed value.
LEMMA ShiftArithmetic ==
  ASSUME NEW a \in Words, NEW amount \in 0 .. XLEN - 1
  PROVE  /\ shiftRightArithmeticBytes(a, amount) \in Words
         /\ bytesToBigInt(shiftRightArithmeticBytes(a, amount))
              = (ToSigned(bytesToBigInt(a), XLEN) \div Power[amount]) % Power[XLEN]
<1> DEFINE r == shiftRightArithmeticBytes(a, amount)
           l == shiftRightLogicalBytes(a, amount)
           q == amount \div ByteBits
           s == amount % ByteBits
           u == Power[s]
           t == Power[ByteBits - s]
           top == Count - q
           f == Ones(top, t)
           v == bytesToBigInt(a)
           x == ToSigned(v, XLEN)
           p == Power[XLEN]
           A == Power[amount]
           B == Weight[Count - q - 1] * t
<1>1. /\ q \in 0 .. Count - 1 /\ s \in 0 .. ByteBits - 1
      /\ u \in Nat \ {0} /\ t \in Nat \ {0} /\ Factors(u, t) /\ A \in Nat \ {0}
      /\ Power[XLEN - amount] = B
  BY ShiftParts DEF Factors
<1>2. Count \in Nat \ {0} /\ Base \in Nat \ {0} /\ Sizes = 1 .. Count /\ XLEN \in Nat \ {0}
      /\ top \in Sizes /\ top + q = Count
  <2>1. Count \in Nat \ {0} /\ Base \in Nat \ {0} /\ Sizes = 1 .. Count /\ XLEN \in Nat \ {0}
    BY Widths, Weights DEF Sizes
  <2> HIDE DEF q
  <2>2. top \in 1 .. Count /\ top + q = Count
    BY <1>1, <2>1
  <2>3. QED
    BY <2>1, <2>2
<1>3. amount % XLEN = amount
  BY <1>2, Small
<1>4. l \in Words /\ bytesToBigInt(l) = v \div A
  BY ShiftRight
<1>5. x = IF Negative(a) THEN v - p ELSE v
  BY SignedValue DEF signedBytesToBigInt
<1>6. v \in 0 .. p - 1 /\ p \in Nat \ {0} /\ v \in Int
  <2>1. XLEN \in 0 .. XLEN
    BY <1>2
  <2>2. p \in Nat \ {0}
    BY <2>1, PowerValues
  <2>3. v \in 0 .. p - 1
    BY ValueRange
  <2>4. QED
    BY <2>2, <2>3
<1>7. CASE ~Negative(a)
  <2>1. r = l
    BY <1>3, <1>7 DEF shiftRightArithmeticBytes
  <2> DEFINE w == bytesToBigInt(l)
  <2>2. w \in 0 .. p - 1
    BY <1>4, ValueRange
  <2>3. w = x \div A
    BY <1>4, <1>5, <1>7
  <2> HIDE DEF w, x, A, p
  <2>4. w % p = w
    BY <1>6, <2>2, Small
  <2>5. QED
    BY <1>4, <2>1, <2>3, <2>4 DEF w, x, A, p
<1>8. CASE Negative(a)
  <2>1. r = [i \in Sizes |-> IF i > top THEN Base - 1 ELSE IF i = top THEN l[i] + (Base - t) ELSE l[i]]
    <3> DEFINE m == amount % XLEN
               lm == shiftRightLogicalBytes(a, m)
               Filling(n, top2, l2) ==
                 [i \in Sizes |-> IF i > top2 THEN Base - 1
                                  ELSE IF i = top2 THEN l2[i] + (Base - Power[ByteBits - (n % ByteBits)])
                                  ELSE l2[i]]
    <3>1. r = Filling(m, Count - (m \div ByteBits), lm)
      BY <1>8 DEF shiftRightArithmeticBytes
    <3>2. m = amount
      BY <1>3
    <3>3. Filling(m, Count - (m \div ByteBits), lm) = Filling(amount, top, l)
      BY <3>2
    <3>4. QED
      BY <3>1, <3>3
  <2>2. \A i \in Sizes : i > top => l[i] = 0
    <3> SUFFICES ASSUME NEW i \in Sizes, i > top PROVE l[i] = 0
      OBVIOUS
    <3>1. i + q > Count
      BY <1>1, <1>2
    <3>2. QED
      BY <1>3, <3>1 DEF shiftRightLogicalBytes
  <2>3. l[top] \in 0 .. t - 1
    <3> DEFINE b == a[Count]
    <3>1. b \in 0 .. Base - 1 /\ Count \in Sizes
      BY <1>2 DEF Words
    <3>2. l[top] = (b \div u + 0) % Base
      <4>1. ~(top + q > Count) /\ ~(top + q < Count)
        BY <1>2
      <4>2. QED
        BY <1>2, <1>3, <4>1 DEF shiftRightLogicalBytes
    <3> HIDE DEF b, l, u, t
    <3>3. b \div u \in 0 .. t - 1 /\ ByteOver(b, u, 0, t) \in 0 .. Base - 1
      BY <1>1, <3>1, ByteDown
    <3> DEFINE d == b \div u
    <3>4. d \in 0 .. Base - 1
      <4>1. t <= Base
        <5>1. t * 1 <= t * u
          BY <1>1, Monotone
        <5>2. t * u = Base
          BY <1>1 DEF Factors
        <5>3. t \in Nat /\ Base \in Nat /\ t * 1 = t
          BY <1>1, <1>2
        <5> DEFINE t1 == t * 1
                   tu == t * u
        <5>4. t1 <= tu /\ tu = Base /\ t1 = t
          BY <5>1, <5>2, <5>3
        <5> HIDE DEF t1, tu
        <5>5. QED
          BY <5>3, <5>4
      <4> HIDE DEF d
      <4>2. d \in 0 .. t - 1
        BY <3>3 DEF d
      <4>3. QED
        BY <1>1, <1>2, <4>1, <4>2
    <3>5. d \in 0 .. t - 1 /\ l[top] = (d + 0) % Base
      BY <3>2, <3>3
    <3> HIDE DEF d
    <3>6. d + 0 = d /\ d % Base = d
      BY <1>2, <3>4, Small
    <3>7. QED
      BY <3>5, <3>6
  <2>4. t \in 1 .. Base
    <3> HIDE DEF u, t
    <3>1. t * 1 <= t * u
      BY <1>1, Monotone
    <3>2. t * u = Base
      BY <1>1 DEF Factors
    <3>3. QED
      BY <1>1, <1>2, <3>1, <3>2
  <2>5. f \in Words /\ bytesToBigInt(f) = p - B
    BY <1>1, <2>4, OnesValue
  <2>6. f = [i \in Sizes |-> IF i > top THEN Base - 1 ELSE IF i = top THEN Base - t ELSE 0]
    BY DEF Ones
  <2>7. \A i \in Sizes : l[i] \in 0 .. Base - 1
    BY <1>4 DEF Words
  <2> HIDE DEF l, r, f, u, t
  <2>8. \A i \in Sizes : r[i] = l[i] + 1 * f[i] /\ r[i] \in 0 .. Base - 1
    <3> SUFFICES ASSUME NEW i \in Sizes PROVE r[i] = l[i] + 1 * f[i] /\ r[i] \in 0 .. Base - 1
      OBVIOUS
    <3> HIDE DEF top
    <3>1. CASE i > top
      <4>1. i \in Int /\ i # top /\ ~(i < top)
        BY <1>2, <3>1
      <4>2. r[i] = Base - 1 /\ f[i] = Base - 1 /\ l[i] = 0
        BY <2>1, <2>2, <2>6, <3>1, <4>1
      <4>3. QED
        BY <1>2, <4>2
    <3>2. CASE i = top
      <4>1. i \in Int /\ ~(i > top) /\ ~(i < top)
        BY <1>2, <3>2
      <4>2. r[i] = l[i] + (Base - t) /\ f[i] = Base - t
        BY <2>1, <2>6, <3>2, <4>1
      <4>3. l[i] \in 0 .. t - 1
        BY <2>3, <3>2
      <4> DEFINE li == l[i]
                 g == Base - t
      <4>4. r[i] = li + g /\ f[i] = g /\ g \in 0 .. Base - 1 /\ li \in 0 .. t - 1 /\ g = Base - t
            /\ t \in Nat
        BY <1>1, <1>2, <2>4, <4>2, <4>3
      <4> HIDE DEF li, g
      <4>5. li + g = li + 1 * g /\ li + g \in 0 .. Base - 1
        BY <1>2, <4>4
      <4>6. QED
        BY <4>4, <4>5 DEF li
    <3>3. CASE i < top
      <4>1. i \in Int /\ ~(i > top) /\ i # top
        BY <1>2, <3>3
      <4>2. r[i] = l[i] /\ f[i] = 0
        BY <2>1, <2>6, <3>3, <4>1
      <4>3. QED
        BY <1>2, <2>7, <4>2
    <3>4. i \in Int /\ top \in Int
      BY <1>2
    <3>5. QED
      BY <3>1, <3>2, <3>3, <3>4
  <2>9. r \in Words
    BY <2>1, <2>8 DEF Words
  <2>10. bytesToBigInt(r) = bytesToBigInt(l) + 1 * bytesToBigInt(f)
    <3>1. l \in [Sizes -> Int] /\ f \in [Sizes -> Int] /\ r \in [Sizes -> Int]
      BY <1>4, <2>5, <2>9, TopRange DEF l
    <3>2. Linear(r, l, f, 1)
      BY <2>8 DEF Linear
    <3>3. QED
      BY <3>1, <3>2, ValueLinear
  <2> DEFINE w == bytesToBigInt(r)
             d == v \div A
             k == 0 - B
  <2>11. w = d + 1 * (p - B)
    BY <1>4, <2>5, <2>10 DEF l
  <2>12. w \in 0 .. p - 1
    BY <2>9, ValueRange
  <2>13. B \in Int /\ A * B = p
    <3>1. amount \in 0 .. XLEN /\ XLEN - amount \in 0 .. XLEN /\ amount + (XLEN - amount) = XLEN
          /\ amount \in Nat /\ XLEN - amount \in Nat
      BY <1>2
    <3>2. Power[amount + (XLEN - amount)] = Power[amount] * Power[XLEN - amount]
      BY <3>1, PowerSum
    <3>3. Power[XLEN - amount] \in Int
      BY <3>1, PowerValues
    <3>4. QED
      BY <1>1, <3>1, <3>2, <3>3
  <2>14. x = v - p
    BY <1>5, <1>8
  <2> HIDE DEF w, x, v, p, A, B
  <2>15. d \in Int
    BY <1>1, <1>6, Euclid
  <2>16. x = v + A * k /\ k \in Int
    <3>1. A * k = 0 - A * B /\ A * B \in Int
      BY <1>1, <2>13
    <3>2. A * k = 0 - p
      BY <2>13, <3>1
    <3> HIDE DEF k
    <3>3. x = v + A * k
      BY <1>6, <2>14, <3>2
    <3>4. QED
      BY <2>13, <3>3 DEF k
  <2> HIDE DEF k
  <2>17. (v + A * k) \div A = d + k
    BY <1>1, <1>6, <2>16, AddMultiple
  <2> DEFINE y == x \div A
             z == -1
  <2>18. y = d + k /\ k = 0 - B
    BY <2>16, <2>17 DEF k
  <2> HIDE DEF d, y
  <2>19. y = p * z + w /\ y \in Int /\ z \in Int
    BY <1>6, <2>11, <2>13, <2>15, <2>18
  <2> HIDE DEF z
  <2>20. y % p = w
    BY <1>6, <2>12, <2>19, EuclidIs
  <2>21. QED
    BY <2>9, <2>20 DEF y, w, x, v, p, A, r
<1>9. QED
  BY <1>7, <1>8

-----------------------------------------------------------------------------
\* Bitwise operators.

\* A truth table of two bits.
Tables == [{0, 1} -> [{0, 1} -> {0, 1}]]

\* The bit above the low k is the next digit.
LEMMA BitSplit ==
  ASSUME NEW x \in Nat, NEW k \in 0 .. XLEN - 1
  PROVE  /\ Bit(x, k) \in {0, 1} /\ Power[k] \in Nat \ {0}
         /\ x % Power[k] \in 0 .. Power[k] - 1
         /\ x % Power[k + 1] = (x % Power[k]) + Bit(x, k) * Power[k]
<1> DEFINE p == Power[k]
           d == Power[k + 1]
<1>1. k \in 0 .. XLEN /\ k + 1 \in 1 .. XLEN /\ (k + 1) - 1 = k
  BY Widths
<1>2. p \in Nat \ {0} /\ d = 2 * p
  BY <1>1, PowerValues
<1> HIDE DEF p, d
<1>3. Product(d, p, 2)
  BY <1>2 DEF Product
<1>4. DividedBy(x, d, p, 2)
  BY <1>2, <1>3, ByProduct
<1>5. x \div p \in Int /\ x % p \in 0 .. p - 1
  BY <1>2, Euclid
<1> DEFINE y == x \div p
<1>6. y % 2 \in 0 .. 1
  BY <1>5, Euclid
<1> DEFINE b == y % 2
<1>7. x % d = p * b + (x % p)
  BY <1>4 DEF DividedBy
<1>8. Bit(x, k) = b
  BY DEF Bit, p
<1> DEFINE r == x % p
<1>9. b \in {0, 1} /\ r \in Int
  BY <1>5, <1>6
<1>10. x % d = p * b + r
  BY <1>7
<1> HIDE DEF b, r
<1>11. p * b + r = r + b * p
  BY <1>2, <1>9
<1>12. QED
  BY <1>2, <1>5, <1>8, <1>9, <1>10, <1>11 DEF p, d, r

\* The low bits that Bitwise goes through.
Lows(table, x, y, n) ==
    LET low[k \in 0 .. n] ==
            IF k = 0 THEN 0
            ELSE low[k - 1] + table[Bit(x, k - 1)][Bit(y, k - 1)] * Power[k - 1]
    IN low

\* The bit that the table has for bit k of x and y.
TableEntry(table, x, y, k) == table[Bit(x, k)][Bit(y, k)]

\* The recursion is what it says.
LEMMA LowValues ==
  ASSUME NEW table \in Tables, NEW x \in Nat, NEW y \in Nat, NEW n \in 0 .. XLEN
  PROVE  /\ Lows(table, x, y, n)[0] = 0 /\ Bitwise(table, x, y, n) = Lows(table, x, y, n)[n]
         /\ \A k \in 0 .. n - 1 :
              /\ Lows(table, x, y, n)[k + 1]
                   = Lows(table, x, y, n)[k] + TableEntry(table, x, y, k) * Power[k]
              /\ TableEntry(table, x, y, k) \in {0, 1}
         /\ \A k \in 0 .. n : Lows(table, x, y, n)[k] \in Int
<1> DEFINE E(k) == TableEntry(table, x, y, k)
           F(k) == E(k) * Power[k]
           step == [k \in 1 .. n |-> [v \in Int |-> v + F(k - 1)]]
<1>1. \A k \in 1 .. n : k - 1 \in 0 .. XLEN - 1
  BY Widths
<1>2. \A k \in 0 .. XLEN - 1 : E(k) \in {0, 1} /\ Power[k] \in Nat
  BY BitSplit DEF Tables, TableEntry
<1> HIDE DEF E
<1>3. \A k \in 0 .. XLEN - 1 : F(k) \in Int
  BY <1>2
<1> HIDE DEF F
<1>4. \A k \in 1 .. n, v \in Int : step[k][v] = v + F(k - 1) /\ step[k][v] \in Int
  BY <1>1, <1>3
<1> HIDE DEF step
<1>5. PICK f : Solves(f, n, Int, 0, step)
  <2>1. 0 \in Int /\ n \in Nat /\ \A k \in 1 .. n : \A v \in Int : step[k][v] \in Int
    BY <1>4
  <2>2. QED
    BY <2>1, Recursion, Zenon
<1>6. f \in [0 .. n -> Int] /\ f[0] = 0 /\ \A k \in 1 .. n : f[k] = step[k][f[k - 1]]
  BY <1>5 DEF Solves
<1>7. \A k \in 0 .. n : f[k] = IF k = 0 THEN 0 ELSE f[k - 1] + F(k - 1)
  <2>1. \A k \in 1 .. n : f[k - 1] \in Int /\ k # 0
    BY <1>6
  <2>2. \A k \in 1 .. n : f[k] = f[k - 1] + F(k - 1)
    BY <1>4, <1>6, <2>1
  <2>3. \A k \in 0 .. n : k = 0 \/ k \in 1 .. n
    OBVIOUS
  <2>4. QED
    BY <1>6, <2>1, <2>2, <2>3
<1>8. f = [k \in 0 .. n |-> IF k = 0 THEN 0 ELSE f[k - 1] + F(k - 1)]
  BY <1>6, <1>7
<1> DEFINE t == Lows(table, x, y, n)
<1>9. t = [k \in 0 .. n |-> IF k = 0 THEN 0 ELSE t[k - 1] + F(k - 1)]
  BY <1>8 DEF Lows, F, E, TableEntry
<1>10. Bitwise(table, x, y, n) = t[n]
  BY DEF Bitwise, Lows
<1> HIDE DEF t
<1>11. t[0] = 0 /\ \A k \in 0 .. n - 1 : t[k + 1] = t[k] + F(k)
  <2>1. \A k \in 1 .. n : t[k] = t[k - 1] + F(k - 1)
    BY <1>9
  <2>2. \A k \in 0 .. n - 1 : k + 1 \in 1 .. n /\ (k + 1) - 1 = k
    OBVIOUS
  <2>3. t[0] = 0
    BY <1>9
  <2>4. QED
    BY <2>1, <2>2, <2>3
<1> DEFINE S == {k \in 0 .. n : t[k] \in Int}
<1>12. \A k \in 0 .. n - 1 : k \in 0 .. XLEN - 1
  BY Widths
<1>17. 0 \in S /\ \A k \in 0 .. n - 1 : k \in S => k + 1 \in S
  BY <1>3, <1>11, <1>12
<1> HIDE DEF S
<1>13. 0 .. n \subseteq S
  BY <1>17, InductionTo
<1>14. \A k \in 0 .. n - 1 : E(k) \in {0, 1}
  BY <1>2, <1>12
<1>15. \A k \in 0 .. n : t[k] \in Int
  BY <1>13 DEF S
<1>16. QED
  BY <1>10, <1>11, <1>14, <1>15 DEF t, F, E

\* A number with the bits of the table has those bits as its low bits.
LEMMA BitwiseIs ==
  ASSUME NEW table \in Tables, NEW x \in Nat, NEW y \in Nat, NEW n \in 0 .. XLEN, NEW z \in Nat,
         \A k \in 0 .. n - 1 : Bit(z, k) = TableEntry(table, x, y, k)
  PROVE  Bitwise(table, x, y, n) = z % Power[n]
<1> DEFINE t == Lows(table, x, y, n)
           S == {k \in 0 .. n : t[k] = z % Power[k]}
<1>1. /\ t[0] = 0 /\ Bitwise(table, x, y, n) = t[n]
      /\ \A k \in 0 .. n - 1 : t[k + 1] = t[k] + TableEntry(table, x, y, k) * Power[k]
  BY LowValues
<1> HIDE DEF t
<1>2. 0 \in S
  <2>1. z % 1 = 0
    OBVIOUS
  <2>2. QED
    BY <1>1, <2>1, PowerValues
<1>3. \A k \in 0 .. n - 1 : k \in S => k + 1 \in S
  <2> SUFFICES ASSUME NEW k \in 0 .. n - 1, t[k] = z % Power[k]
               PROVE  t[k + 1] = z % Power[k + 1]
    OBVIOUS
  <2>1. k \in 0 .. XLEN - 1
    BY Widths
  <2>2. z % Power[k + 1] = (z % Power[k]) + Bit(z, k) * Power[k]
    BY <2>1, BitSplit
  <2>3. QED
    BY <1>1, <2>2
<1> HIDE DEF S
<1>4. n \in Nat /\ 0 .. n \subseteq S
  BY <1>2, <1>3, InductionTo
<1>5. QED
  BY <1>1, <1>4 DEF S

\* The bits of the result are those of the table.
LEMMA BitwiseBits ==
  ASSUME NEW table \in Tables, NEW x \in Nat, NEW y \in Nat, NEW n \in 0 .. XLEN
  PROVE  /\ Bitwise(table, x, y, n) \in 0 .. Power[n] - 1
         /\ \A k \in 0 .. n - 1 : Bit(Bitwise(table, x, y, n), k) = TableEntry(table, x, y, k)
<1> DEFINE t == Lows(table, x, y, n)
           Right(k) == t[k] \in 0 .. Power[k] - 1 /\ \A j \in 0 .. k - 1 : Bit(t[k], j) = TableEntry(table, x, y, j)
           S == {k \in 0 .. n : Right(k)}
<1>1. /\ t[0] = 0 /\ Bitwise(table, x, y, n) = t[n]
      /\ \A k \in 0 .. n - 1 : t[k + 1] = t[k] + TableEntry(table, x, y, k) * Power[k] /\ TableEntry(table, x, y, k) \in {0, 1}
  BY LowValues
<1> HIDE DEF t
<1>2. 0 \in S
  BY <1>1, PowerValues
<1>3. \A k \in 0 .. n - 1 : k \in S => k + 1 \in S
  <2> SUFFICES ASSUME NEW k \in 0 .. n - 1, Right(k) PROVE Right(k + 1)
    OBVIOUS
  <2> DEFINE e == TableEntry(table, x, y, k)
             p == Power[k]
             v == t[k]
             w == t[k + 1]
  <2>1. k \in 0 .. XLEN - 1 /\ k \in 0 .. XLEN /\ k + 1 \in 1 .. XLEN /\ (k + 1) - 1 = k
    BY Widths
  <2>2. w = v + e * p /\ e \in {0, 1} /\ v \in 0 .. p - 1 /\ p \in Nat \ {0} /\ Power[k + 1] = 2 * p
    BY <1>1, <2>1, PowerValues
  <2>3. \A j \in 0 .. k - 1 : Bit(v, j) = TableEntry(table, x, y, j)
    OBVIOUS
  <2> HIDE DEF e, p, v, w
  <2>4. w \in 0 .. (2 * p) - 1
    BY <2>2
  <2>5. ASSUME NEW j \in 0 .. k - 1 PROVE Bit(w, j) = Bit(v, j)
    <3> DEFINE i == (k - j) - 1
               o == Power[j]
               m == Power[i]
               h == v \div o
    <3>1. j \in Nat /\ i \in Nat /\ j + (i + 1) = k /\ k <= XLEN /\ j \in 0 .. XLEN /\ i \in 0 .. XLEN
          /\ i + 1 \in 1 .. XLEN /\ i + 1 \in Nat /\ (i + 1) - 1 = i
      BY <2>1, Widths
    <3>2. Power[j + (i + 1)] = Power[j] * Power[i + 1]
      <4> HIDE DEF i
      <4>1. j + (i + 1) <= XLEN
        BY <2>1, <3>1
      <4>2. QED
        BY <3>1, <4>1, PowerSum
    <3>3. p = o * (2 * m) /\ o \in Nat \ {0} /\ m \in Nat \ {0}
      <4> HIDE DEF i
      <4>1. Power[i + 1] = 2 * m /\ o \in Nat \ {0} /\ m \in Nat \ {0}
        BY <3>1, PowerValues
      <4>2. QED
        BY <3>1, <3>2, <4>1 DEF p
    <3> HIDE DEF o, m
    <3> DEFINE g == e * m
    <3>4. g \in Int /\ e * p = o * (2 * g)
      BY <2>2, <3>3
    <3> HIDE DEF g
    <3> DEFINE g2 == 2 * g
    <3>5. w = v + o * g2 /\ g2 \in Int /\ v \in Int
      BY <2>2, <3>4
    <3>6. (v + o * g2) \div o = h + g2 /\ h \in Int
      <4> HIDE DEF g2
      <4>1. QED
        BY ZenonT(40), <3>3, <3>5, AddMultiple, Euclid
    <3> HIDE DEF h
    <3>7. (h + 2 * g) % 2 = h % 2
      BY <3>4, <3>6
    <3>8. w \div o = h + 2 * g
      BY <3>5, <3>6
    <3>9. QED
      BY <3>7, <3>8 DEF Bit, o, h
  <2>6. Bit(w, k) = e
    <3>7. v \div p = 0
      BY <2>2, Small
    <3>1. v \div p = 0 /\ v \in Int /\ e \in Int
      BY <2>2, <3>7
    <3>6. (v + p * e) \div p = (v \div p) + e
      BY ZenonT(40), <2>2, <3>1, AddMultiple
    <3>2. w = v + p * e
      BY <2>2
    <3>3. w \div p = e
      BY <2>2, <3>1, <3>2, <3>6
    <3>4. e % 2 = e
      BY <2>2
    <3>5. QED
      BY <3>3, <3>4 DEF Bit, p
  <2>7. w \in 0 .. Power[k + 1] - 1
    BY <2>2, <2>4
  <2>8. \A j \in 0 .. (k + 1) - 1 : Bit(w, j) = TableEntry(table, x, y, j)
    <3>1. \A j \in 0 .. (k + 1) - 1 : j = k \/ j \in 0 .. k - 1
      BY <2>1
    <3>2. QED
      BY <2>3, <2>5, <2>6, <3>1 DEF e
  <2>9. QED
    BY <2>7, <2>8 DEF w
<1> HIDE DEF S
<1>4. n \in Nat /\ 0 .. n \subseteq S
  BY <1>2, <1>3, InductionTo
<1>5. Right(n)
  BY <1>4 DEF S
<1>6. QED
  BY <1>1, <1>5

\* The three tables.
LEMMA TablesAre ==
  /\ And \in Tables /\ Or \in Tables /\ Xor \in Tables
  /\ \A x, y \in Nat, k \in 0 .. XLEN - 1 :
        /\ TableEntry(Or, x, y, k) = Bit(x, k) + Bit(y, k) - TableEntry(And, x, y, k)
        /\ TableEntry(Xor, x, y, k) = Bit(x, k) + Bit(y, k) - 2 * TableEntry(And, x, y, k)
        /\ TableEntry(And, x, y, k) \in {0, 1}
<1>1. \A p, q \in {0, 1} : And[p][q] \in {0, 1} /\ Or[p][q] \in {0, 1} /\ Xor[p][q] \in {0, 1}
      /\ Or[p][q] = p + q - And[p][q] /\ Xor[p][q] = p + q - 2 * And[p][q]
  BY DEF And, Or, Xor
<1>2. And \in Tables /\ Or \in Tables /\ Xor \in Tables
  BY DEF And, Or, Xor, Tables
<1>3. \A x \in Nat, k \in 0 .. XLEN - 1 : Bit(x, k) \in {0, 1}
  BY BitSplit
<1>4. QED
  BY <1>1, <1>2, <1>3 DEF TableEntry

\* Or and exclusive or take the bits of the sum that both have once, or not at all.
LEMMA OrIsSum ==
  ASSUME NEW x \in Nat, NEW y \in Nat, NEW n \in 0 .. XLEN
  PROVE  /\ Bitwise(And, x, y, n) \in Int
         /\ Bitwise(Or, x, y, n) = (x % Power[n]) + (y % Power[n]) - Bitwise(And, x, y, n)
         /\ Bitwise(Xor, x, y, n) = (x % Power[n]) + (y % Power[n]) - 2 * Bitwise(And, x, y, n)
<1> DEFINE a == Lows(And, x, y, n)
           o == Lows(Or, x, y, n)
           d == Lows(Xor, x, y, n)
           X(k) == x % Power[k]
           Y(k) == y % Power[k]
           Right(k) == o[k] = X(k) + Y(k) - a[k] /\ d[k] = X(k) + Y(k) - 2 * a[k]
           S == {k \in 0 .. n : Right(k)}
<1>1. /\ a[0] = 0 /\ Bitwise(And, x, y, n) = a[n] /\ \A k \in 0 .. n : a[k] \in Int
      /\ \A k \in 0 .. n - 1 : a[k + 1] = a[k] + TableEntry(And, x, y, k) * Power[k]
  BY TablesAre, LowValues
<1>2. /\ o[0] = 0 /\ Bitwise(Or, x, y, n) = o[n]
      /\ \A k \in 0 .. n - 1 : o[k + 1] = o[k] + TableEntry(Or, x, y, k) * Power[k]
  BY TablesAre, LowValues
<1>3. /\ d[0] = 0 /\ Bitwise(Xor, x, y, n) = d[n]
      /\ \A k \in 0 .. n - 1 : d[k + 1] = d[k] + TableEntry(Xor, x, y, k) * Power[k]
  BY TablesAre, LowValues
<1> HIDE DEF a, o, d
<1>4. 0 \in S
  <2>1. x % 1 = 0 /\ y % 1 = 0
    OBVIOUS
  <2>2. X(0) = 0 /\ Y(0) = 0
    BY <2>1, PowerValues
  <2> HIDE DEF X, Y
  <2>3. o[0] = X(0) + Y(0) - a[0]
    BY <1>1, <1>2, <2>2
  <2>4. d[0] = X(0) + Y(0) - 2 * a[0]
    BY <1>1, <1>3, <2>2
  <2>5. 0 \in 0 .. n
    OBVIOUS
  <2>6. QED
    BY <2>3, <2>4, <2>5
<1>5. \A k \in 0 .. n - 1 : k \in S => k + 1 \in S
  <2> SUFFICES ASSUME NEW k \in 0 .. n - 1, Right(k) PROVE Right(k + 1)
    OBVIOUS
  <2> DEFINE p == Power[k]
             b == Bit(x, k)
             c == Bit(y, k)
             e == TableEntry(And, x, y, k)
             f == TableEntry(Or, x, y, k)
             g == TableEntry(Xor, x, y, k)
             xk == X(k)
             yk == Y(k)
             ak == a[k]
  <2>1. k \in 0 .. XLEN - 1
    BY Widths
  <2>2. X(k + 1) = xk + b * p /\ b \in {0, 1} /\ p \in Nat /\ xk \in Int
    BY <2>1, BitSplit
  <2>3. Y(k + 1) = yk + c * p /\ c \in {0, 1} /\ yk \in Int
    BY <2>1, BitSplit
  <2>4. f = b + c - e /\ g = b + c - 2 * e /\ e \in {0, 1}
    BY <2>1, TablesAre
  <2>5. a[k + 1] = ak + e * p /\ o[k + 1] = o[k] + f * p /\ d[k + 1] = d[k] + g * p /\ ak \in Int
    BY <1>1, <1>2, <1>3
  <2>6. o[k] = xk + yk - ak /\ d[k] = xk + yk - 2 * ak
    OBVIOUS
  <2> HIDE DEF X, Y, p, b, c, e, f, g, xk, yk, ak
  <2>7. o[k + 1] = (xk + yk - ak) + (b + c - e) * p /\ d[k + 1] = (xk + yk - 2 * ak) + (b + c - 2 * e) * p
    BY <2>4, <2>5, <2>6
  <2> DEFINE bp == b * p
             cp == c * p
             ep == e * p
  <2>8. bp \in Int /\ cp \in Int /\ ep \in Int /\ (b + c - e) * p = bp + cp - ep
        /\ (b + c - 2 * e) * p = bp + cp - 2 * ep
    BY <2>2, <2>3, <2>4
  <2>9. X(k + 1) = xk + bp /\ Y(k + 1) = yk + cp /\ a[k + 1] = ak + ep
    BY <2>2, <2>3, <2>5
  <2> DEFINE u == (b + c - e) * p
             v == (b + c - 2 * e) * p
  <2>10. u = bp + cp - ep /\ v = bp + cp - 2 * ep /\ o[k + 1] = (xk + yk - ak) + u /\ d[k + 1] = (xk + yk - 2 * ak) + v
    BY <2>7, <2>8
  <2> HIDE DEF bp, cp, ep, u, v
  <2>11. QED
    BY <2>2, <2>3, <2>5, <2>8, <2>9, <2>10
<1> HIDE DEF S
<1>6. n \in Nat /\ 0 .. n \subseteq S
  BY <1>4, <1>5, InductionTo
<1>7. Right(n)
  BY <1>6 DEF S
<1>8. QED
  BY <1>1, <1>2, <1>3, <1>7

\* Bit j of byte i + 1 is bit ByteBits * i + j of the value.
LEMMA ByteBit ==
  ASSUME NEW a \in Words, NEW i \in 0 .. Count - 1, NEW j \in 0 .. ByteBits - 1, NEW k,
         k = ByteBits * i + j
  PROVE  k \in 0 .. XLEN - 1 /\ Bit(bytesToBigInt(a), k) = Bit(a[i + 1], j)
<1> DEFINE b == a[i + 1]
           w == Weight[i]
           o == Power[j]
           v == bytesToBigInt(a)
           l == (ByteBits - j) - 1
           m == Power[l]
           N == (Count - i) - 1
           t == Tops(a)[N]
           T == Tops(a)[Count - i]
<1>1. /\ Count \in Nat \ {0} /\ ByteBits \in Nat \ {0} /\ XLEN \in Nat /\ Base \in Nat \ {0}
      /\ i \in 0 .. Count /\ Sizes = 1 .. Count /\ XLEN = ByteBits * Count /\ ByteBits <= HalfBits
      /\ XLEN = 2 * HalfBits /\ HalfBits \in Nat
  BY Widths, Weights DEF Sizes
<1>2. ByteBits * i \in Nat /\ ByteBits * i + ByteBits <= XLEN /\ ByteBits <= XLEN
  <2>1. ByteBits * (i + 1) <= ByteBits * Count
    <3> DEFINE i1 == i + 1
    <3>1. i1 \in Int /\ i1 <= Count
      BY <1>1
    <3> HIDE DEF i1
    <3>2. ByteBits * i1 <= ByteBits * Count
      BY <1>1, <3>1, Monotone
    <3>3. QED
      BY <3>2 DEF i1
  <2>2. ByteBits * (i + 1) = ByteBits * i + ByteBits /\ ByteBits * i \in Nat
    BY <1>1
  <2>3. QED
    BY <1>1, <2>1, <2>2
<1>3. k \in 0 .. XLEN - 1
  <2> DEFINE z == ByteBits * i
  <2>1. z \in Nat /\ z + ByteBits <= XLEN /\ k = z + j
    BY <1>2
  <2> HIDE DEF z
  <2>2. QED
    BY <1>1, <2>1
<1>4. Power[k] = w * o /\ w = Power[ByteBits * i] /\ w \in Nat \ {0} /\ o \in Nat \ {0} /\ v \in Nat
  <2>1. w = Power[ByteBits * i] /\ w \in Nat \ {0}
    BY <1>1, Weights DEF Weight
  <2> DEFINE z == ByteBits * i
  <2>2. z \in Nat /\ z + j <= XLEN /\ j \in Nat /\ k = z + j /\ j \in 0 .. XLEN
    BY <1>1, <1>2, <1>3
  <2> HIDE DEF z
  <2>3. Power[z + j] = Power[z] * Power[j] /\ o \in Nat \ {0}
    BY <2>2, PowerSum, PowerValues
  <2>4. v \in Nat
    BY ValueRange
  <2>5. QED
    BY <2>1, <2>2, <2>3, <2>4 DEF z
<1>5. T = t * Base + b /\ b \in 0 .. Base - 1 /\ t \in Int
  <2>1. N + 1 = Count - i /\ N + 1 \in 1 .. Count /\ (N + 1) - 1 = N /\ Count + 1 - (N + 1) = i + 1 /\ N \in 0 .. Count
        /\ i + 1 \in Sizes
    BY <1>1
  <2> HIDE DEF N
  <2>2. Tops(a)[N + 1] = Tops(a)[N] * Base + a[i + 1]
    BY <2>1, TopRange, TopValues
  <2>3. t \in Int
    BY <2>1, TopRange
  <2>4. b \in 0 .. Base - 1
    BY <2>1 DEF Words
  <2>5. QED
    BY <2>1, <2>2, <2>3, <2>4
<1>6. v \div w = T
  BY <1>1, Split
<1>7. Base = o * (2 * m) /\ m \in Nat \ {0}
  <2>1. l \in Nat /\ l + 1 \in Nat /\ j + (l + 1) = ByteBits /\ j \in Nat /\ l \in 0 .. XLEN /\ l + 1 \in 1 .. XLEN
        /\ (l + 1) - 1 = l /\ j + (l + 1) <= XLEN
    BY <1>1, <1>2
  <2> HIDE DEF l
  <2>2. Power[j + (l + 1)] = Power[j] * Power[l + 1]
    BY <2>1, PowerSum
  <2>3. Power[l + 1] = 2 * Power[l] /\ Power[l] \in Nat \ {0}
    BY <2>1, PowerValues
  <2>4. QED
    BY <2>1, <2>2, <2>3 DEF Base
<1> DEFINE P == Power[k]
           D == v \div P
<1> HIDE DEF w, o, v, m, t, T, b, P
<1>8. D = T \div o
  <2>1. Product(P, w, o) /\ v \in Int
    BY <1>4 DEF Product, P
  <2>2. DividedBy(v, P, w, o)
    BY <1>4, <2>1, ByProduct
  <2>3. QED
    BY <1>6, <2>2 DEF DividedBy
<1> DEFINE g == m * t
           h == b \div o
           g2 == 2 * g
<1>9. g \in Int /\ h \in Int /\ b \in Int
  BY <1>4, <1>5, <1>7, Euclid
<1>10. T = b + o * g2
  BY <1>4, <1>5, <1>7
<1>11. (b + o * g2) \div o = h + g2
  <2>1. g2 \in Int
    BY <1>9
  <2> HIDE DEF g2
  <2>2. QED
    BY <1>4, <1>9, <2>1, AddMultiple
<1>12. D = h + 2 * g
  BY <1>8, <1>10, <1>11
<1> HIDE DEF g, h, D
<1>13. (h + 2 * g) % 2 = h % 2
  BY <1>9
<1>14. Bit(v, k) = D % 2 /\ Bit(b, j) = h % 2
  BY DEF Bit, D, h, o, P
<1>15. QED
  BY <1>3, <1>12, <1>13, <1>14 DEF v, b

\* An operator on every pair of bytes.
BytesBitwise(table, a, b) == [i \in Sizes |-> Bitwise(table, a[i], b[i], ByteBits)]

\* It is the operator on the values.
LEMMA BytesBitwiseIs ==
  ASSUME NEW table \in Tables, NEW a \in Words, NEW b \in Words
  PROVE  /\ BytesBitwise(table, a, b) \in Words
         /\ bytesToBigInt(BytesBitwise(table, a, b))
              = Bitwise(table, bytesToBigInt(a), bytesToBigInt(b), XLEN)
<1> DEFINE r == BytesBitwise(table, a, b)
           x == bytesToBigInt(a)
           y == bytesToBigInt(b)
           z == bytesToBigInt(r)
<1>1. /\ Count \in Nat \ {0} /\ ByteBits \in Nat \ {0} /\ XLEN \in Nat \ {0} /\ Sizes = 1 .. Count
      /\ ByteBits \in 0 .. XLEN /\ XLEN = ByteBits * Count
  BY Widths DEF Sizes
<1>2. \A i \in Sizes : a[i] \in Nat /\ b[i] \in Nat
  BY Weights DEF Words
<1>3. \A i \in Sizes : r[i] = Bitwise(table, a[i], b[i], ByteBits)
  BY DEF BytesBitwise
<1>4. \A i \in Sizes : /\ r[i] \in 0 .. Base - 1
                       /\ \A j \in 0 .. ByteBits - 1 : Bit(r[i], j) = TableEntry(table, a[i], b[i], j)
  <2> SUFFICES ASSUME NEW i \in Sizes
               PROVE  /\ r[i] \in 0 .. Base - 1
                      /\ \A j \in 0 .. ByteBits - 1 : Bit(r[i], j) = TableEntry(table, a[i], b[i], j)
    OBVIOUS
  <2> DEFINE ai == a[i]
             bi == b[i]
  <2>1. ai \in Nat /\ bi \in Nat /\ r[i] = Bitwise(table, ai, bi, ByteBits)
    BY <1>2, <1>3
  <2> HIDE DEF ai, bi, r
  <2>2. /\ Bitwise(table, ai, bi, ByteBits) \in 0 .. Base - 1
        /\ \A j \in 0 .. ByteBits - 1 : Bit(Bitwise(table, ai, bi, ByteBits), j) = TableEntry(table, ai, bi, j)
    <3>1. Bitwise(table, ai, bi, ByteBits) \in 0 .. Power[ByteBits] - 1
      BY <1>1, <2>1, BitwiseBits
    <3>2. \A j \in 0 .. ByteBits - 1 : Bit(Bitwise(table, ai, bi, ByteBits), j) = TableEntry(table, ai, bi, j)
      BY <1>1, <2>1, BitwiseBits
    <3>3. QED
      BY <3>1, <3>2 DEF Base
  <2>3. QED
    BY <2>1, <2>2 DEF ai, bi
<1>5. r \in Words
  <2>1. r = [i \in Sizes |-> r[i]]
    BY DEF BytesBitwise
  <2> HIDE DEF r
  <2>2. QED
    BY <1>4, <2>1 DEF Words
<1> HIDE DEF r
<1>6. z \in 0 .. Power[XLEN] - 1 /\ x \in Nat /\ y \in Nat /\ z \in Nat
  BY <1>5, ValueRange
<1>7. ASSUME NEW k \in 0 .. XLEN - 1 PROVE Bit(z, k) = TableEntry(table, x, y, k)
  <2> DEFINE i == k \div ByteBits
             j == k % ByteBits
             e == i + 1
  <2>1. k = ByteBits * i + j /\ i \in Int /\ j \in 0 .. ByteBits - 1
    <3>1. k \in Int
      OBVIOUS
    <3>2. QED
      BY <1>1, <3>1, Euclid
  <2> HIDE DEF i, j
  <2>2. i \in 0 .. Count - 1
    <3>1. i >= 0
      <4>1. CASE i <= -1
        <5>1. ByteBits * i <= ByteBits * (-1)
          BY <1>1, <2>1, <4>1, Monotone
        <5>2. QED
          BY <1>1, <2>1, <5>1
      <4>2. QED
        BY <2>1, <4>1
    <3>2. i < Count
      <4>1. CASE Count <= i
        <5>1. ByteBits * Count <= ByteBits * i
          BY <1>1, <2>1, <4>1, Monotone
        <5>2. QED
          BY <1>1, <2>1, <5>1
      <4>2. QED
        BY <1>1, <2>1, <4>1
    <3>3. QED
      BY <1>1, <2>1, <3>1, <3>2
  <2>3. Bit(x, k) = Bit(a[i + 1], j)
    BY <2>1, <2>2, ByteBit
  <2>4. Bit(y, k) = Bit(b[i + 1], j)
    BY <2>1, <2>2, ByteBit
  <2>5. Bit(z, k) = Bit(r[i + 1], j)
    BY <1>5, <2>1, <2>2, ByteBit
  <2>6. e \in Sizes
    BY <1>1, <2>2
  <2>7. Bit(r[e], j) = TableEntry(table, a[e], b[e], j)
    BY <1>4, <2>1, <2>6
  <2>8. QED
    BY <2>3, <2>4, <2>5, <2>7 DEF TableEntry
<1> HIDE DEF x, y, z
<1>8. XLEN \in 0 .. XLEN /\ Power[XLEN] \in Nat \ {0}
  BY <1>1, PowerValues
<1>9. Bitwise(table, x, y, XLEN) = z % Power[XLEN]
  BY <1>6, <1>7, <1>8, BitwiseIs
<1>10. z % Power[XLEN] = z
  <2> DEFINE p == Power[XLEN]
  <2>1. p \in Nat \ {0} /\ z \in 0 .. p - 1
    BY <1>6, <1>8
  <2> HIDE DEF p
  <2>2. z % p = z
    BY <2>1, Small
  <2>3. QED
    BY <2>2 DEF p
<1>11. QED
  BY <1>5, <1>9, <1>10 DEF r, x, y, z

\* The byte-wise operators are the operators on the values.
LEMMA BitwiseIsManual ==
  ASSUME NEW a \in Words, NEW b \in Words
  PROVE  /\ BitsBoth(bytesToBigInt(a), bytesToBigInt(b)) \in Int
         /\ andBytes(a, b) \in Words /\ orBytes(a, b) \in Words /\ xorBytes(a, b) \in Words
         /\ bytesToBigInt(andBytes(a, b)) = BitsBoth(bytesToBigInt(a), bytesToBigInt(b))
         /\ bytesToBigInt(orBytes(a, b))
              = bytesToBigInt(a) + bytesToBigInt(b) - BitsBoth(bytesToBigInt(a), bytesToBigInt(b))
         /\ bytesToBigInt(xorBytes(a, b))
              = bytesToBigInt(a) + bytesToBigInt(b) - 2 * BitsBoth(bytesToBigInt(a), bytesToBigInt(b))
<1> DEFINE x == bytesToBigInt(a)
           y == bytesToBigInt(b)
           p == Power[XLEN]
<1>1. x \in 0 .. p - 1 /\ y \in 0 .. p - 1
  BY ValueRange
<1>2. XLEN \in 0 .. XLEN /\ p \in Nat \ {0}
  BY Widths, PowerValues
<1>3. andBytes(a, b) = BytesBitwise(And, a, b) /\ orBytes(a, b) = BytesBitwise(Or, a, b)
      /\ xorBytes(a, b) = BytesBitwise(Xor, a, b)
  BY DEF andBytes, orBytes, xorBytes, BytesBitwise
<1>4. andBytes(a, b) \in Words /\ bytesToBigInt(andBytes(a, b)) = Bitwise(And, x, y, XLEN)
  BY <1>3, TablesAre, BytesBitwiseIs
<1>5. orBytes(a, b) \in Words /\ bytesToBigInt(orBytes(a, b)) = Bitwise(Or, x, y, XLEN)
  BY <1>3, TablesAre, BytesBitwiseIs
<1>6. xorBytes(a, b) \in Words /\ bytesToBigInt(xorBytes(a, b)) = Bitwise(Xor, x, y, XLEN)
  BY <1>3, TablesAre, BytesBitwiseIs
<1> DEFINE both == Bitwise(And, x, y, XLEN)
<1>7. both \in Int /\ Bitwise(Or, x, y, XLEN) = (x % p) + (y % p) - both
      /\ Bitwise(Xor, x, y, XLEN) = (x % p) + (y % p) - 2 * both
  <2>1. x \in Nat /\ y \in Nat
    BY <1>1
  <2> HIDE DEF x, y
  <2>2. QED
    BY <1>2, <2>1, OrIsSum
<1>8. x % p = x /\ y % p = y
  <2> HIDE DEF x, y, p
  <2>1. x % p = x
    BY <1>1, <1>2, Small
  <2>2. y % p = y
    BY <1>1, <1>2, Small
  <2>3. QED
    BY <2>1, <2>2
<1>9. BitsBoth(x, y) = both
  BY DEF BitsBoth
<1>10. QED
  BY <1>4, <1>5, <1>6, <1>7, <1>8, <1>9

-----------------------------------------------------------------------------
\* What the manual says, by instruction.

\* Two numbers with the same low bits.
Same(r, v, bits) == r % Power[bits] = v % Power[bits]

\* The widths at which the instructions compute.
LEMMA BitsAre ==
  ASSUME NEW bits \in {HalfBits, XLEN}
  PROVE  \E n \in {Half, Count} :
           /\ n \in 1 .. Count /\ bits = ByteBits * n /\ Weight[n] = Power[bits] /\ bits \in 1 .. XLEN
           /\ Power[bits] \in Nat \ {0} /\ Power[bits - 1] \in Nat \ {0} /\ Power[bits] = 2 * Power[bits - 1]
<1>1. /\ Half \in 1 .. Count /\ Count \in 1 .. Count
      /\ HalfBits = ByteBits * Half /\ XLEN = ByteBits * Count
  BY Widths
<1>2. PICK n \in {Half, Count} : n \in 1 .. Count /\ bits = ByteBits * n
  BY <1>1
<1>3. /\ ByteBits * n \in 1 .. XLEN /\ Weight[n] = Power[ByteBits * n]
      /\ Power[ByteBits * n - 1] \in Nat \ {0} /\ Weight[n] = 2 * Power[ByteBits * n - 1]
  BY <1>2, HalfWeight
<1>4. Weight[n] \in Nat \ {0}
  BY <1>2, Weights
<1>5. QED
  BY <1>2, <1>3, <1>4

\* The signed value of the low bits.
LEMMA SignedIs ==
  ASSUME NEW v \in Int, NEW bits \in {HalfBits, XLEN}
  PROVE  /\ ToSigned(v, bits) \in Int
         /\ ToSigned(v, bits) >= 0 - Power[bits - 1] /\ ToSigned(v, bits) < Power[bits - 1]
         /\ Same(ToSigned(v, bits), v, bits)
<1>1. PICK n \in {Half, Count} : n \in 1 .. Count /\ bits = ByteBits * n /\ Weight[n] = Power[bits]
  BY BitsAre
<1>2. QED
  BY <1>1, SignedRange DEF Same

\* It is the only one in its range.
LEMMA SignedOnly ==
  ASSUME NEW v \in Int, NEW bits \in {HalfBits, XLEN}, NEW s \in Int,
         s >= 0 - Power[bits - 1], s < Power[bits - 1], Same(s, v, bits)
  PROVE  ToSigned(v, bits) = s
<1> DEFINE p == Power[bits]
           h == Power[bits - 1]
           t == ToSigned(v, bits)
<1>1. p \in Nat \ {0} /\ h \in Nat \ {0} /\ p = 2 * h
  BY BitsAre
<1>2. t \in Int /\ t >= 0 - h /\ t < h /\ t % p = v % p
  BY SignedIs DEF Same
<1>3. s >= 0 - h /\ s < h /\ s % p = t % p
  BY <1>2 DEF Same
<1> HIDE DEF p, h, t
<1>4. PICK k \in Int : s = t + p * k
  BY <1>1, <1>2, <1>3, Congruent
<1>5. k = 0
  <2>1. CASE k >= 1
    <3>1. p * 1 <= p * k
      BY <1>1, <2>1, Monotone
    <3>2. QED
      BY <1>1, <1>2, <1>3, <1>4, <3>1
  <2>2. CASE k <= 0 - 1
    <3> DEFINE m == 0 - 1
    <3>1. m \in Int /\ k <= m
      BY <2>2
    <3>2. p * m = 0 - p
      BY <1>1
    <3> HIDE DEF m
    <3>3. p * k <= p * m /\ p * k \in Int
      BY <1>1, <3>1, Monotone
    <3>4. QED
      BY <1>1, <1>2, <1>3, <1>4, <3>2, <3>3
  <2>3. QED
    BY <2>1, <2>2
<1>6. p * 0 = 0
  BY <1>1
<1>7. s = t
  BY <1>2, <1>4, <1>5, <1>6
<1>8. QED
  BY <1>7 DEF t

\* Numbers with the same low bits have the same signed value.
LEMMA SignedSame ==
  ASSUME NEW v \in Int, NEW u \in Int, NEW bits \in {HalfBits, XLEN}, Same(u, v, bits)
  PROVE  ToSigned(u, bits) = ToSigned(v, bits)
BY DEF ToSigned, Mod, Same

\* What the manual asks for is a number with the same low bits.
LEMMA IsSame ==
  ASSUME NEW v \in Int, NEW r \in Int, NEW bits \in {HalfBits, XLEN}, Same(r, v, bits)
  PROVE  Mod(r - v, bits) = 0
<1> DEFINE p == Power[bits]
<1>1. p \in Nat \ {0}
  BY BitsAre
<1>2. r % p = v % p
  BY DEF Same
<1> HIDE DEF p
<1>3. (r - v) % p = 0
  BY <1>1, <1>2, Congruent
<1>4. QED
  BY <1>3 DEF p, Mod

\* The amount of a shift.
LEMMA AmountIs ==
  ASSUME NEW y \in Int, NEW bits \in {HalfBits, XLEN}
  PROVE  y % bits \in 0 .. bits - 1 /\ y % bits \in 0 .. XLEN - 1 /\ Power[y % bits] \in Nat \ {0}
<1>1. bits \in 1 .. XLEN /\ XLEN \in Nat
  BY BitsAre, Widths
<1>2. y % bits \in 0 .. bits - 1
  BY <1>1, Euclid
<1>3. y % bits \in 0 .. XLEN
  BY <1>1, <1>2
<1>4. QED
  BY <1>1, <1>2, <1>3, PowerValues

\* The arithmetic, logical and shift instructions of the manual.
LEMMA ManualPlain ==
  ASSUME NEW x \in Int, NEW y \in Int, NEW r \in Int, NEW bits \in {HalfBits, XLEN}
  PROVE  /\ Same(r, x + y, bits) => Manual("add", x, y, bits, r)
         /\ Same(r, x - y, bits) => Manual("sub", x, y, bits, r)
         /\ Same(r, x * Power[y % bits], bits) => Manual("sll", x, y, bits, r)
         /\ Same(r, Mod(x, bits) \div Power[y % bits], bits) => Manual("srl", x, y, bits, r)
         /\ Same(r, ToSigned(x, bits) \div Power[y % bits], bits) => Manual("sra", x, y, bits, r)
         /\ Same(r, x * y, bits) => Manual("mul", x, y, bits, r)
<1>1. Power[y % bits] \in Nat \ {0} /\ ToSigned(x, bits) \in Int /\ Power[bits] \in Nat \ {0}
  BY AmountIs, SignedIs, BitsAre
<1>2. ASSUME Same(r, x + y, bits) PROVE Manual("add", x, y, bits, r)
  <2>1. Mod(r - (x + y), bits) = 0
    BY <1>2, IsSame
  <2>2. QED
    BY <2>1 DEF Manual
<1>3. ASSUME Same(r, x - y, bits) PROVE Manual("sub", x, y, bits, r)
  <2>1. Mod(r - (x - y), bits) = 0
    BY <1>3, IsSame
  <2>2. QED
    BY <2>1 DEF Manual
<1>4. ASSUME Same(r, x * Power[y % bits], bits) PROVE Manual("sll", x, y, bits, r)
  <2> DEFINE v == x * Power[y % bits]
  <2>1. v \in Int
    BY <1>1
  <2>2. Mod(r - v, bits) = 0
    BY <1>4, <2>1, IsSame
  <2>3. QED
    BY <2>2 DEF Manual
<1>5. ASSUME Same(r, Mod(x, bits) \div Power[y % bits], bits) PROVE Manual("srl", x, y, bits, r)
  <2> DEFINE v == Mod(x, bits) \div Power[y % bits]
  <2>1. v \in Int
    <3>1. Mod(x, bits) \in Int
      BY <1>1, Euclid DEF Mod
    <3>2. QED
      BY <1>1, <3>1, Euclid
  <2>2. Mod(r - v, bits) = 0
    BY <1>5, <2>1, IsSame
  <2>3. QED
    BY <2>2 DEF Manual
<1>6. ASSUME Same(r, ToSigned(x, bits) \div Power[y % bits], bits) PROVE Manual("sra", x, y, bits, r)
  <2> DEFINE v == ToSigned(x, bits) \div Power[y % bits]
  <2>1. v \in Int
    BY <1>1, Euclid
  <2>2. Mod(r - v, bits) = 0
    BY <1>6, <2>1, IsSame
  <2>3. QED
    BY <2>2 DEF Manual
<1>7. ASSUME Same(r, x * y, bits) PROVE Manual("mul", x, y, bits, r)
  <2> DEFINE v == x * y
  <2>1. v \in Int
    OBVIOUS
  <2>2. Mod(r - v, bits) = 0
    BY <1>7, <2>1, IsSame
  <2>3. QED
    BY <2>2 DEF Manual
<1>8. QED
  BY <1>2, <1>3, <1>4, <1>5, <1>6, <1>7

\* The comparisons, the bitwise operators and the high halves of the products.
LEMMA ManualWide ==
  ASSUME NEW x \in Nat, NEW y \in Nat, NEW r \in Int
  PROVE  /\ Same(r, IF ToSigned(x, XLEN) < ToSigned(y, XLEN) THEN 1 ELSE 0, XLEN)
              => Manual("slt", x, y, XLEN, r)
         /\ Same(r, IF x < y THEN 1 ELSE 0, XLEN) => Manual("sltu", x, y, XLEN, r)
         /\ r = BitsBoth(x, y) => Manual("and", x, y, XLEN, r)
         /\ r = x + y - BitsBoth(x, y) => Manual("or", x, y, XLEN, r)
         /\ r = x + y - 2 * BitsBoth(x, y) => Manual("xor", x, y, XLEN, r)
         /\ Same(r, (ToSigned(x, XLEN) * ToSigned(y, XLEN)) \div Power[XLEN], XLEN)
              => Manual("mulh", x, y, XLEN, r)
         /\ Same(r, (ToSigned(x, XLEN) * y) \div Power[XLEN], XLEN) => Manual("mulhsu", x, y, XLEN, r)
         /\ Same(r, (x * y) \div Power[XLEN], XLEN) => Manual("mulhu", x, y, XLEN, r)
<1> DEFINE p == Power[XLEN]
           both == BitsBoth(x, y)
<1>1. ToSigned(x, XLEN) \in Int /\ ToSigned(y, XLEN) \in Int /\ p \in Nat \ {0} /\ XLEN \in 0 .. XLEN
  BY SignedIs, BitsAre, Widths
<1>2. both \in Int
  BY <1>1, OrIsSum DEF BitsBoth
<1>3. \A v \in Int : Same(v, v, XLEN) /\ (Same(r, v, XLEN) => Mod(r - v, XLEN) = 0)
  BY IsSame DEF Same
<1>4. ASSUME Same(r, IF ToSigned(x, XLEN) < ToSigned(y, XLEN) THEN 1 ELSE 0, XLEN)
      PROVE  Manual("slt", x, y, XLEN, r)
  <2> DEFINE v == IF ToSigned(x, XLEN) < ToSigned(y, XLEN) THEN 1 ELSE 0
  <2>1. v \in Int
    OBVIOUS
  <2>2. Mod(r - v, XLEN) = 0
    BY <1>3, <1>4, <2>1
  <2>3. QED
    BY <2>2 DEF Manual
<1>5. ASSUME Same(r, IF x < y THEN 1 ELSE 0, XLEN) PROVE Manual("sltu", x, y, XLEN, r)
  <2> DEFINE v == IF x < y THEN 1 ELSE 0
  <2>1. v \in Int
    OBVIOUS
  <2>2. Mod(r - v, XLEN) = 0
    BY <1>3, <1>5, <2>1
  <2>3. QED
    BY <2>2 DEF Manual
<1>6. ASSUME r = BitsBoth(x, y) PROVE Manual("and", x, y, XLEN, r)
  <2>1. Mod(r - BitsBoth(x, y), XLEN) = 0
    BY <1>2, <1>3, <1>6
  <2>2. QED
    BY <2>1 DEF Manual
<1>7. ASSUME r = x + y - BitsBoth(x, y) PROVE Manual("or", x, y, XLEN, r)
  <2> DEFINE v == x + y - BitsBoth(x, y)
  <2>1. v \in Int
    BY <1>2
  <2>2. Mod(r - v, XLEN) = 0
    BY <1>3, <1>7, <2>1
  <2>3. QED
    BY <2>2 DEF Manual
<1>8. ASSUME r = x + y - 2 * BitsBoth(x, y) PROVE Manual("xor", x, y, XLEN, r)
  <2> DEFINE v == x + y - 2 * BitsBoth(x, y)
  <2>1. v \in Int
    BY <1>2
  <2>2. Mod(r - v, XLEN) = 0
    BY <1>3, <1>8, <2>1
  <2>3. QED
    BY <2>2 DEF Manual
<1>9. ASSUME Same(r, (ToSigned(x, XLEN) * ToSigned(y, XLEN)) \div Power[XLEN], XLEN)
      PROVE  Manual("mulh", x, y, XLEN, r)
  <2> DEFINE w == ToSigned(x, XLEN) * ToSigned(y, XLEN)
             v == w \div p
  <2>1. w \in Int
    BY <1>1
  <2>2. v \in Int
    <3> HIDE DEF w
    <3>1. QED
      BY <1>1, <2>1, Euclid
  <2>3. Mod(r - v, XLEN) = 0
    BY <1>3, <1>9, <2>2
  <2>4. QED
    BY <2>3 DEF Manual
<1>10. ASSUME Same(r, (ToSigned(x, XLEN) * y) \div Power[XLEN], XLEN)
       PROVE  Manual("mulhsu", x, y, XLEN, r)
  <2> DEFINE w == ToSigned(x, XLEN) * y
             v == w \div p
  <2>1. w \in Int
    BY <1>1
  <2>2. v \in Int
    <3> HIDE DEF w
    <3>1. QED
      BY <1>1, <2>1, Euclid
  <2>3. Mod(r - v, XLEN) = 0
    BY <1>3, <1>10, <2>2
  <2>4. QED
    BY <2>3 DEF Manual
<1>11. ASSUME Same(r, (x * y) \div Power[XLEN], XLEN) PROVE Manual("mulhu", x, y, XLEN, r)
  <2> DEFINE w == x * y
             v == w \div p
  <2>1. w \in Int
    BY <1>1
  <2>2. v \in Int
    <3> HIDE DEF w
    <3>1. QED
      BY <1>1, <2>1, Euclid
  <2>3. Mod(r - v, XLEN) = 0
    BY <1>3, <1>11, <2>2
  <2>4. QED
    BY <2>3 DEF Manual
<1>12. QED
  BY <1>4, <1>5, <1>6, <1>7, <1>8, <1>9, <1>10, <1>11

\* The quotient is the product's factor of that size.
Truncated(x, y, q) ==
    /\ q \in Int /\ x - y * q \in Int
    /\ Divides(x, y, q, x - y * q)
    /\ Abs(q) <= Abs(x) /\ (Abs(y) >= 2 => 2 * Abs(q) <= Abs(x)) /\ Abs(x - y * q) <= Abs(x)

\* The division of the magnitudes, with the sign put back, rounds towards zero.
LEMMA QuotientTruncates ==
  ASSUME NEW x \in Int, NEW y \in Int, y # 0
  PROVE  Truncated(x, y, Quotient(x, y))
<1> DEFINE a == Abs(x)
           b == Abs(y)
           d == a \div b
           m == a % b
           bd == b * d
<1>1. /\ a \in Nat /\ b \in Nat \ {0} /\ (x = a \/ x = 0 - a) /\ (y = b \/ y = 0 - b)
      /\ (x < 0 => x = 0 - a) /\ (~(x < 0) => x = a) /\ (y < 0 => y = 0 - b) /\ (~(y < 0) => y = b)
  BY DEF Abs
<1>2. Quotient(x, y) = IF (x < 0) = (y < 0) THEN d ELSE -d
  BY DEF Quotient
<1> HIDE DEF a, b
<1>3. d \in Int /\ m \in 0 .. b - 1 /\ a = bd + m /\ d >= 0
  <2>1. d \in Int /\ m \in 0 .. b - 1 /\ a = bd + m
    BY <1>1, Euclid
  <2>2. d >= 0
    BY <1>1
  <2>3. QED
    BY <2>1, <2>2
<1>4. d <= a /\ (b >= 2 => 2 * d <= a) /\ bd \in Nat
  <2> HIDE DEF d, m
  <2>1. d * 1 <= d * b /\ d * b = bd /\ bd \in Int /\ d * 1 = d
    BY <1>1, <1>3, Monotone
  <2>2. b >= 2 => d * 2 <= d * b
    BY <1>1, <1>3, Monotone
  <2> HIDE DEF bd
  <2>3. QED
    BY <1>1, <1>3, <2>1, <2>2
<1> HIDE DEF d, m
<1>5. \A e \in Int : Abs(e) = IF e < 0 THEN 0 - e ELSE e
  BY DEF Abs
<1>6. y * d = (IF y < 0 THEN 0 - bd ELSE bd) /\ y * (0 - d) = (IF y < 0 THEN bd ELSE 0 - bd)
  <2>1. CASE y < 0
    <3>1. y = 0 - b
      BY <1>1, <2>1
    <3>2. (0 - b) * d = 0 - b * d /\ (0 - b) * (0 - d) = b * d
      BY <1>1, <1>3
    <3>3. QED
      BY <2>1, <3>1, <3>2
  <2>2. CASE ~(y < 0)
    <3>1. y = b
      BY <1>1, <2>2
    <3>2. b * (0 - d) = 0 - b * d
      BY <1>1, <1>3
    <3>3. QED
      BY <2>2, <3>1, <3>2
  <2>3. QED
    BY <2>1, <2>2
<1> HIDE DEF bd
<1>7. CASE (x < 0) = (y < 0)
  <2> DEFINE yd == y * d
  <2>1. Quotient(x, y) = d
    BY <1>2, <1>7
  <2>2. yd \in Int /\ x - yd = (IF x < 0 THEN 0 - m ELSE m)
    <3>1. CASE x < 0
      BY <1>1, <1>3, <1>4, <1>6, <1>7, <3>1
    <3>2. CASE ~(x < 0)
      BY <1>1, <1>3, <1>4, <1>6, <1>7, <3>2
    <3>3. QED
      BY <3>1, <3>2
  <2> DEFINE e == x - yd
  <2>3. x = d * y + e
    <3>1. d * y = yd
      BY <1>3
    <3> HIDE DEF yd
    <3>2. QED
      BY <1>3, <2>2, <3>1
  <2>4. e \in Int /\ Abs(e) = m /\ Abs(d) = d /\ Abs(y) = b /\ Abs(x) = a
        /\ (e = 0 \/ (e < 0) = (x < 0))
    BY <1>3, <1>5, <2>2 DEF a, b
  <2> HIDE DEF e
  <2>5. Truncated(x, y, d)
    <3>1. Divides(x, y, d, e)
      BY <1>1, <1>3, <2>3, <2>4 DEF Divides
    <3>2. m <= a
      BY <1>1, <1>3, <1>4
    <3>3. QED
      BY <1>3, <1>4, <2>4, <3>1, <3>2 DEF Truncated, e
  <2>6. QED
    BY <2>1, <2>5
<1>8. CASE (x < 0) # (y < 0)
  <2> DEFINE c == 0 - d
             yd == y * c
  <2>1. Quotient(x, y) = c
    BY <1>2, <1>3, <1>8
  <2>2. yd \in Int /\ x - yd = (IF x < 0 THEN 0 - m ELSE m)
    <3>1. CASE x < 0
      BY <1>1, <1>3, <1>4, <1>6, <1>8, <3>1
    <3>2. CASE ~(x < 0)
      BY <1>1, <1>3, <1>4, <1>6, <1>8, <3>2
    <3>3. QED
      BY <3>1, <3>2
  <2> DEFINE e == x - yd
  <2>3. c \in Int
    BY <1>3
  <2>4. e \in Int /\ Abs(e) = m /\ Abs(c) = d /\ Abs(y) = b /\ Abs(x) = a
        /\ (e = 0 \/ (e < 0) = (x < 0))
    BY <1>3, <1>5, <2>2 DEF a, b
  <2> HIDE DEF c
  <2>5. x = c * y + e
    <3>1. c * y = yd
      BY <2>3
    <3> HIDE DEF yd
    <3>2. QED
      BY <2>2, <2>3, <3>1
  <2> HIDE DEF e
  <2>6. Truncated(x, y, c)
    <3>1. Divides(x, y, c, e)
      BY <1>1, <1>3, <2>4, <2>5 DEF Divides
    <3>2. m <= a
      BY <1>1, <1>3, <1>4
    <3>3. QED
      BY <1>4, <2>3, <2>4, <3>1, <3>2 DEF Truncated, e
  <2>7. QED
    BY <2>1, <2>6
<1>9. QED
  BY <1>7, <1>8

\* What division and remainder return, by the cases of the operands.
LEMMA SignedDivision ==
  ASSUME NEW x \in Int, NEW y \in Int, NEW h \in Nat \ {0}, x >= 0 - h, x < h, y >= 0 - h, y < h
  PROVE  /\ y = 0 => DivideSigned(x, y, -h) = -1 /\ RemainderSigned(x, y, -h) = x
         /\ y = -1 => /\ DivideSigned(x, y, -h) = 0 - x \/ (x = 0 - h /\ DivideSigned(x, y, -h) = x)
                      /\ RemainderSigned(x, y, -h) = 0
         /\ y # 0 /\ y # -1 =>
              /\ DivideSigned(x, y, -h) = Quotient(x, y)
              /\ Quotient(x, y) \in Int /\ Quotient(x, y) >= 0 - h /\ Quotient(x, y) < h
         /\ y # 0 =>
              \E q \in -(2 * h) .. 2 * h : Divides(x, y, q, RemainderSigned(x, y, -h))
         /\ RemainderSigned(x, y, -h) \in Int
         /\ y # 0 => RemainderSigned(x, y, -h) >= 0 - h /\ RemainderSigned(x, y, -h) < h
<1> DEFINE n == -1
           l == -h
           D == DivideSigned(x, y, l)
           R == RemainderSigned(x, y, l)
           q == Quotient(x, y)
           r == x - y * q
           yq == y * q
<1>1. n = 0 - 1 /\ n \in Int /\ l = 0 - h /\ l \in Int
  OBVIOUS
<1>2. D = CASE y = 0 -> n [] y = n /\ x = l -> x [] OTHER -> q
  BY DEF DivideSigned
<1>3. R = CASE y = 0 -> x [] y = n /\ x = l -> 0 [] OTHER -> r
  BY DEF RemainderSigned, Remainder
<1>4. \A e \in Int : Abs(e) = IF e < 0 THEN 0 - e ELSE e
  BY DEF Abs
<1>5. ASSUME y # 0
      PROVE  /\ q \in Int /\ r \in Int /\ Divides(x, y, q, r) /\ Abs(q) <= Abs(x)
             /\ (Abs(y) >= 2 => 2 * Abs(q) <= Abs(x)) /\ Abs(r) <= Abs(x) /\ Abs(r) < Abs(y)
             /\ (r = 0 \/ (r < 0) = (x < 0)) /\ x = q * y + r
  <2>1. Truncated(x, y, q)
    BY <1>5, QuotientTruncates
  <2> HIDE DEF q
  <2>2. QED
    BY <2>1 DEF Truncated, Divides
<1> HIDE DEF n, l, D, R, q, r
<1>6. ASSUME y = 0 PROVE D = n /\ R = x
  BY <1>1, <1>2, <1>3, <1>6
<1>7. ASSUME y = n, x = l PROVE D = x /\ R = 0
  BY <1>1, <1>2, <1>3, <1>7
<1>8. ASSUME y # 0, ~(y = n /\ x = l) PROVE D = q /\ R = r
  BY <1>2, <1>3, <1>8
<1>9. ASSUME y = n PROVE q = 0 - x /\ r = 0
  <2>1. Abs(y) = 1 /\ y # 0
    BY <1>1, <1>4, <1>9
  <2>2. r \in Int /\ q \in Int /\ Abs(r) < 1 /\ x = q * y + r
    BY <1>5, <2>1
  <2>3. r = 0
    BY <1>4, <2>2
  <2>4. q * y = 0 - q
    BY <1>1, <1>9, <2>2
  <2> DEFINE qy == q * y
  <2>5. x = qy + 0 /\ qy = 0 - q
    BY <2>2, <2>3, <2>4
  <2> HIDE DEF qy
  <2>6. q = 0 - x
    BY <2>2, <2>5
  <2>7. QED
    BY <2>3, <2>6
<1>10. ASSUME y # 0, y # n PROVE q \in Int /\ q >= 0 - h /\ q < h
  <2>1. CASE y = 1
    <3>1. Abs(y) = 1
      BY <1>4, <2>1
    <3>2. r \in Int /\ q \in Int /\ Abs(r) < 1 /\ x = q * y + r
      BY <1>5, <1>10, <3>1
    <3>3. r = 0 /\ q * y = q
      BY <1>4, <2>1, <3>2
    <3>4. q = x
      BY <3>2, <3>3
    <3>5. QED
      BY <3>4
  <2>2. CASE y # 1
    <3>1. Abs(y) >= 2
      BY <1>1, <1>4, <1>10, <2>2
    <3>2. q \in Int /\ 2 * Abs(q) <= Abs(x)
      BY <1>5, <1>10, <3>1
    <3>3. Abs(x) <= h
      BY <1>4
    <3>4. Abs(q) < h
      BY <1>4, <3>2, <3>3
    <3>5. QED
      BY <1>4, <3>2, <3>4
  <2>3. QED
    BY <2>1, <2>2
<1>11. ASSUME y # 0 PROVE R \in Int /\ R >= 0 - h /\ R < h
  <2>1. CASE y = n /\ x = l
    BY <1>7, <2>1
  <2>2. CASE ~(y = n /\ x = l)
    <3>1. R = r /\ r \in Int /\ Abs(r) < Abs(y) /\ Abs(r) <= Abs(x) /\ (r = 0 \/ (r < 0) = (x < 0))
      BY <1>5, <1>8, <1>11, <2>2
    <3>2. Abs(y) <= h
      BY <1>4
    <3>3. QED
      BY <1>4, <3>1, <3>2
  <2>3. QED
    BY <2>1, <2>2
<1>12. ASSUME y # 0 PROVE \E e \in -(2 * h) .. 2 * h : Divides(x, y, e, R)
  <2>1. q \in Int /\ Abs(q) <= Abs(x) /\ Divides(x, y, q, r)
    BY <1>5, <1>12
  <2>2. q \in -(2 * h) .. 2 * h
    <3>1. Abs(x) <= h
      BY <1>4
    <3>2. QED
      BY <1>4, <2>1, <3>1
  <2>3. CASE y = n /\ x = l
    <3>1. R = r
      BY <1>7, <1>9, <2>3
    <3>2. QED
      BY <2>1, <2>2, <3>1
  <2>4. CASE ~(y = n /\ x = l)
    <3>1. R = r
      BY <1>8, <1>12, <2>4
    <3>2. QED
      BY <2>1, <2>2, <3>1
  <2>5. QED
    BY <2>3, <2>4
<1>13. ASSUME y = n PROVE (D = 0 - x \/ (x = 0 - h /\ D = x)) /\ R = 0
  <2>1. y # 0
    BY <1>1, <1>13
  <2>2. CASE x = l
    BY <1>1, <1>7, <1>13, <2>2
  <2>3. CASE x # l
    BY <1>8, <1>9, <1>13, <2>1, <2>3
  <2>4. QED
    BY <2>2, <2>3
<1>14. ASSUME y # 0, y # n PROVE D = q
  BY <1>8, <1>14
<1>15. R \in Int
  BY <1>6, <1>11
<1>16. QED
  BY <1>6, <1>10, <1>11, <1>12, <1>13, <1>14, <1>15 DEF n, l, D, R, q

\* The division instructions of the manual.
LEMMA ManualDivision ==
  ASSUME NEW x \in Int, NEW y \in Int, NEW r \in Int, NEW bits \in {HalfBits, XLEN}
  PROVE  /\ Same(r, DivideSigned(ToSigned(x, bits), ToSigned(y, bits), -Power[bits - 1]), bits)
              => Manual("div", x, y, bits, r)
         /\ Same(r, RemainderSigned(ToSigned(x, bits), ToSigned(y, bits), -Power[bits - 1]), bits)
              => Manual("rem", x, y, bits, r)
<1> DEFINE h == Power[bits - 1]
           p == Power[bits]
           sx == ToSigned(x, bits)
           sy == ToSigned(y, bits)
           sr == ToSigned(r, bits)
           D == DivideSigned(sx, sy, -h)
           R == RemainderSigned(sx, sy, -h)
<1>1. p \in Nat \ {0} /\ h \in Nat \ {0} /\ p = 2 * h
  BY BitsAre
<1>2. sx \in Int /\ sx >= 0 - h /\ sx < h /\ Same(sx, x, bits)
  BY SignedIs
<1>3. sy \in Int /\ sy >= 0 - h /\ sy < h /\ Same(sy, y, bits)
  BY SignedIs
<1> HIDE DEF h, p, sx, sy, sr
<1>4. /\ sy = 0 => D = -1 /\ R = sx
      /\ sy = -1 => (D = 0 - sx \/ (sx = 0 - h /\ D = sx)) /\ R = 0
      /\ sy # 0 /\ sy # -1 =>
           D = Quotient(sx, sy) /\ Quotient(sx, sy) \in Int /\ Quotient(sx, sy) >= 0 - h /\ Quotient(sx, sy) < h
      /\ sy # 0 => \E q \in -(2 * h) .. 2 * h : Divides(sx, sy, q, R)
      /\ R \in Int /\ (sy # 0 => R >= 0 - h /\ R < h)
  BY ZenonT(40), <1>1, <1>2, <1>3, SignedDivision
<1> HIDE DEF D, R
<1>5. ASSUME Same(r, D, bits) PROVE Manual("div", x, y, bits, r)
  <2>1. CASE sy = 0
    <3> DEFINE n == -1
    <3>1. D = n /\ n \in Int
      BY <1>4, <2>1
    <3> HIDE DEF n
    <3>2. Mod(r - n, bits) = 0
      BY <1>5, <3>1, IsSame
    <3>3. QED
      BY <2>1, <3>2 DEF n, Manual, sy
  <2>2. CASE sy = -1
    <3> DEFINE m == 0 - sx
    <3>1. m \in Int /\ m = -sx /\ sy # 0
      BY <1>2, <2>2
    <3>2. Same(D, m, bits)
      <4>1. CASE D = m
        BY <4>1 DEF Same
      <4>2. CASE sx = 0 - h /\ D = sx
        <5>1. D = m + p * (0 - 1)
          BY <1>1, <4>2
        <5> DEFINE k == 0 - 1
        <5>2. k \in Int
          OBVIOUS
        <5> HIDE DEF k, m
        <5>3. (m + p * k) % p = m % p
          BY ZenonT(40), <1>1, <3>1, <5>2, AddMultiple
        <5>4. QED
          BY <5>1, <5>3 DEF Same, p, k
      <4>3. QED
        BY <1>4, <2>2, <4>1, <4>2
    <3>3. Same(r, m, bits)
      BY <1>5, <3>2 DEF Same
    <3> HIDE DEF m
    <3>4. Mod(r - m, bits) = 0
      BY <3>1, <3>3, IsSame
    <3>5. Mod(r - (-sx), bits) = 0
      BY <3>1, <3>4
    <3>6. QED
      BY <2>2, <3>1, <3>5 DEF Manual, sy, sx
  <2>3. CASE sy # 0 /\ sy # -1
    <3>1. D = Quotient(sx, sy) /\ D \in Int /\ D >= 0 - h /\ D < h
      BY <1>4, <2>3
    <3>2. Same(D, r, bits)
      BY <1>5 DEF Same
    <3>3. sr = D
      BY <3>1, <3>2, SignedOnly DEF sr, h
    <3> DEFINE e == sx - sy * D
    <3>4. Divides(sx, sy, D, e) /\ e \in Int
      BY <1>2, <1>3, <2>3, <3>1, QuotientTruncates DEF Truncated
    <3> HIDE DEF e
    <3>5. Abs(e) < Abs(sy) /\ Abs(sy) \in Nat
      BY <1>3, <3>4 DEF Divides, Abs
    <3>6. e \in -Abs(sy) .. Abs(sy)
      BY <3>4, <3>5 DEF Abs
    <3>7. \E f \in -Abs(sy) .. Abs(sy) : Divides(sx, sy, sr, f)
      BY <3>3, <3>4, <3>6
    <3>8. QED
      BY <2>3, <3>7 DEF Manual, sx, sy, sr
  <2>4. QED
    BY <2>1, <2>2, <2>3
<1>6. ASSUME Same(r, R, bits) PROVE Manual("rem", x, y, bits, r)
  <2>1. CASE sy = 0
    <3>1. Same(r, x, bits)
      BY <1>2, <1>4, <1>6, <2>1 DEF Same
    <3>2. Mod(r - x, bits) = 0
      BY <3>1, IsSame
    <3>3. QED
      BY <2>1, <3>2 DEF Manual, sy
  <2>2. CASE sy # 0
    <3>1. Same(R, r, bits)
      BY <1>6 DEF Same
    <3>2. sr = R
      BY <1>4, <2>2, <3>1, SignedOnly DEF sr, h
    <3>3. \E q \in -(2 * h) .. 2 * h : Divides(sx, sy, q, sr)
      BY <1>4, <2>2, <3>2
    <3>4. \E q \in -(p) .. p : Divides(sx, sy, q, sr)
      BY <1>1, <3>3
    <3>5. QED
      BY <2>2, <3>4 DEF Manual, sx, sy, sr, p
  <2>3. QED
    BY <2>1, <2>2
<1>7. QED
  BY <1>5, <1>6 DEF D, R, sx, sy, h

\* The unsigned divisions of the manual.
LEMMA ManualUnsigned ==
  ASSUME NEW x \in Int, NEW y \in Int, NEW r \in Int, NEW bits \in {HalfBits, XLEN}
  PROVE  /\ Same(r, DivideUnsigned(Mod(x, bits), Mod(y, bits)), bits) => Manual("divu", x, y, bits, r)
         /\ Same(r, RemainderUnsigned(Mod(x, bits), Mod(y, bits)), bits) => Manual("remu", x, y, bits, r)
<1> DEFINE p == Power[bits]
           mx == Mod(x, bits)
           my == Mod(y, bits)
           mr == Mod(r, bits)
           q == mx \div my
           e == mx % my
<1>1. p \in Nat \ {0}
  BY BitsAre
<1>2. mx \in 0 .. p - 1 /\ my \in 0 .. p - 1 /\ mr \in 0 .. p - 1
  <2> HIDE DEF p
  <2>1. x % p \in 0 .. p - 1 /\ y % p \in 0 .. p - 1 /\ r % p \in 0 .. p - 1
    BY <1>1, Euclid
  <2>2. QED
    BY <2>1 DEF Mod, p
<1>3. mx % p = mx
  <2> HIDE DEF p, mx
  <2>1. QED
    BY <1>1, <1>2, Small
<1>4. Same(mx, x, bits)
  BY <1>3 DEF Same, Mod
<1> HIDE DEF mx, my, mr, p
<1>5. ASSUME my # 0 PROVE q \in 0 .. p - 1 /\ e \in 0 .. my - 1 /\ mx = q * my + e /\ e \in Int /\ e <= mx /\ q \in Int
  <2>1. q \in Int /\ e \in 0 .. my - 1 /\ mx = my * q + e
    <3>1. mx \in Int /\ my \in Nat \ {0}
      BY <1>2, <1>5
    <3>2. QED
      BY <3>1, Euclid
  <2> HIDE DEF q, e
  <2>2. q >= 0
    <3>1. CASE q <= 0 - 1
      <4> DEFINE m == 0 - 1
      <4>1. m \in Int /\ q <= m
        BY <3>1
      <4>2. my * m = 0 - my
        BY <1>2
      <4> HIDE DEF m
      <4>3. my * q <= my * m
        BY <1>2, <2>1, <4>1, Monotone
      <4>4. QED
        BY <1>2, <2>1, <4>2, <4>3
    <3>2. QED
      BY <2>1, <3>1
  <2>3. q * 1 <= q * my /\ q * my = my * q /\ q * 1 = q
    BY <1>2, <1>5, <2>1, <2>2, Monotone
  <2> DEFINE m == my * q
  <2>4. m \in Int /\ mx = m + e /\ q <= m /\ q * my = m
    BY <1>2, <2>1, <2>3
  <2> HIDE DEF m
  <2>5. QED
    BY <1>1, <1>2, <2>1, <2>2, <2>4
<1> HIDE DEF q, e
<1>6. ASSUME my # 0 PROVE Divides(mx, my, q, e)
  <2>1. Abs(e) = e /\ Abs(my) = my /\ ~(e < 0) /\ ~(mx < 0)
    BY <1>2, <1>5, <1>6 DEF Abs
  <2>2. e < my
    BY <1>2, <1>5, <1>6
  <2>3. QED
    BY <1>5, <1>6, <2>1, <2>2 DEF Divides
<1>7. ASSUME Same(r, DivideUnsigned(mx, my), bits) PROVE Manual("divu", x, y, bits, r)
  <2>1. CASE my = 0
    <3> DEFINE n == -1
    <3>1. DivideUnsigned(mx, my) = n /\ n \in Int
      BY <2>1 DEF DivideUnsigned
    <3> HIDE DEF n
    <3>2. Mod(r - n, bits) = 0
      BY <1>7, <3>1, IsSame
    <3>3. QED
      BY <2>1, <3>2 DEF n, Manual, my
  <2>2. CASE my # 0
    <3>1. DivideUnsigned(mx, my) = q
      BY <2>2 DEF DivideUnsigned, q
    <3>2. mr = q % p
      BY <1>7, <3>1 DEF Same, mr, Mod, p
    <3>3. q % p = q
      BY <1>1, <1>5, <2>2, Small
    <3>4. Divides(mx, my, mr, e)
      BY <1>6, <2>2, <3>2, <3>3
    <3>5. e \in 0 .. p
      BY <1>1, <1>2, <1>5, <2>2
    <3>6. \E f \in 0 .. p : Divides(mx, my, mr, f)
      BY <3>4, <3>5
    <3>7. QED
      BY <2>2, <3>6 DEF Manual, mx, my, mr, p
  <2>3. QED
    BY <2>1, <2>2
<1>8. ASSUME Same(r, RemainderUnsigned(mx, my), bits) PROVE Manual("remu", x, y, bits, r)
  <2>1. CASE my = 0
    <3>1. Same(r, mx, bits)
      BY <1>8, <2>1 DEF RemainderUnsigned
    <3>2. Same(r, x, bits)
      BY <1>4, <3>1 DEF Same
    <3>3. Mod(r - x, bits) = 0
      BY <3>2, IsSame
    <3>4. QED
      BY <2>1, <3>3 DEF Manual, my
  <2>2. CASE my # 0
    <3>1. RemainderUnsigned(mx, my) = e
      BY <2>2 DEF RemainderUnsigned, e
    <3>2. mr = e % p
      BY <1>8, <3>1 DEF Same, mr, Mod, p
    <3>3. e \in 0 .. p - 1
      BY <1>1, <1>2, <1>5, <2>2
    <3>4. e % p = e
      BY <1>1, <3>3, Small
    <3>5. Divides(mx, my, q, mr)
      BY <1>6, <2>2, <3>2, <3>4
    <3>6. q \in 0 .. p
      BY <1>1, <1>5, <2>2
    <3>7. \E f \in 0 .. p : Divides(mx, my, f, mr)
      BY <3>5, <3>6
    <3>8. QED
      BY <2>2, <3>7 DEF Manual, mx, my, mr, p
  <2>3. QED
    BY <2>1, <2>2
<1>9. QED
  BY <1>7, <1>8 DEF mx, my

-----------------------------------------------------------------------------
\* The handlers on two registers.

\* The low bits of what fits a register are those of the number.
LEMMA SameRemainder ==
  ASSUME NEW v \in Int, NEW bits \in {HalfBits, XLEN}
  PROVE  v % Power[XLEN] \in Int /\ Same(v % Power[XLEN], v, bits)
<1>1. PICK n \in {Half, Count} : n \in 1 .. Count /\ Weight[n] = Power[bits]
  BY BitsAre
<1>2. Count \in 0 .. Count /\ n \in 0 .. Count /\ Weight[Count] = Power[XLEN] /\ Weight[Count] \in Nat \ {0}
  BY <1>1, Widths, Weights
<1>3. (v % Weight[Count]) % Weight[n] = v % Weight[n]
  BY <1>2, FewerBytes
<1>4. v % Weight[Count] \in Int
  <2> DEFINE w == Weight[Count]
  <2>1. w \in Nat \ {0}
    BY <1>2
  <2> HIDE DEF w
  <2>2. v % w \in Int
    BY <2>1, Euclid
  <2>3. QED
    BY <2>2 DEF w
<1>5. QED
  BY <1>1, <1>2, <1>3, <1>4 DEF Same

\* A power of two exceeds its exponent.
LEMMA PowerExceeds == \A k \in 0 .. XLEN : k < Power[k]
<1> DEFINE S == {k \in 0 .. XLEN : k < Power[k]}
<1>1. 0 \in S
  BY PowerValues, Widths
<1>2. \A k \in 0 .. XLEN - 1 : k \in S => k + 1 \in S
  <2> SUFFICES ASSUME NEW k \in 0 .. XLEN - 1, k < Power[k] PROVE k + 1 < Power[k + 1]
    BY Widths
  <2>1. k + 1 \in 1 .. XLEN /\ (k + 1) - 1 = k /\ k \in 0 .. XLEN
    BY Widths
  <2>2. Power[k + 1] = 2 * Power[k] /\ Power[k] \in Nat
    BY <2>1, PowerValues
  <2>3. QED
    BY <2>2
<1> HIDE DEF S
<1>3. 0 .. XLEN \subseteq S
  BY <1>1, <1>2, Widths, InductionTo
<1>4. QED
  BY <1>3 DEF S

\* A word that holds what the manual says of op.
Computes(w, op, x, y, bits) == w \in Words /\ Manual(op, x, y, bits, bytesToBigInt(w))

\* The value of a comparison.
LEMMA BooleanIs ==
  ASSUME NEW c \in BOOLEAN
  PROVE  /\ Boolean(c) \in Words
         /\ Same(bytesToBigInt(Boolean(c)), IF c THEN 1 ELSE 0, XLEN)
<1> DEFINE v == IF c THEN 1 ELSE 0
<1>1. v \in Int /\ Boolean(c) = unsignedBigIntToBytes(v)
  BY DEF Boolean
<1> HIDE DEF v
<1>2. unsignedBigIntToBytes(v) \in Words /\ bytesToBigInt(unsignedBigIntToBytes(v)) = v % Power[XLEN]
  BY <1>1, FromInteger
<1>3. Same(v % Power[XLEN], v, XLEN)
  BY <1>1, SameRemainder
<1>4. QED
  BY <1>1, <1>2, <1>3 DEF v

\* Addition, subtraction and the bitwise operators.
LEMMA AddsRight ==
  ASSUME NEW a \in Words, NEW b \in Words, NEW x, NEW y, x = bytesToBigInt(a), y = bytesToBigInt(b)
  PROVE  /\ Computes(addBytes(a, b), "add", x, y, XLEN)
         /\ Computes(subtractBytes(a, b), "sub", x, y, XLEN)
         /\ Computes(andBytes(a, b), "and", x, y, XLEN)
         /\ Computes(orBytes(a, b), "or", x, y, XLEN)
         /\ Computes(xorBytes(a, b), "xor", x, y, XLEN)
<1> DEFINE p == Power[XLEN]
<1>1. x \in Nat /\ y \in Nat
  BY ValueRange
<1>2. addBytes(a, b) \in Words /\ bytesToBigInt(addBytes(a, b)) = (x + y) % p
  BY AddIsSum
<1>3. subtractBytes(a, b) \in Words /\ bytesToBigInt(subtractBytes(a, b)) = (x - y) % p
  BY SubtractIsDifference
<1> DEFINE s == x + y
           d == x - y
<1>4. s \in Int /\ d \in Int
  BY <1>1
<1> HIDE DEF s, d
<1>5. s % p \in Int /\ Same(s % p, s, XLEN) /\ d % p \in Int /\ Same(d % p, d, XLEN)
  BY <1>4, SameRemainder
<1>6. Manual("add", x, y, XLEN, s % p)
  BY <1>1, <1>5, ManualPlain DEF s
<1>7. Manual("sub", x, y, XLEN, d % p)
  BY <1>1, <1>5, ManualPlain DEF d
<1>8. /\ BitsBoth(x, y) \in Int
      /\ andBytes(a, b) \in Words /\ orBytes(a, b) \in Words /\ xorBytes(a, b) \in Words
      /\ bytesToBigInt(andBytes(a, b)) = BitsBoth(x, y)
      /\ bytesToBigInt(orBytes(a, b)) = x + y - BitsBoth(x, y)
      /\ bytesToBigInt(xorBytes(a, b)) = x + y - 2 * BitsBoth(x, y)
  BY BitwiseIsManual
<1> DEFINE va == bytesToBigInt(andBytes(a, b))
           vo == bytesToBigInt(orBytes(a, b))
           vx == bytesToBigInt(xorBytes(a, b))
<1>9. va \in Int /\ vo \in Int /\ vx \in Int
  BY <1>8, ValueRange
<1> HIDE DEF va, vo, vx
<1>10. Manual("and", x, y, XLEN, va)
  BY <1>1, <1>8, <1>9, ManualWide DEF va
<1>11. Manual("or", x, y, XLEN, vo)
  BY <1>1, <1>8, <1>9, ManualWide DEF vo
<1>12. Manual("xor", x, y, XLEN, vx)
  BY <1>1, <1>8, <1>9, ManualWide DEF vx
<1>13. QED
  BY <1>2, <1>3, <1>6, <1>7, <1>8, <1>10, <1>11, <1>12 DEF Computes, s, d, va, vo, vx

\* The comparisons.
LEMMA ComparesRight ==
  ASSUME NEW a \in Words, NEW b \in Words, NEW x, NEW y, x = bytesToBigInt(a), y = bytesToBigInt(b)
  PROVE  /\ Computes(Boolean(compareSignedBytes(a, b) < 0), "slt", x, y, XLEN)
         /\ Computes(Boolean(compareUnsignedBytes(a, b) < 0), "sltu", x, y, XLEN)
<1> DEFINE c == compareSignedBytes(a, b) < 0
           d == compareUnsignedBytes(a, b) < 0
           sx == ToSigned(x, XLEN)
           sy == ToSigned(y, XLEN)
<1>1. x \in Nat /\ y \in Nat
  BY ValueRange
<1>2. sx \in Int /\ sy \in Int
  BY <1>1, SignedIs
<1>3. c = (sx < sy)
  <2>1. compareSignedBytes(a, b) = Order(sx, sy)
    BY CompareIsSignedOrder
  <2> HIDE DEF sx, sy
  <2>2. (Order(sx, sy) < 0) = (sx < sy)
    BY <1>2 DEF Order
  <2>3. QED
    BY <2>1, <2>2
<1>4. d = (x < y)
  <2>1. compareUnsignedBytes(a, b) = Order(x, y)
    BY CompareIsOrder
  <2>2. (Order(x, y) < 0) = (x < y)
    BY <1>1 DEF Order
  <2>3. QED
    BY <2>1, <2>2
<1>5. c \in BOOLEAN /\ d \in BOOLEAN
  OBVIOUS
<1> HIDE DEF c, d
<1>6. Boolean(c) \in Words /\ Same(bytesToBigInt(Boolean(c)), IF c THEN 1 ELSE 0, XLEN)
  BY <1>5, BooleanIs
<1>7. Boolean(d) \in Words /\ Same(bytesToBigInt(Boolean(d)), IF d THEN 1 ELSE 0, XLEN)
  BY <1>5, BooleanIs
<1> DEFINE vc == bytesToBigInt(Boolean(c))
           vd == bytesToBigInt(Boolean(d))
<1>8. vc \in Int /\ vd \in Int
  BY <1>6, <1>7, ValueRange
<1>9. Same(vc, IF sx < sy THEN 1 ELSE 0, XLEN)
  BY <1>3, <1>6
<1>10. Same(vd, IF x < y THEN 1 ELSE 0, XLEN)
  BY <1>4, <1>7
<1> HIDE DEF vc, vd
<1>11. Manual("slt", x, y, XLEN, vc)
  BY <1>1, <1>8, <1>9, ManualWide
<1>12. Manual("sltu", x, y, XLEN, vd)
  BY <1>1, <1>8, <1>10, ManualWide
<1>13. QED
  BY <1>6, <1>7, <1>11, <1>12 DEF Computes, vc, vd, c, d

\* The shifts, by the amount that the operand names.
LEMMA ShiftsRight ==
  ASSUME NEW a \in Words, NEW x, x = bytesToBigInt(a), NEW y \in Int, NEW amount, amount = y % XLEN
  PROVE  /\ Computes(shiftLeftBytes(a, amount), "sll", x, y, XLEN)
         /\ Computes(shiftRightLogicalBytes(a, amount), "srl", x, y, XLEN)
         /\ Computes(shiftRightArithmeticBytes(a, amount), "sra", x, y, XLEN)
<1> DEFINE p == Power[XLEN]
           A == Power[amount]
           sx == ToSigned(x, XLEN)
<1>1. x \in Nat /\ x \in 0 .. p - 1
  BY ValueRange
<1>2. amount \in 0 .. XLEN - 1 /\ A \in Nat \ {0}
  BY AmountIs
<1>3. sx \in Int
  BY <1>1, SignedIs
<1>4. p \in Nat \ {0}
  BY BitsAre
<1> HIDE DEF A, sx
<1> DEFINE u == x * A
           v == x \div A
           w == sx \div A
<1>5. shiftLeftBytes(a, amount) \in Words /\ bytesToBigInt(shiftLeftBytes(a, amount)) = u % p
  BY <1>2, ShiftLeft DEF A
<1>6. shiftRightLogicalBytes(a, amount) \in Words /\ bytesToBigInt(shiftRightLogicalBytes(a, amount)) = v
  BY <1>2, ShiftRight DEF A
<1>7. /\ shiftRightArithmeticBytes(a, amount) \in Words
      /\ bytesToBigInt(shiftRightArithmeticBytes(a, amount)) = w % p
  BY <1>2, ShiftArithmetic DEF A, sx
<1>8. u \in Int /\ v \in Int /\ w \in Int
  BY <1>1, <1>2, <1>3, Euclid
<1>9. v = Mod(x, XLEN) \div A
  <2>1. x % p = x
    <3> HIDE DEF p
    <3>1. QED
      BY <1>1, <1>4, Small
  <2>2. QED
    BY <2>1 DEF Mod
<1>10. u = x * Power[y % XLEN] /\ v = Mod(x, XLEN) \div Power[y % XLEN]
       /\ w = ToSigned(x, XLEN) \div Power[y % XLEN]
  BY <1>9 DEF A, sx
<1> HIDE DEF u, v, w
<1>11. u % p \in Int /\ Same(u % p, u, XLEN)
  BY <1>8, SameRemainder
<1>12. w % p \in Int /\ Same(w % p, w, XLEN)
  BY <1>8, SameRemainder
<1>13. Manual("sll", x, y, XLEN, u % p)
  BY <1>1, <1>10, <1>11, ManualPlain
<1>14. Manual("srl", x, y, XLEN, v)
  BY <1>1, <1>8, <1>10, ManualPlain DEF Same
<1>15. Manual("sra", x, y, XLEN, w % p)
  BY <1>1, <1>10, <1>12, ManualPlain
<1>16. QED
  BY <1>5, <1>6, <1>7, <1>13, <1>14, <1>15 DEF Computes

\* The bytes of an integer are right if the integer is.
LEMMA IntegerRight ==
  ASSUME NEW v \in Int, NEW op, NEW x, NEW y,
         ASSUME NEW r \in Int, Same(r, v, XLEN) PROVE Manual(op, x, y, XLEN, r)
  PROVE  Computes(unsignedBigIntToBytes(v), op, x, y, XLEN)
<1>1. unsignedBigIntToBytes(v) \in Words /\ bytesToBigInt(unsignedBigIntToBytes(v)) = v % Power[XLEN]
  BY FromInteger
<1> DEFINE r == v % Power[XLEN]
<1>2. r \in Int /\ Same(r, v, XLEN)
  BY SameRemainder
<1> HIDE DEF r
<1>3. Manual(op, x, y, XLEN, r)
  BY <1>2
<1>4. QED
  BY <1>1, <1>3 DEF Computes, r

\* The products.
LEMMA MultipliesRight ==
  ASSUME NEW op \in MultiplyNames, NEW a \in Words, NEW b \in Words, NEW x, NEW y,
         x = bytesToBigInt(a), y = bytesToBigInt(b)
  PROVE  Computes(OpMMultiply(op, a, b), op, x, y, XLEN)
<1> DEFINE p == Power[XLEN]
           sx == ToSigned(x, XLEN)
           sy == ToSigned(y, XLEN)
<1>1. x \in Nat /\ y \in Nat
  BY ValueRange
<1>2. sx \in Int /\ sy \in Int /\ p \in Nat \ {0}
  BY <1>1, SignedIs, BitsAre
<1>3. signedBytesToBigInt(a) = sx /\ signedBytesToBigInt(b) = sy
  BY SignedValue
<1> DEFINE m1 == x * y
           m2 == sx * sy
           m3 == sx * y
           h1 == m1 \div p
           h2 == m2 \div p
           h3 == m3 \div p
<1>4. m1 \in Int /\ m2 \in Int /\ m3 \in Int
  BY <1>1, <1>2
<1>5. h1 \in Int /\ h2 \in Int /\ h3 \in Int
  <2> HIDE DEF m1, m2, m3, p
  <2>1. QED
    BY <1>2, <1>4, Euclid
<1>6. CASE op = "mul"
  <2>1. OpMMultiply(op, a, b) = unsignedBigIntToBytes(m1)
    BY <1>6 DEF OpMMultiply
  <2>2. ASSUME NEW r \in Int, Same(r, m1, XLEN) PROVE Manual("mul", x, y, XLEN, r)
    BY <1>1, <2>2, ManualPlain
  <2> HIDE DEF m1
  <2>3. Computes(unsignedBigIntToBytes(m1), "mul", x, y, XLEN)
    BY <1>4, <2>2, IntegerRight
  <2>4. QED
    BY <1>6, <2>1, <2>3
<1>7. CASE op = "mulh"
  <2>1. OpMMultiply(op, a, b) = unsignedBigIntToBytes(h2)
    BY <1>3, <1>7 DEF OpMMultiply
  <2>2. ASSUME NEW r \in Int, Same(r, h2, XLEN) PROVE Manual("mulh", x, y, XLEN, r)
    BY <1>1, <2>2, ManualWide
  <2> HIDE DEF h2
  <2>3. Computes(unsignedBigIntToBytes(h2), "mulh", x, y, XLEN)
    BY <1>5, <2>2, IntegerRight
  <2>4. QED
    BY <1>7, <2>1, <2>3
<1>8. CASE op = "mulhsu"
  <2>1. OpMMultiply(op, a, b) = unsignedBigIntToBytes(h3)
    BY <1>3, <1>8 DEF OpMMultiply
  <2>2. ASSUME NEW r \in Int, Same(r, h3, XLEN) PROVE Manual("mulhsu", x, y, XLEN, r)
    BY <1>1, <2>2, ManualWide
  <2> HIDE DEF h3
  <2>3. Computes(unsignedBigIntToBytes(h3), "mulhsu", x, y, XLEN)
    BY <1>5, <2>2, IntegerRight
  <2>4. QED
    BY <1>8, <2>1, <2>3
<1>9. CASE op = "mulhu"
  <2>1. OpMMultiply(op, a, b) = unsignedBigIntToBytes(h1)
    BY <1>9 DEF OpMMultiply
  <2>2. ASSUME NEW r \in Int, Same(r, h1, XLEN) PROVE Manual("mulhu", x, y, XLEN, r)
    BY <1>1, <2>2, ManualWide
  <2> HIDE DEF h1
  <2>3. Computes(unsignedBigIntToBytes(h1), "mulhu", x, y, XLEN)
    BY <1>5, <2>2, IntegerRight
  <2>4. QED
    BY <1>9, <2>1, <2>3
<1>10. QED
  BY <1>6, <1>7, <1>8, <1>9 DEF MultiplyNames

\* What the divisions return is an integer.
LEMMA DivisionInteger ==
  ASSUME NEW x \in Int, NEW y \in Int, NEW bits \in {HalfBits, XLEN}
  PROVE  /\ DivideSigned(ToSigned(x, bits), ToSigned(y, bits), -Power[bits - 1]) \in Int
         /\ RemainderSigned(ToSigned(x, bits), ToSigned(y, bits), -Power[bits - 1]) \in Int
         /\ DivideUnsigned(Mod(x, bits), Mod(y, bits)) \in Int
         /\ RemainderUnsigned(Mod(x, bits), Mod(y, bits)) \in Int
<1> DEFINE h == Power[bits - 1]
           p == Power[bits]
           sx == ToSigned(x, bits)
           sy == ToSigned(y, bits)
           mx == Mod(x, bits)
           my == Mod(y, bits)
<1>1. h \in Nat \ {0} /\ p \in Nat \ {0}
  BY BitsAre
<1>2. sx \in Int /\ sx >= 0 - h /\ sx < h /\ sy \in Int /\ sy >= 0 - h /\ sy < h
  BY SignedIs
<1>3. mx \in Int /\ my \in Nat
  <2> HIDE DEF p
  <2>1. x % p \in 0 .. p - 1 /\ y % p \in 0 .. p - 1
    BY <1>1, Euclid
  <2>2. QED
    BY <2>1 DEF Mod, p
<1> HIDE DEF h, sx, sy, mx, my
<1> DEFINE D == DivideSigned(sx, sy, -h)
           R == RemainderSigned(sx, sy, -h)
<1>4. /\ sy = 0 => D = -1 /\ R = sx
      /\ sy = -1 => (D = 0 - sx \/ (sx = 0 - h /\ D = sx)) /\ R = 0
      /\ sy # 0 /\ sy # -1 =>
           D = Quotient(sx, sy) /\ Quotient(sx, sy) \in Int /\ Quotient(sx, sy) >= 0 - h /\ Quotient(sx, sy) < h
      /\ sy # 0 => \E q \in -(2 * h) .. 2 * h : Divides(sx, sy, q, R)
      /\ R \in Int /\ (sy # 0 => R >= 0 - h /\ R < h)
  BY ZenonT(40), <1>1, <1>2, SignedDivision
<1> HIDE DEF D, R
<1>5. D \in Int /\ R \in Int
  BY <1>2, <1>4
<1>6. DivideUnsigned(mx, my) \in Int /\ RemainderUnsigned(mx, my) \in Int
  <2>1. CASE my = 0
    BY <1>3, <2>1 DEF DivideUnsigned, RemainderUnsigned
  <2>2. CASE my # 0
    <3>1. mx \div my \in Int /\ mx % my \in Int
      BY <1>3, <2>2, Euclid
    <3>2. QED
      BY <2>2, <3>1 DEF DivideUnsigned, RemainderUnsigned
  <2>3. QED
    BY <2>1, <2>2
<1>7. QED
  BY <1>5, <1>6 DEF D, R, h, sx, sy, mx, my

\* The divisions.
LEMMA DividesRight ==
  ASSUME NEW op \in DivideNames, NEW a \in Words, NEW b \in Words, NEW x, NEW y,
         x = bytesToBigInt(a), y = bytesToBigInt(b)
  PROVE  Computes(OpMDivide(op, a, b), op, x, y, XLEN)
<1> DEFINE h == Power[XLEN - 1]
           p == Power[XLEN]
           sx == ToSigned(x, XLEN)
           sy == ToSigned(y, XLEN)
           v1 == DivideSigned(sx, sy, -h)
           v2 == RemainderSigned(sx, sy, -h)
           v3 == DivideUnsigned(Mod(x, XLEN), Mod(y, XLEN))
           v4 == RemainderUnsigned(Mod(x, XLEN), Mod(y, XLEN))
<1>1. x \in 0 .. p - 1 /\ y \in 0 .. p - 1 /\ p \in Nat \ {0}
  BY ValueRange, BitsAre
<1>2. x \in Int /\ y \in Int
  BY <1>1
<1>3. signedBytesToBigInt(a) = sx /\ signedBytesToBigInt(b) = sy
  BY SignedValue
<1>4. Mod(x, XLEN) = x /\ Mod(y, XLEN) = y
  <2> HIDE DEF p
  <2>1. x % p = x
    BY <1>1, Small
  <2>2. y % p = y
    BY <1>1, Small
  <2>3. QED
    BY <2>1, <2>2 DEF Mod, p
<1>5. v1 \in Int /\ v2 \in Int /\ v3 \in Int /\ v4 \in Int
  BY <1>2, DivisionInteger
<1>6. CASE op = "div"
  <2>1. OpMDivide(op, a, b) = unsignedBigIntToBytes(v1)
    BY <1>3, <1>6 DEF OpMDivide
  <2>2. ASSUME NEW r \in Int, Same(r, v1, XLEN) PROVE Manual("div", x, y, XLEN, r)
    BY <1>2, <2>2, ManualDivision
  <2> HIDE DEF v1
  <2>3. Computes(unsignedBigIntToBytes(v1), "div", x, y, XLEN)
    BY <1>5, <2>2, IntegerRight
  <2>4. QED
    BY <1>6, <2>1, <2>3
<1>7. CASE op = "rem"
  <2>1. OpMDivide(op, a, b) = unsignedBigIntToBytes(v2)
    BY <1>3, <1>7 DEF OpMDivide
  <2>2. ASSUME NEW r \in Int, Same(r, v2, XLEN) PROVE Manual("rem", x, y, XLEN, r)
    BY <1>2, <2>2, ManualDivision
  <2> HIDE DEF v2
  <2>3. Computes(unsignedBigIntToBytes(v2), "rem", x, y, XLEN)
    BY <1>5, <2>2, IntegerRight
  <2>4. QED
    BY <1>7, <2>1, <2>3
<1>8. CASE op = "divu"
  <2>1. OpMDivide(op, a, b) = unsignedBigIntToBytes(v3)
    BY <1>4, <1>8 DEF OpMDivide
  <2>2. ASSUME NEW r \in Int, Same(r, v3, XLEN) PROVE Manual("divu", x, y, XLEN, r)
    BY <1>2, <2>2, ManualUnsigned
  <2> HIDE DEF v3
  <2>3. Computes(unsignedBigIntToBytes(v3), "divu", x, y, XLEN)
    BY <1>5, <2>2, IntegerRight
  <2>4. QED
    BY <1>8, <2>1, <2>3
<1>9. CASE op = "remu"
  <2>1. OpMDivide(op, a, b) = unsignedBigIntToBytes(v4)
    BY <1>4, <1>9 DEF OpMDivide
  <2>2. ASSUME NEW r \in Int, Same(r, v4, XLEN) PROVE Manual("remu", x, y, XLEN, r)
    BY <1>2, <2>2, ManualUnsigned
  <2> HIDE DEF v4
  <2>3. Computes(unsignedBigIntToBytes(v4), "remu", x, y, XLEN)
    BY <1>5, <2>2, IntegerRight
  <2>4. QED
    BY <1>9, <2>1, <2>3
<1>10. QED
  BY <1>6, <1>7, <1>8, <1>9 DEF DivideNames

-----------------------------------------------------------------------------
\* The handlers on the low half.

\* A word that holds what the manual says of op on 32 bits, sign-extended.
WordComputes(w, op, x, y) ==
    /\ w \in Words
    /\ Manual(op, x, y, HalfBits, bytesToBigInt(w))
    /\ bytesToBigInt(w) = Mod(ToSigned(bytesToBigInt(w), HalfBits), XLEN)

\* The low bits of sums, differences and products are those of the operands'.
LEMMA SameSum ==
  ASSUME NEW a \in Int, NEW b \in Int, NEW c \in Int, NEW d \in Int, NEW bits \in {HalfBits, XLEN},
         Same(a, b, bits), Same(c, d, bits)
  PROVE  Same(a + c, b + d, bits) /\ Same(a - c, b - d, bits) /\ Same(a * c, b * d, bits)
<1> DEFINE p == Power[bits]
<1>1. p \in Nat \ {0} /\ Alike(a, b, p) /\ Alike(c, d, p)
  BY BitsAre DEF Same, Alike
<1> HIDE DEF p
<1>2. Alike(a + c, b + d, p)
  BY <1>1, CongruentSum
<1>3. Alike(a - c, b - d, p)
  BY <1>1, CongruentSum
<1>4. Alike(a * c, b * d, p)
  BY <1>1, CongruentProduct
<1>5. QED
  BY <1>2, <1>3, <1>4 DEF Same, Alike, p

\* Sign extension from 32 bits keeps the low ones.
LEMMA WordResult ==
  ASSUME NEW s \in Words, NEW op, NEW x, NEW y,
         ASSUME NEW r \in Int, Same(r, bytesToBigInt(s), HalfBits) PROVE Manual(op, x, y, HalfBits, r)
  PROVE  WordComputes(signExtendBytes(s, Half), op, x, y)
<1> DEFINE w == signExtendBytes(s, Half)
           v == bytesToBigInt(s)
           r == bytesToBigInt(w)
           t == ToSigned(v, HalfBits)
<1>1. Half \in 1 .. Count /\ HalfBits = ByteBits * Half
  BY Widths
<1>2. w \in Words /\ r = t % Power[XLEN]
  BY <1>1, SignExtend
<1>3. v \in Int
  BY ValueRange
<1>4. t \in Int /\ Same(t, v, HalfBits)
  BY <1>3, SignedIs
<1>5. r \in Int /\ Same(r, t, HalfBits)
  BY <1>2, <1>4, SameRemainder
<1> HIDE DEF w, v, r, t
<1>6. Same(r, v, HalfBits)
  BY <1>4, <1>5 DEF Same
<1>7. Manual(op, x, y, HalfBits, r)
  BY <1>5, <1>6 DEF v
<1>8. ToSigned(r, HalfBits) = t
  BY <1>3, <1>5, <1>6, SignedSame DEF t
<1>9. r = Mod(ToSigned(r, HalfBits), XLEN)
  BY <1>2, <1>8 DEF Mod
<1>10. QED
  BY <1>2, <1>7, <1>9 DEF WordComputes, r, w

\* The low half of a register.
LEMMA LowHalf ==
  ASSUME NEW a \in Words
  PROVE  /\ low32Bytes(a) \in Words
         /\ bytesToBigInt(low32Bytes(a)) = Mod(bytesToBigInt(a), HalfBits)
         /\ Same(bytesToBigInt(low32Bytes(a)), bytesToBigInt(a), HalfBits)
         /\ low32Unsigned(a) = Mod(bytesToBigInt(a), HalfBits)
         /\ low32Signed(a) = ToSigned(bytesToBigInt(a), HalfBits)
<1> DEFINE x == bytesToBigInt(a)
           m == Mod(x, HalfBits)
           p == Power[HalfBits]
<1>1. Half \in 0 .. Count /\ Weight[Half] = p
  BY Widths, Weights
<1>2. low32Bytes(a) = zeroExtendBytes(a, Half)
  BY DEF low32Bytes, zeroExtendBytes
<1>3. low32Bytes(a) \in Words /\ bytesToBigInt(low32Bytes(a)) = m
  BY <1>1, <1>2, Split DEF Mod
<1>4. x \in Int /\ p \in Nat \ {0}
  BY ValueRange, BitsAre
<1>5. Same(m, x, HalfBits)
  <2> HIDE DEF x, p
  <2>1. x % p \in 0 .. p - 1
    BY <1>4, Euclid
  <2> DEFINE z == x % p
  <2> HIDE DEF z
  <2>2. z % p = z
    BY <1>4, <2>1, Small DEF z
  <2>3. QED
    BY <2>2 DEF Same, Mod, z, p
<1>6. low32Unsigned(a) = m
  BY <1>3 DEF low32Unsigned
<1>7. low32Signed(a) = ToSigned(x, HalfBits)
  BY <1>6 DEF low32Signed, ToSigned
<1>8. QED
  BY <1>3, <1>5, <1>6, <1>7

\* Addition and subtraction of 32 bits.
LEMMA WordAddsRight ==
  ASSUME NEW s \in Words, NEW u \in Words, NEW x \in Int, NEW y \in Int,
         Same(bytesToBigInt(s), x, HalfBits), Same(bytesToBigInt(u), y, HalfBits)
  PROVE  /\ WordComputes(signExtendBytes(addBytes(s, u), Half), "add", x, y)
         /\ WordComputes(signExtendBytes(subtractBytes(s, u), Half), "sub", x, y)
<1> DEFINE vs == bytesToBigInt(s)
           vu == bytesToBigInt(u)
           add == vs + vu
           sub == vs - vu
<1>1. vs \in Int /\ vu \in Int
  BY ValueRange
<1>2. Same(vs, x, HalfBits) /\ Same(vu, y, HalfBits)
  OBVIOUS
<1>3. addBytes(s, u) \in Words /\ bytesToBigInt(addBytes(s, u)) = add % Power[XLEN]
  BY AddIsSum
<1>4. subtractBytes(s, u) \in Words /\ bytesToBigInt(subtractBytes(s, u)) = sub % Power[XLEN]
  BY SubtractIsDifference
<1> HIDE DEF vs, vu
<1>5. Same(add, x + y, HalfBits) /\ Same(sub, x - y, HalfBits)
  BY <1>1, <1>2, SameSum
<1>6. add \in Int /\ sub \in Int
  BY <1>1
<1> HIDE DEF add, sub
<1>7. Same(add % Power[XLEN], add, HalfBits)
  BY <1>6, SameRemainder
<1>8. Same(sub % Power[XLEN], sub, HalfBits)
  BY <1>6, SameRemainder
<1>9. ASSUME NEW r \in Int, Same(r, bytesToBigInt(addBytes(s, u)), HalfBits)
      PROVE  Manual("add", x, y, HalfBits, r)
  <2>1. Same(r, x + y, HalfBits)
    BY <1>3, <1>5, <1>7, <1>9 DEF Same
  <2>2. QED
    BY <2>1, ManualPlain
<1>10. ASSUME NEW r \in Int, Same(r, bytesToBigInt(subtractBytes(s, u)), HalfBits)
       PROVE  Manual("sub", x, y, HalfBits, r)
  <2>1. Same(r, x - y, HalfBits)
    BY <1>4, <1>5, <1>8, <1>10 DEF Same
  <2>2. QED
    BY <2>1, ManualPlain
<1>11. WordComputes(signExtendBytes(addBytes(s, u), Half), "add", x, y)
  BY <1>3, <1>9, WordResult
<1>12. WordComputes(signExtendBytes(subtractBytes(s, u), Half), "sub", x, y)
  BY <1>4, <1>10, WordResult
<1>13. QED
  BY <1>11, <1>12

\* The shifts of 32 bits.
LEMMA WordShiftsRight ==
  ASSUME NEW a \in Words, NEW x, x = bytesToBigInt(a), NEW y \in Int, NEW amount, amount = y % HalfBits
  PROVE  LET low == low32Bytes(a) IN
         /\ WordComputes(signExtendBytes(shiftLeftBytes(low, amount), Half), "sll", x, y)
         /\ WordComputes(signExtendBytes(shiftRightLogicalBytes(low, amount), Half), "srl", x, y)
         /\ WordComputes(signExtendBytes(
              shiftRightArithmeticBytes(signExtendBytes(low, Half), amount), Half), "sra", x, y)
<1> DEFINE low == low32Bytes(a)
           se == signExtendBytes(low, Half)
           vl == bytesToBigInt(low)
           ve == bytesToBigInt(se)
           p == Power[HalfBits]
           P == Power[XLEN]
           A == Power[amount]
           sx == ToSigned(x, HalfBits)
           L == shiftLeftBytes(low, amount)
           R == shiftRightLogicalBytes(low, amount)
           S == shiftRightArithmeticBytes(se, amount)
<1>1. amount \in 0 .. XLEN - 1 /\ A \in Nat \ {0} /\ Half \in 1 .. Count /\ HalfBits = ByteBits * Half
  BY AmountIs, Widths
<1>2. low \in Words /\ vl = Mod(x, HalfBits) /\ Same(vl, x, HalfBits)
  BY LowHalf
<1>3. x \in Int /\ vl \in Int /\ p \in Nat \ {0} /\ P \in Nat \ {0}
  BY <1>2, ValueRange, BitsAre
<1> HIDE DEF low, vl
<1>4. se \in Words /\ ve = ToSigned(vl, HalfBits) % P
  BY <1>1, <1>2, SignExtend DEF vl
<1>5. ToSigned(vl, HalfBits) = sx
  BY <1>2, <1>3, SignedSame
<1>6. ve \in Int
  BY <1>4, ValueRange
<1>7. sx \in Int /\ sx >= 0 - Power[HalfBits - 1] /\ sx < Power[HalfBits - 1]
  BY <1>3, SignedIs
<1> HIDE DEF se, ve, sx
<1>8. ToSigned(ve, XLEN) = sx
  <2> DEFINE h == Power[HalfBits - 1]
             H == Power[XLEN - 1]
  <2>1. H = h * p /\ h \in Nat \ {0}
    <3> DEFINE k == HalfBits - 1
    <3>1. k \in Nat /\ HalfBits \in Nat /\ k + HalfBits = XLEN - 1 /\ k + HalfBits <= XLEN
      BY Widths
    <3> HIDE DEF k
    <3>2. Power[k + HalfBits] = Power[k] * Power[HalfBits]
      BY <3>1, PowerSum
    <3>3. h \in Nat \ {0}
      BY BitsAre
    <3>4. QED
      BY <3>1, <3>2, <3>3 DEF k
  <2>2. h <= H
    <3> HIDE DEF h, H, p
    <3>1. h * 1 <= h * p
      BY <1>3, <2>1, Monotone
    <3>2. QED
      BY <2>1, <3>1
  <2>3. Same(sx % P, sx, XLEN)
    BY <1>7, SameRemainder
  <2>4. Same(sx, ve, XLEN)
    BY <1>4, <1>5, <2>3 DEF Same
  <2>5. sx >= 0 - H /\ sx < H
    <3> HIDE DEF H
    <3>1. H \in Int
      BY <1>3, <2>1
    <3>2. QED
      BY <1>7, <2>1, <2>2, <3>1
  <2>6. QED
    BY <1>6, <1>7, <2>4, <2>5, SignedOnly
<1> HIDE DEF A, P, p
<1> DEFINE u == vl * A
           v == vl \div A
           w == sx \div A
<1>9. u \in Int /\ v \in Int /\ w \in Int
  BY <1>1, <1>3, <1>7, Euclid
<1>10. L \in Words /\ bytesToBigInt(L) = u % P
  BY <1>1, <1>2, ShiftLeft DEF A, P, vl
<1>11. R \in Words /\ bytesToBigInt(R) = v
  BY <1>1, <1>2, ShiftRight DEF A, vl
<1>12. S \in Words /\ bytesToBigInt(S) = w % P
  <2>1. S \in Words /\ bytesToBigInt(S) = (ToSigned(ve, XLEN) \div A) % P
    BY <1>1, <1>4, ShiftArithmetic DEF A, P, ve
  <2>2. QED
    BY <1>8, <2>1
<1> HIDE DEF L, R, S
<1>13. Same(u % P, u, HalfBits)
  <2> HIDE DEF u
  <2>1. QED
    BY <1>9, SameRemainder DEF P
<1>14. Same(w % P, w, HalfBits)
  <2> HIDE DEF w
  <2>1. QED
    BY <1>9, SameRemainder DEF P
<1>15. Same(u, x * A, HalfBits)
  <2>1. Same(A, A, HalfBits) /\ A \in Int
    BY <1>1 DEF Same
  <2>2. QED
    BY <1>2, <1>3, <2>1, SameSum
<1>16. v = Mod(x, HalfBits) \div A
  BY <1>2
<1> HIDE DEF u, v, w
<1>17. ASSUME NEW r \in Int, Same(r, bytesToBigInt(L), HalfBits) PROVE Manual("sll", x, y, HalfBits, r)
  <2>1. Same(r, x * Power[y % HalfBits], HalfBits)
    BY <1>10, <1>13, <1>15, <1>17 DEF Same, A
  <2>2. QED
    BY <1>3, <2>1, ManualPlain
<1>18. ASSUME NEW r \in Int, Same(r, bytesToBigInt(R), HalfBits) PROVE Manual("srl", x, y, HalfBits, r)
  <2>1. Same(r, Mod(x, HalfBits) \div Power[y % HalfBits], HalfBits)
    BY <1>11, <1>16, <1>18 DEF A
  <2>2. QED
    BY <1>3, <2>1, ManualPlain
<1>19. ASSUME NEW r \in Int, Same(r, bytesToBigInt(S), HalfBits) PROVE Manual("sra", x, y, HalfBits, r)
  <2>1. Same(r, ToSigned(x, HalfBits) \div Power[y % HalfBits], HalfBits)
    BY <1>12, <1>14, <1>19 DEF Same, A, w, sx
  <2>2. QED
    BY <1>3, <2>1, ManualPlain
<1>20. WordComputes(signExtendBytes(L, Half), "sll", x, y)
  BY <1>10, <1>17, WordResult
<1>21. WordComputes(signExtendBytes(R, Half), "srl", x, y)
  BY <1>11, <1>18, WordResult
<1>22. WordComputes(signExtendBytes(S, Half), "sra", x, y)
  BY <1>12, <1>19, WordResult
<1>23. QED
  BY <1>20, <1>21, <1>22 DEF L, R, S, se, low

\* The W forms of two registers.
LEMMA Op32Right ==
  ASSUME NEW op \in Op32Names, NEW a \in Words, NEW b \in Words, NEW x, NEW y,
         x = bytesToBigInt(a), y = bytesToBigInt(b)
  PROVE  WordComputes(Op32(op, a, b), WordForms[op], x, y)
<1> DEFINE low == low32Bytes(a)
           lowb == low32Bytes(b)
           amount == byte0ToNumber(b, HalfBits)
<1>1. x \in Int /\ y \in Int
  BY ValueRange
<1>2. low \in Words /\ Same(bytesToBigInt(low), x, HalfBits)
  BY LowHalf
<1>3. lowb \in Words /\ Same(bytesToBigInt(lowb), y, HalfBits)
  BY LowHalf
<1>4. amount = y % HalfBits
  BY DEF byte0ToNumber
<1>5. /\ WordComputes(signExtendBytes(addBytes(low, lowb), Half), "add", x, y)
      /\ WordComputes(signExtendBytes(subtractBytes(low, lowb), Half), "sub", x, y)
  BY <1>1, <1>2, <1>3, WordAddsRight
<1>6. /\ WordComputes(signExtendBytes(shiftLeftBytes(low, amount), Half), "sll", x, y)
      /\ WordComputes(signExtendBytes(shiftRightLogicalBytes(low, amount), Half), "srl", x, y)
      /\ WordComputes(signExtendBytes(
           shiftRightArithmeticBytes(signExtendBytes(low, Half), amount), Half), "sra", x, y)
  <2> HIDE DEF amount
  <2>1. QED
    BY <1>1, <1>4, WordShiftsRight
<1>7. CASE op = "addw"
  BY <1>5, <1>7 DEF Op32, WordForms
<1>8. CASE op = "subw"
  BY <1>5, <1>8 DEF Op32, WordForms
<1>9. CASE op = "sllw"
  BY <1>6, <1>9 DEF Op32, WordForms
<1>10. CASE op = "srlw"
  BY <1>6, <1>10 DEF Op32, WordForms
<1>11. CASE op = "sraw"
  BY <1>6, <1>11 DEF Op32, WordForms
<1>12. QED
  BY <1>7, <1>8, <1>9, <1>10, <1>11 DEF Op32Names

\* The bytes of an immediate, and the shift amount that it is.
LEMMA ImmediateIs ==
  ASSUME NEW imm \in Int
  PROVE  /\ unsignedBigIntToBytes(imm) \in Words
         /\ bytesToBigInt(unsignedBigIntToBytes(imm)) = Mod(imm, XLEN)
         /\ Mod(imm, XLEN) \in Int
         /\ \A bits \in {HalfBits, XLEN} : imm \in 0 .. bits - 1 => Mod(imm, XLEN) % bits = imm
<1>1. /\ unsignedBigIntToBytes(imm) \in Words
      /\ bytesToBigInt(unsignedBigIntToBytes(imm)) = Mod(imm, XLEN)
  BY FromInteger DEF Mod
<1>2. Mod(imm, XLEN) \in Int
  BY <1>1, ValueRange
<1>3. ASSUME NEW bits \in {HalfBits, XLEN}, imm \in 0 .. bits - 1 PROVE Mod(imm, XLEN) % bits = imm
  <2> DEFINE p == Power[XLEN]
  <2>1. bits \in 1 .. XLEN /\ XLEN \in 0 .. XLEN /\ XLEN < p /\ p \in Nat \ {0}
    BY BitsAre, Widths, PowerExceeds
  <2>2. imm \in 0 .. p - 1
    <3> HIDE DEF p
    <3>1. QED
      BY <1>3, <2>1
  <2> HIDE DEF p
  <2>3. imm % p = imm
    BY <2>1, <2>2, Small
  <2>4. imm % bits = imm
    <3>1. bits \in Nat \ {0}
      BY <2>1
    <3>2. QED
      BY <1>3, <3>1, Small
  <2>5. QED
    BY <2>3, <2>4 DEF Mod, p
<1>4. QED
  BY <1>1, <1>2, <1>3

\* The W forms of a register and an immediate.
LEMMA OpImm32Right ==
  ASSUME NEW op \in OpImm32Names, NEW a \in Words, NEW imm \in Int, NEW x, NEW y,
         op # "addiw" => imm \in 0 .. HalfBits - 1,
         x = bytesToBigInt(a), y = Mod(imm, XLEN)
  PROVE  WordComputes(OpImm32(op, a, unsignedBigIntToBytes(imm), imm), WordForms[op], x, y)
<1> DEFINE low == low32Bytes(a)
           b == unsignedBigIntToBytes(imm)
<1>1. x \in Int /\ y \in Int
  BY ValueRange, ImmediateIs
<1>2. low \in Words /\ Same(bytesToBigInt(low), x, HalfBits)
  BY LowHalf
<1>3. b \in Words /\ Same(bytesToBigInt(b), y, HalfBits)
  BY ImmediateIs DEF Same
<1>4. CASE op = "addiw"
  <2> HIDE DEF b, low
  <2>1. WordComputes(signExtendBytes(addBytes(low, b), Half), "add", x, y)
    BY <1>1, <1>2, <1>3, WordAddsRight
  <2>2. QED
    BY <1>4, <2>1 DEF OpImm32, WordForms, low, b
<1>5. CASE op # "addiw"
  <2>1. imm = y % HalfBits
    BY <1>5, ImmediateIs
  <2>2. /\ WordComputes(signExtendBytes(shiftLeftBytes(low, imm), Half), "sll", x, y)
        /\ WordComputes(signExtendBytes(shiftRightLogicalBytes(low, imm), Half), "srl", x, y)
        /\ WordComputes(signExtendBytes(
             shiftRightArithmeticBytes(signExtendBytes(low, Half), imm), Half), "sra", x, y)
    BY <1>1, <2>1, WordShiftsRight
  <2>3. CASE op = "slliw"
    BY <2>2, <2>3 DEF OpImm32, WordForms
  <2>4. CASE op = "srliw"
    BY <2>2, <2>4 DEF OpImm32, WordForms
  <2>5. CASE op = "sraiw"
    BY <2>2, <2>5 DEF OpImm32, WordForms
  <2>6. QED
    BY <1>5, <2>3, <2>4, <2>5 DEF OpImm32Names
<1>6. QED
  BY <1>4, <1>5

\* The low 32 bits of an integer, sign-extended, are right if the integer is.
LEMMA Sext32Right ==
  ASSUME NEW v \in Int, NEW op, NEW x, NEW y,
         ASSUME NEW r \in Int, Same(r, v, HalfBits) PROVE Manual(op, x, y, HalfBits, r)
  PROVE  WordComputes(Sext32(v), op, x, y)
<1> DEFINE p == Power[HalfBits]
           u == v % p
           s == unsignedBigIntToBytes(u)
<1>1. p \in Nat \ {0}
  BY BitsAre
<1>2. u \in 0 .. p - 1
  <2> HIDE DEF p
  <2>1. QED
    BY <1>1, Euclid
<1>3. u % p = u
  <2> HIDE DEF p, u
  <2>1. QED
    BY <1>1, <1>2, Small
<1>4. Same(u, v, HalfBits) /\ u \in Int
  BY <1>2, <1>3 DEF Same
<1> HIDE DEF u
<1>5. s \in Words /\ bytesToBigInt(s) = u % Power[XLEN]
  BY <1>4, FromInteger
<1>6. Same(bytesToBigInt(s), u, HalfBits)
  BY <1>4, <1>5, SameRemainder
<1> HIDE DEF s
<1>7. ASSUME NEW r \in Int, Same(r, bytesToBigInt(s), HalfBits) PROVE Manual(op, x, y, HalfBits, r)
  <2>1. Same(r, v, HalfBits)
    BY <1>4, <1>6, <1>7 DEF Same
  <2>2. QED
    BY <2>1
<1>8. WordComputes(signExtendBytes(s, Half), op, x, y)
  BY <1>5, <1>7, WordResult
<1>9. QED
  BY <1>8 DEF Sext32, s, u

\* Multiplication and division of 32 bits.
LEMMA Op32MRight ==
  ASSUME NEW op \in Op32MNames, NEW a \in Words, NEW b \in Words, NEW x, NEW y,
         x = bytesToBigInt(a), y = bytesToBigInt(b)
  PROVE  WordComputes(Op32M(op, a, b), WordForms[op], x, y)
<1> DEFINE h == Power[HalfBits - 1]
           sx == ToSigned(x, HalfBits)
           sy == ToSigned(y, HalfBits)
           v0 == sx * sy
           v1 == DivideSigned(sx, sy, -h)
           v2 == RemainderSigned(sx, sy, -h)
           v3 == DivideUnsigned(Mod(x, HalfBits), Mod(y, HalfBits))
           v4 == RemainderUnsigned(Mod(x, HalfBits), Mod(y, HalfBits))
<1>1. x \in Int /\ y \in Int
  BY ValueRange
<1>2. /\ low32Signed(a) = sx /\ low32Signed(b) = sy
      /\ low32Unsigned(a) = Mod(x, HalfBits) /\ low32Unsigned(b) = Mod(y, HalfBits)
  BY LowHalf
<1>3. v1 \in Int /\ v2 \in Int /\ v3 \in Int /\ v4 \in Int
  BY <1>1, DivisionInteger
<1>4. CASE op = "mulw"
  <2>1. Op32M(op, a, b) = Sext32(v0)
    BY <1>2, <1>4 DEF Op32M
  <2>2. sx \in Int /\ sy \in Int /\ Same(sx, x, HalfBits) /\ Same(sy, y, HalfBits)
    BY <1>1, SignedIs
  <2> HIDE DEF sx, sy
  <2>3. Same(v0, x * y, HalfBits) /\ v0 \in Int
    <3>1. Same(sx * sy, x * y, HalfBits)
      BY <1>1, <2>2, SameSum
    <3>2. sx * sy \in Int
      BY <2>2
    <3>3. QED
      BY <3>1, <3>2
  <2> HIDE DEF v0
  <2>4. ASSUME NEW r \in Int, Same(r, v0, HalfBits) PROVE Manual("mul", x, y, HalfBits, r)
    <3>1. Same(r, x * y, HalfBits)
      BY <2>3, <2>4 DEF Same
    <3>2. QED
      BY <1>1, <3>1, ManualPlain
  <2>5. WordComputes(Sext32(v0), "mul", x, y)
    BY <2>3, <2>4, Sext32Right
  <2>6. QED
    BY <1>4, <2>1, <2>5 DEF WordForms
<1>5. CASE op = "divw"
  <2>1. Op32M(op, a, b) = Sext32(v1)
    BY <1>2, <1>5 DEF Op32M
  <2>2. ASSUME NEW r \in Int, Same(r, v1, HalfBits) PROVE Manual("div", x, y, HalfBits, r)
    BY <1>1, <2>2, ManualDivision
  <2> HIDE DEF v1
  <2>3. WordComputes(Sext32(v1), "div", x, y)
    BY <1>3, <2>2, Sext32Right
  <2>4. QED
    BY <1>5, <2>1, <2>3 DEF WordForms
<1>6. CASE op = "remw"
  <2>1. Op32M(op, a, b) = Sext32(v2)
    BY <1>2, <1>6 DEF Op32M
  <2>2. ASSUME NEW r \in Int, Same(r, v2, HalfBits) PROVE Manual("rem", x, y, HalfBits, r)
    BY <1>1, <2>2, ManualDivision
  <2> HIDE DEF v2
  <2>3. WordComputes(Sext32(v2), "rem", x, y)
    BY <1>3, <2>2, Sext32Right
  <2>4. QED
    BY <1>6, <2>1, <2>3 DEF WordForms
<1>7. CASE op = "divuw"
  <2>1. Op32M(op, a, b) = Sext32(v3)
    BY <1>2, <1>7 DEF Op32M
  <2>2. ASSUME NEW r \in Int, Same(r, v3, HalfBits) PROVE Manual("divu", x, y, HalfBits, r)
    BY <1>1, <2>2, ManualUnsigned
  <2> HIDE DEF v3
  <2>3. WordComputes(Sext32(v3), "divu", x, y)
    BY <1>3, <2>2, Sext32Right
  <2>4. QED
    BY <1>7, <2>1, <2>3 DEF WordForms
<1>8. CASE op = "remuw"
  <2>1. Op32M(op, a, b) = Sext32(v4)
    BY <1>2, <1>8 DEF Op32M
  <2>2. ASSUME NEW r \in Int, Same(r, v4, HalfBits) PROVE Manual("remu", x, y, HalfBits, r)
    BY <1>1, <2>2, ManualUnsigned
  <2> HIDE DEF v4
  <2>3. WordComputes(Sext32(v4), "remu", x, y)
    BY <1>3, <2>2, Sext32Right
  <2>4. QED
    BY <1>8, <2>1, <2>3 DEF WordForms
<1>9. QED
  BY <1>4, <1>5, <1>6, <1>7, <1>8 DEF Op32MNames

-----------------------------------------------------------------------------
\* The program counter, loads and stores.

\* The program counter and an offset.
LEMMA PcPlusIs ==
  ASSUME programCounter \in Words, NEW offset \in Int
  PROVE  /\ PcPlus(offset) \in Words
         /\ bytesToBigInt(PcPlus(offset)) = Mod(bytesToBigInt(programCounter) + offset, XLEN)
<1> DEFINE pc == bytesToBigInt(programCounter)
           b == unsignedBigIntToBytes(offset)
           p == Power[XLEN]
           o == offset % p
<1>1. b \in Words /\ bytesToBigInt(b) = o
  BY FromInteger
<1>2. pc \in Int /\ o \in Int
  BY <1>1, ValueRange
<1>3. Same(o, offset, XLEN) /\ Same(pc, pc, XLEN)
  BY SameRemainder DEF Same
<1>4. PcPlus(offset) \in Words /\ bytesToBigInt(PcPlus(offset)) = (pc + o) % p
  BY <1>1, AddIsSum DEF PcPlus
<1> HIDE DEF pc, o
<1>5. Same(pc + o, pc + offset, XLEN)
  BY <1>2, <1>3, SameSum
<1>6. QED
  BY <1>4, <1>5 DEF Same, Mod, pc

\* The sum of a register and an immediate.
LEMMA RegisterPlusIs ==
  ASSUME NEW a \in Words, NEW imm \in Int
  PROVE  /\ addBytes(a, unsignedBigIntToBytes(imm)) \in Words
         /\ bytesToBigInt(addBytes(a, unsignedBigIntToBytes(imm))) = Mod(bytesToBigInt(a) + imm, XLEN)
<1> DEFINE x == bytesToBigInt(a)
           b == unsignedBigIntToBytes(imm)
           p == Power[XLEN]
           o == imm % p
<1>1. b \in Words /\ bytesToBigInt(b) = o
  BY FromInteger
<1>2. x \in Int /\ o \in Int
  BY <1>1, ValueRange
<1>3. Same(o, imm, XLEN) /\ Same(x, x, XLEN)
  BY SameRemainder DEF Same
<1>4. addBytes(a, b) \in Words /\ bytesToBigInt(addBytes(a, b)) = (x + o) % p
  BY <1>1, AddIsSum
<1> HIDE DEF x, o
<1>5. Same(x + o, x + imm, XLEN)
  BY <1>2, <1>3, SameSum
<1>6. QED
  BY <1>4, <1>5 DEF Same, Mod, x

\* Clearing the low bit of the first byte clears that of the value.
LEMMA ClearLowBit ==
  ASSUME NEW t \in Words
  PROVE  /\ [t EXCEPT ![1] = @ - (@ % 2)] \in Words
         /\ bytesToBigInt([t EXCEPT ![1] = @ - (@ % 2)]) = 2 * (bytesToBigInt(t) \div 2)
<1> DEFINE u == [t EXCEPT ![1] = @ - (@ % 2)]
           b == t[1]
           n == Count - 1
           T == Tops(t)[n]
           v == bytesToBigInt(t)
           h == Power[ByteBits - 1]
<1>1. Count \in Nat \ {0} /\ Sizes = 1 .. Count /\ 1 \in Sizes /\ Base \in Nat \ {0} /\ n \in 0 .. Count
      /\ Count \in 1 .. Count /\ 1 \in 0 .. Count /\ Count + 1 - Count = 1
  BY Widths, Weights DEF Sizes
<1>2. b \in 0 .. Base - 1 /\ b - (b % 2) \in 0 .. Base - 1 /\ b % 2 \in 0 .. 1
  <2>1. b \in 0 .. Base - 1
    BY <1>1 DEF Words
  <2> HIDE DEF b
  <2>2. QED
    BY <1>1, <2>1
<1>3. u \in Words /\ u[1] = b - (b % 2) /\ \A i \in Sizes : i # 1 => u[i] = t[i]
  BY <1>1, <1>2 DEF Words
<1> HIDE DEF u
<1>4. AgreeAbove(u, t, 1)
  BY <1>1, <1>3 DEF AgreeAbove
<1>5. Tops(u)[n] = T
  <2>1. n \in 0 .. Count - 1
    BY <1>1
  <2> HIDE DEF n
  <2>2. QED
    BY <1>1, <1>3, <1>4, <2>1, SameTops
<1>6. v = T * Base + b /\ bytesToBigInt(u) = T * Base + u[1] /\ T \in Int
  <2>1. T \in Int
    BY <1>1, TopRange
  <2>2. v = Tops(t)[Count] /\ Tops(t)[Count] = Tops(t)[Count - 1] * Base + t[1]
    BY <1>1, TopRange, TopValues
  <2>3. bytesToBigInt(u) = Tops(u)[Count] /\ Tops(u)[Count] = Tops(u)[Count - 1] * Base + u[1]
    BY <1>1, <1>3, TopRange, TopValues
  <2>4. QED
    BY <1>5, <2>1, <2>2, <2>3
<1>7. Base = 2 * h /\ h \in Nat
  <2>1. 1 \in 1 .. Count /\ ByteBits * 1 = ByteBits
    BY <1>1, Widths
  <2>2. Power[ByteBits * 1 - 1] \in Nat \ {0} /\ Weight[1] = 2 * Power[ByteBits * 1 - 1]
    BY <2>1, HalfWeight
  <2>3. Weight[1] = Base
    BY Weights
  <2>4. QED
    BY <2>1, <2>2, <2>3
<1> HIDE DEF T, b, v, h
<1> DEFINE g == T * h
           c == b % 2
           d == b \div 2
<1>8. g \in Int /\ T * Base = 2 * g /\ b \in Int
  BY <1>2, <1>6, <1>7
<1>9. b = 2 * d + c /\ d \in Int /\ c \in 0 .. 1
  BY <1>8
<1> HIDE DEF g, c, d
<1>10. v = 2 * (g + d) + c
  BY <1>6, <1>8, <1>9
<1>11. v \div 2 = g + d
  BY <1>8, <1>9, <1>10
<1>12. bytesToBigInt(u) = 2 * (g + d)
  BY <1>2, <1>3, <1>6, <1>8, <1>9 DEF c
<1>13. QED
  BY <1>3, <1>11, <1>12 DEF u, v

\* Two numbers with the same low n bytes.
LEMMA BytesSame ==
  ASSUME NEW n \in 1 .. Count, NEW v \in Int, NEW r \in Int, r % Weight[n] = v % Weight[n]
  PROVE  Mod(r - v, ByteBits * n) = 0 /\ ToSigned(r, ByteBits * n) = ToSigned(v, ByteBits * n)
         /\ Mod(r, ByteBits * n) = Mod(v, ByteBits * n)
<1> DEFINE w == Weight[n]
           bits == ByteBits * n
<1>1. w = Power[bits] /\ w \in Nat \ {0}
  BY HalfWeight, Weights
<1>2. r % w = v % w
  OBVIOUS
<1> HIDE DEF w, bits
<1>3. (r - v) % w = 0
  BY <1>1, <1>2, Congruent
<1>4. QED
  BY <1>1, <1>2, <1>3 DEF Mod, ToSigned, w, bits

\* What a load leaves in its register.
LEMMA LoadRight ==
  ASSUME NEW a \in Words, NEW n \in 1 .. Count, NEW z, z = zeroExtendBytes(a, n)
  PROVE  /\ z \in Words /\ bytesToBigInt(z) = Mod(bytesToBigInt(a), ByteBits * n)
         /\ bytesToBigInt(z) % Weight[n] = bytesToBigInt(a) % Weight[n]
         /\ signExtendBytes(z, n) \in Words
         /\ bytesToBigInt(signExtendBytes(z, n)) = Mod(ToSigned(bytesToBigInt(a), ByteBits * n), XLEN)
<1> DEFINE w == Weight[n]
           m == bytesToBigInt(a)
           v == bytesToBigInt(z)
<1>1. n \in 0 .. Count /\ Weight[n] = Power[ByteBits * n] /\ w \in Nat \ {0}
  BY HalfWeight, Weights
<1>2. z \in Words /\ v = m % w
  BY <1>1, Split
<1>3. m \in Int /\ v \in Int
  BY <1>2, ValueRange
<1>4. v % w = m % w
  <2> HIDE DEF w, m, v
  <2>1. v \in 0 .. w - 1
    BY <1>1, <1>2, <1>3, Euclid
  <2>2. v % w = v
    BY <1>1, <2>1, Small
  <2>3. QED
    BY <1>2, <2>2
<1>5. ToSigned(v, ByteBits * n) = ToSigned(m, ByteBits * n)
  BY <1>3, <1>4, BytesSame
<1>6. /\ signExtendBytes(z, n) \in Words
      /\ bytesToBigInt(signExtendBytes(z, n)) = ToSigned(v, ByteBits * n) % Power[XLEN]
  BY <1>2, SignExtend
<1>7. QED
  BY <1>1, <1>2, <1>4, <1>5, <1>6 DEF Mod

\* What a store leaves in memory.
StoredBytes(value, old, n) == [k \in Sizes |-> IF k <= n THEN value[k] ELSE old[k]]

LEMMA StoreRight ==
  ASSUME NEW a \in Words, NEW old \in Words, NEW n \in 1 .. Count
  PROVE  /\ StoredBytes(a, old, n) \in Words
         /\ bytesToBigInt(StoredBytes(a, old, n)) \div Power[ByteBits * n]
              = bytesToBigInt(old) \div Power[ByteBits * n]
         /\ bytesToBigInt(StoredBytes(a, old, n)) % Weight[n] = bytesToBigInt(a) % Weight[n]
<1> DEFINE s == StoredBytes(a, old, n)
<1>1. n \in 0 .. Count /\ Weight[n] = Power[ByteBits * n]
  BY HalfWeight
<1>2. s \in Words
  BY DEF StoredBytes, Words
<1>3. Agree(s, a, n)
  BY DEF StoredBytes, Agree
<1>4. AgreeAbove(s, old, n)
  <2> SUFFICES ASSUME NEW i \in Sizes, i > n PROVE s[i] = old[i]
    BY DEF AgreeAbove
  <2>1. ~(i <= n)
    BY <1>1 DEF Sizes
  <2>2. QED
    BY <2>1 DEF StoredBytes
<1> HIDE DEF s
<1>5. bytesToBigInt(s) % Weight[n] = bytesToBigInt(a) % Weight[n]
  BY <1>1, <1>2, <1>3, SameLow
<1>6. Tops(s)[Count - n] = Tops(old)[Count - n]
  <2>1. Count - n \in 0 .. Count - n
    BY <1>1, Widths
  <2>2. QED
    BY <1>1, <1>2, <1>4, <2>1, SameTops
<1>7. Tops(s)[Count - n] = bytesToBigInt(s) \div Weight[n]
  BY <1>1, <1>2, Split
<1>8. Tops(old)[Count - n] = bytesToBigInt(old) \div Weight[n]
  BY <1>1, Split
<1>9. QED
  BY <1>1, <1>2, <1>5, <1>6, <1>7, <1>8 DEF s

-----------------------------------------------------------------------------
\* The atomic memory operations.

\* Numbers with the same low bits have the same bit k below them.
LEMMA BitOfLow ==
  ASSUME NEW bits \in {HalfBits, XLEN}, NEW v \in Nat, NEW u \in Nat, Same(v, u, bits),
         NEW k \in 0 .. bits - 1
  PROVE  Bit(v, k) = Bit(u, k)
<1> DEFINE p == Power[bits]
           o == Power[k]
           l == (bits - k) - 1
           m == Power[l]
           h == u \div o
<1>1. p \in Nat \ {0} /\ bits \in 1 .. XLEN /\ v % p = u % p
  BY BitsAre DEF Same
<1>2. p = o * (2 * m) /\ o \in Nat \ {0} /\ m \in Nat \ {0}
  <2>1. l \in Nat /\ l + 1 \in Nat /\ k + (l + 1) = bits /\ k \in Nat /\ l \in 0 .. XLEN /\ l + 1 \in 1 .. XLEN
        /\ (l + 1) - 1 = l /\ k + (l + 1) <= XLEN /\ k \in 0 .. XLEN
    BY <1>1, Widths
  <2> HIDE DEF l
  <2>2. Power[k + (l + 1)] = Power[k] * Power[l + 1]
    BY <2>1, PowerSum
  <2>3. Power[l + 1] = 2 * Power[l] /\ Power[l] \in Nat \ {0} /\ Power[k] \in Nat \ {0}
    BY <2>1, PowerValues
  <2>4. QED
    BY <2>1, <2>2, <2>3
<1> HIDE DEF p, o, m
<1>10. v \in Int /\ u \in Int
  OBVIOUS
<1>3. PICK j \in Int : v = u + p * j
  BY <1>1, <1>10, Congruent
<1> DEFINE g == m * j
           g2 == 2 * g
<1>4. g \in Int /\ p * j = o * g2 /\ h \in Int /\ g2 \in Int
  BY <1>2, <1>3, Euclid
<1>5. v = u + o * g2
  BY <1>3, <1>4
<1>6. (u + o * g2) \div o = h + g2
  <2> HIDE DEF g2
  <2>1. (u + o * g2) \div o = (u \div o) + g2
    BY <1>2, <1>4, <1>10, AddMultiple
  <2>2. QED
    BY <2>1
<1> HIDE DEF g, h
<1>7. (h + 2 * g) % 2 = h % 2
  BY <1>4
<1>8. v \div o = h + 2 * g
  BY <1>5, <1>6
<1>9. QED
  BY <1>7, <1>8 DEF Bit, o, h

\* The low bits of the operands decide those of the conjunction.
LEMMA BothSame ==
  ASSUME NEW bits \in {HalfBits, XLEN}, NEW x \in Nat, NEW y \in Nat, NEW u \in Nat, NEW v \in Nat,
         Same(u, x, bits), Same(v, y, bits)
  PROVE  BitsBoth(x, y) \in Nat /\ BitsBoth(u, v) \in Nat /\ Same(BitsBoth(u, v), BitsBoth(x, y), bits)
<1> DEFINE z == BitsBoth(x, y)
           w == BitsBoth(u, v)
           p == Power[bits]
<1>1. bits \in 0 .. XLEN /\ XLEN \in 0 .. XLEN /\ bits \in 1 .. XLEN /\ XLEN \in Nat
  BY BitsAre, Widths
<1>2. z \in 0 .. Power[XLEN] - 1
  BY <1>1, TablesAre, BitwiseBits DEF BitsBoth
<1>3. w \in 0 .. Power[XLEN] - 1
  BY <1>1, TablesAre, BitwiseBits DEF BitsBoth
<1>4. \A k \in 0 .. XLEN - 1 : Bit(z, k) = TableEntry(And, x, y, k)
  BY <1>1, TablesAre, BitwiseBits DEF BitsBoth
<1>5. \A k \in 0 .. XLEN - 1 : Bit(w, k) = TableEntry(And, u, v, k)
  BY <1>1, TablesAre, BitwiseBits DEF BitsBoth
<1>6. z \in Nat /\ w \in Nat
  BY <1>2, <1>3
<1> HIDE DEF z, w
<1>7. \A k \in 0 .. bits - 1 : k \in 0 .. XLEN - 1
  BY <1>1
<1>8. \A k \in 0 .. bits - 1 : TableEntry(And, u, v, k) = TableEntry(And, x, y, k)
  <2>1. \A k \in 0 .. bits - 1 : Bit(u, k) = Bit(x, k) /\ Bit(v, k) = Bit(y, k)
    BY BitOfLow
  <2>2. QED
    BY <2>1 DEF TableEntry
<1>9. Bitwise(And, x, y, bits) = z % p
  <2>1. \A k \in 0 .. bits - 1 : Bit(z, k) = TableEntry(And, x, y, k)
    BY <1>4, <1>7
  <2>2. QED
    BY <1>1, <1>6, <2>1, TablesAre, BitwiseIs
<1>10. Bitwise(And, x, y, bits) = w % p
  <2>1. \A k \in 0 .. bits - 1 : Bit(w, k) = TableEntry(And, x, y, k)
    BY <1>5, <1>7, <1>8
  <2>2. QED
    BY <1>1, <1>6, <2>1, TablesAre, BitwiseIs
<1>11. QED
  BY <1>6, <1>9, <1>10 DEF Same, z, w

\* What an AMO makes of the old value m and the operand x.
AmoManual(name, m, x, bits) ==
    LET SignedMin == IF ToSigned(m, bits) < ToSigned(x, bits) THEN m ELSE x
        UnsignedMin == IF Mod(m, bits) < Mod(x, bits) THEN m ELSE x
    IN CASE name = "amoswap" -> x
         [] name = "amoadd" -> m + x
         [] name = "amoxor" -> m + x - 2 * BitsBoth(m, x)
         [] name = "amoand" -> BitsBoth(m, x)
         [] name = "amoor" -> m + x - BitsBoth(m, x)
         [] name = "amomin" -> SignedMin
         [] name = "amomax" -> m + x - SignedMin
         [] name = "amominu" -> UnsignedMin
         [] name = "amomaxu" -> m + x - UnsignedMin

\* The operands of an AMO, extended from its width.
LEMMA OperandIs ==
  ASSUME NEW a \in Words, NEW n \in {Half, Count}, NEW bits, bits = ByteBits * n
  PROVE  /\ signExtendBytes(a, n) \in Words /\ zeroExtendBytes(a, n) \in Words
         /\ Same(bytesToBigInt(signExtendBytes(a, n)), bytesToBigInt(a), bits)
         /\ ToSigned(bytesToBigInt(signExtendBytes(a, n)), XLEN) = ToSigned(bytesToBigInt(a), bits)
         /\ Same(bytesToBigInt(zeroExtendBytes(a, n)), bytesToBigInt(a), bits)
         /\ bytesToBigInt(zeroExtendBytes(a, n)) = Mod(bytesToBigInt(a), bits)
<1> DEFINE v == bytesToBigInt(a)
           s == bytesToBigInt(signExtendBytes(a, n))
           t == ToSigned(v, bits)
<1>1. bits \in {HalfBits, XLEN} /\ n \in 1 .. Count
  BY Widths
<1>2. Weight[n] = Power[bits]
  BY <1>1, HalfWeight
<1>3. /\ zeroExtendBytes(a, n) \in Words
      /\ bytesToBigInt(zeroExtendBytes(a, n)) = Mod(v, bits)
      /\ Same(bytesToBigInt(zeroExtendBytes(a, n)), v, bits)
  <2> DEFINE z == zeroExtendBytes(a, n)
  <2> HIDE DEF z
  <2>1. z = zeroExtendBytes(a, n)
    BY DEF z
  <2>2. z \in Words /\ bytesToBigInt(z) = Mod(v, ByteBits * n) /\ bytesToBigInt(z) % Weight[n] = v % Weight[n]
    BY <1>1, <2>1, LoadRight
  <2>3. QED
    BY <1>2, <2>1, <2>2 DEF Same
<1>4. signExtendBytes(a, n) \in Words /\ s = t % Power[XLEN]
  BY <1>1, SignExtend
<1>5. v \in Int /\ s \in Int
  BY <1>4, ValueRange
<1>6. t \in Int /\ t >= 0 - Power[bits - 1] /\ t < Power[bits - 1] /\ Same(t, v, bits)
  BY <1>1, <1>5, SignedIs
<1> HIDE DEF v, s, t
<1>7. Same(s, t, bits) /\ Same(s, t, XLEN)
  BY <1>1, <1>4, <1>6, SameRemainder
<1>8. Power[bits - 1] <= Power[XLEN - 1] /\ Power[bits - 1] \in Int /\ Power[XLEN - 1] \in Int
  <2>1. Power[bits - 1] \in Nat \ {0} /\ Power[XLEN - 1] \in Nat \ {0} /\ Power[HalfBits] \in Nat \ {0}
    BY <1>1, BitsAre
  <2>2. CASE bits = XLEN
    BY <2>1, <2>2
  <2>3. CASE bits = HalfBits
    <3> DEFINE k == HalfBits - 1
               h == Power[k]
               p == Power[HalfBits]
    <3>1. k \in Nat /\ HalfBits \in Nat /\ k + HalfBits = XLEN - 1 /\ k + HalfBits <= XLEN
      BY Widths
    <3> HIDE DEF k
    <3>2. Power[k + HalfBits] = h * p
      BY <3>1, PowerSum
    <3>3. h \in Nat \ {0} /\ p \in Nat \ {0}
      BY <2>1, <2>3 DEF k
    <3> HIDE DEF h, p
    <3>4. h * 1 <= h * p
      BY <3>3, Monotone
    <3>5. h <= h * p
      BY <3>3, <3>4
    <3>6. QED
      BY <2>1, <2>3, <3>1, <3>2, <3>5 DEF h, k
  <2>4. QED
    BY <1>1, <2>2, <2>3
<1>9. t >= 0 - Power[XLEN - 1] /\ t < Power[XLEN - 1]
  BY <1>6, <1>8
<1>10. Same(t, s, XLEN)
  BY <1>7 DEF Same
<1>11. ToSigned(s, XLEN) = t
  BY <1>5, <1>6, <1>9, <1>10, SignedOnly
<1>12. Same(s, v, bits)
  BY <1>6, <1>7 DEF Same
<1>13. QED
  BY <1>3, <1>4, <1>11, <1>12 DEF s, t, v

\* The operand q of an AMO of n bytes, extended from its width.
OperandSound(q, n, bits) ==
    /\ signExtendBytes(q, n) \in Words /\ zeroExtendBytes(q, n) \in Words
    /\ Same(bytesToBigInt(signExtendBytes(q, n)), bytesToBigInt(q), bits)
    /\ ToSigned(bytesToBigInt(signExtendBytes(q, n)), XLEN) = ToSigned(bytesToBigInt(q), bits)
    /\ Same(bytesToBigInt(zeroExtendBytes(q, n)), bytesToBigInt(q), bits)
    /\ bytesToBigInt(zeroExtendBytes(q, n)) = Mod(bytesToBigInt(q), bits)

LEMMA OperandsAre ==
  \A n \in {Half, Count} : \A bits : bits = ByteBits * n => \A q \in Words : OperandSound(q, n, bits)
<1> SUFFICES ASSUME NEW n \in {Half, Count}, NEW bits, bits = ByteBits * n, NEW q \in Words
             PROVE  OperandSound(q, n, bits)
  OBVIOUS
<1> QED
  BY OperandIs DEF OperandSound

\* What an AMO leaves in memory has the low bits that the manual says.
LEMMA AmoRight ==
  ASSUME NEW name \in AmoNames, NEW a \in Words, NEW s \in Words, NEW n \in {Half, Count},
         NEW bits, bits = ByteBits * n,
         NEW z \in Words, Same(bytesToBigInt(z), bytesToBigInt(a), bits)
  PROVE  /\ AmoCombine(name, z, s, n) \in Words
         /\ Same(bytesToBigInt(AmoCombine(name, z, s, n)),
                 AmoManual(name, bytesToBigInt(a), bytesToBigInt(s), bits), bits)
<1> DEFINE m == bytesToBigInt(a)
           x == bytesToBigInt(s)
           vz == bytesToBigInt(z)
           l == signExtendBytes(z, n)
           r == signExtendBytes(s, n)
           lu == zeroExtendBytes(z, n)
           ru == zeroExtendBytes(s, n)
           vl == bytesToBigInt(l)
           vr == bytesToBigInt(r)
           vlu == bytesToBigInt(lu)
           vru == bytesToBigInt(ru)
           w == AmoCombine(name, z, s, n)
           v == bytesToBigInt(w)
<1>1. bits \in {HalfBits, XLEN}
  BY Widths
<1>2. Same(vz, m, bits)
  OBVIOUS
<1>3. m \in Int /\ x \in Int /\ vz \in Int /\ x \in Nat /\ m \in Nat
  BY <1>2, ValueRange
<1>39. \A q \in Words : OperandSound(q, n, bits)
  <2>1. n \in {Half, Count} /\ bits = ByteBits * n
    OBVIOUS
  <2>2. QED
    BY <2>1, OperandsAre
<1>40. OperandSound(z, n, bits) /\ OperandSound(s, n, bits)
  BY <1>39
<1>4. l \in Words /\ Same(vl, vz, bits) /\ ToSigned(vl, XLEN) = ToSigned(vz, bits)
  BY <1>40 DEF OperandSound
<1>5. r \in Words /\ Same(vr, x, bits) /\ ToSigned(vr, XLEN) = ToSigned(x, bits)
  BY <1>40 DEF OperandSound
<1>6. lu \in Words /\ Same(vlu, vz, bits) /\ vlu = Mod(vz, bits)
  BY <1>40 DEF OperandSound
<1>7. ru \in Words /\ Same(vru, x, bits) /\ vru = Mod(x, bits)
  BY <1>40 DEF OperandSound
<1>8. ToSigned(vz, bits) = ToSigned(m, bits) /\ Mod(vz, bits) = Mod(m, bits)
  BY <1>2 DEF ToSigned, Mod, Same
<1>9. Same(vl, m, bits) /\ Same(vlu, m, bits)
  BY <1>2, <1>4, <1>6 DEF Same
<1>10. vl \in Int /\ vr \in Int /\ vl \in Nat /\ vr \in Nat /\ vlu \in Int /\ vru \in Int
  BY <1>4, <1>5, <1>6, <1>7, ValueRange
<1>11. compareSignedBytes(l, r) = Order(ToSigned(m, bits), ToSigned(x, bits))
  BY <1>4, <1>5, <1>8, CompareIsSignedOrder
<1>12. compareUnsignedBytes(lu, ru) = Order(Mod(m, bits), Mod(x, bits))
  BY <1>6, <1>7, <1>8, CompareIsOrder
<1>13. ToSigned(m, bits) \in Int /\ ToSigned(x, bits) \in Int
       /\ Same(ToSigned(m, bits), m, bits) /\ Same(ToSigned(x, bits), x, bits)
  BY <1>1, <1>3, SignedIs
<1>14. Mod(m, bits) \in Int /\ Mod(x, bits) \in Int /\ Same(Mod(m, bits), m, bits) /\ Same(Mod(x, bits), x, bits)
  BY <1>6, <1>7, <1>8, <1>9, <1>10
<1> HIDE DEF m, x, vz, l, r, lu, ru, vl, vr, vlu, vru
<1>15. ASSUME ToSigned(m, bits) = ToSigned(x, bits) PROVE Same(m, x, bits)
  BY <1>13, <1>15 DEF Same
<1>16. ASSUME Mod(m, bits) = Mod(x, bits) PROVE Same(m, x, bits)
  BY <1>16 DEF Same, Mod
<1>17. w = IF name = "amoswap" THEN s ELSE IF name = "amoadd" THEN addBytes(l, r)
           ELSE IF name = "amoxor" THEN xorBytes(l, r) ELSE IF name = "amoand" THEN andBytes(l, r)
           ELSE IF name = "amoor" THEN orBytes(l, r)
           ELSE IF name = "amomin" THEN IF compareSignedBytes(l, r) <= 0 THEN l ELSE r
           ELSE IF name = "amomax" THEN IF compareSignedBytes(l, r) >= 0 THEN l ELSE r
           ELSE IF name = "amominu" THEN IF compareUnsignedBytes(lu, ru) <= 0 THEN lu ELSE ru
           ELSE IF compareUnsignedBytes(lu, ru) >= 0 THEN lu ELSE ru
  BY DEF AmoCombine, AmoNames, UnsignedAmos, asSignedOperand, asUnsignedOperand, l, r, lu, ru
<1>18. v = bytesToBigInt(w)
  OBVIOUS
<1> HIDE DEF w, v
<1>19. CASE name = "amoswap"
  <2>1. w = s /\ AmoManual(name, m, x, bits) = x
    BY <1>17, <1>19 DEF AmoManual
  <2>2. QED
    BY <2>1, <1>18 DEF Same, x, m, w
<1>20. CASE name = "amoadd"
  <2>1. w = addBytes(l, r) /\ AmoManual(name, m, x, bits) = m + x
    BY <1>17, <1>20 DEF AmoManual
  <2>2. w \in Words /\ v = (vl + vr) % Power[XLEN]
    BY <1>4, <1>5, <1>18, <2>1, AddIsSum DEF vl, vr
  <2>3. Same(vl + vr, m + x, bits)
    BY ZenonT(40), <1>1, <1>3, <1>5, <1>9, <1>10, SameSum
  <2>4. vl + vr \in Int
    BY <1>10
  <2>5. Same(v, vl + vr, bits)
    BY <1>1, <2>2, <2>4, SameRemainder
  <2>6. Same(v, m + x, bits)
    BY <2>3, <2>5 DEF Same
  <2>7. QED
    BY <1>18, <2>1, <2>2, <2>6 DEF w, m, x
<1>21. BitsBoth(m, x) \in Nat /\ BitsBoth(vl, vr) \in Nat /\ Same(BitsBoth(vl, vr), BitsBoth(m, x), bits)
  BY <1>1, <1>3, <1>5, <1>9, <1>10, BothSame
<1> DEFINE bo == BitsBoth(m, x)
           bl == BitsBoth(vl, vr)
<1>22. /\ andBytes(l, r) \in Words /\ orBytes(l, r) \in Words /\ xorBytes(l, r) \in Words
       /\ bytesToBigInt(andBytes(l, r)) = bl
       /\ bytesToBigInt(orBytes(l, r)) = vl + vr - bl
       /\ bytesToBigInt(xorBytes(l, r)) = vl + vr - 2 * bl
  BY <1>4, <1>5, BitwiseIsManual DEF vl, vr
<1>23. bo \in Int /\ bl \in Int /\ Same(bl, bo, bits)
  BY <1>21
<1> HIDE DEF bo, bl
<1>24. Same(vl + vr, m + x, bits) /\ vl + vr \in Int /\ m + x \in Int
  <2>1. Same(vl + vr, m + x, bits)
    BY ZenonT(40), <1>1, <1>3, <1>5, <1>9, <1>10, SameSum
  <2>2. QED
    BY <1>3, <1>10, <2>1
<1>25. Same(2 * bl, 2 * bo, bits) /\ 2 * bl \in Int /\ 2 * bo \in Int
  <2>1. \A t \in Int : Same(t, t, bits)
    BY DEF Same
  <2> DEFINE t == 2
  <2>4. t \in Int
    OBVIOUS
  <2> HIDE DEF t
  <2>5. Same(t, t, bits)
    BY <2>1, <2>4
  <2>6. Same(t * bl, t * bo, bits)
    BY <1>1, <1>23, <2>4, <2>5, SameSum
  <2>2. Same(2 * bl, 2 * bo, bits)
    BY <2>6 DEF t
  <2>3. QED
    BY <1>23, <2>2
<1> DEFINE sl == vl + vr
           sm == m + x
           dl == 2 * bl
           dm == 2 * bo
<1> HIDE DEF sl, sm, dl, dm
<1>26. sl \in Int /\ sm \in Int /\ dl \in Int /\ dm \in Int /\ Same(sl, sm, bits) /\ Same(dl, dm, bits)
  BY <1>24, <1>25 DEF sl, sm, dl, dm
<1>27. Same(sl - bl, sm - bo, bits) /\ Same(sl - dl, sm - dm, bits)
  BY ZenonT(40), <1>1, <1>23, <1>26, SameSum
<1>38. bytesToBigInt(orBytes(l, r)) = sl - bl /\ bytesToBigInt(xorBytes(l, r)) = sl - dl
       /\ m + x - bo = sm - bo /\ m + x - 2 * bo = sm - dm
  <2>1. bytesToBigInt(orBytes(l, r)) = sl - bl /\ bytesToBigInt(xorBytes(l, r)) = sl - dl
    BY <1>10, <1>22, <1>23 DEF sl, dl
  <2>2. m + x - bo = sm - bo /\ m + x - 2 * bo = sm - dm
    BY <1>3, <1>23 DEF sm, dm
  <2>3. QED
    BY <2>1, <2>2
<1>28. CASE name = "amoxor"
  <2>1. w = xorBytes(l, r) /\ AmoManual(name, m, x, bits) = m + x - 2 * bo
    BY <1>17, <1>28 DEF AmoManual, bo
  <2>2. QED
    BY <1>18, <1>22, <1>27, <1>38, <2>1 DEF w, m, x
<1>29. CASE name = "amoand"
  <2>1. w = andBytes(l, r) /\ AmoManual(name, m, x, bits) = bo
    BY <1>17, <1>29 DEF AmoManual, bo
  <2>2. QED
    BY <1>18, <1>22, <1>23, <2>1 DEF w, m, x
<1>30. CASE name = "amoor"
  <2>1. w = orBytes(l, r) /\ AmoManual(name, m, x, bits) = m + x - bo
    BY <1>17, <1>30 DEF AmoManual, bo
  <2>2. QED
    BY <1>18, <1>22, <1>27, <1>38, <2>1 DEF w, m, x
<1>31. m + x - m = x /\ m + x - x = m
  BY <1>3
<1> DEFINE tm == ToSigned(m, bits)
           tx == ToSigned(x, bits)
           um == Mod(m, bits)
           ux == Mod(x, bits)
<1>32. tm \in Int /\ tx \in Int /\ um \in Int /\ ux \in Int
  BY <1>13, <1>14
<1>33. CASE name = "amomin"
  <2>1. w = IF compareSignedBytes(l, r) <= 0 THEN l ELSE r
    BY <1>17, <1>33
  <2>2. AmoManual(name, m, x, bits) = IF tm < tx THEN m ELSE x
    BY <1>33 DEF AmoManual
  <2> HIDE DEF tm, tx
  <2>3. CASE tm < tx
    <3>1. Order(tm, tx) <= 0
      BY <1>32, <2>3 DEF Order
    <3>2. w = l
      BY <1>11, <2>1, <3>1 DEF tm, tx
    <3>3. QED
      BY <1>4, <1>9, <1>18, <2>2, <2>3, <3>2 DEF vl, w, m, x
  <2>4. CASE tm = tx
    <3>1. Order(tm, tx) <= 0 /\ ~(tm < tx)
      BY <1>32, <2>4 DEF Order
    <3>2. w = l /\ Same(m, x, bits)
      BY <1>11, <1>15, <2>1, <2>4, <3>1 DEF tm, tx
    <3>3. Same(vl, x, bits)
      BY <1>9, <3>2 DEF Same
    <3>4. QED
      BY <1>4, <1>18, <2>2, <3>1, <3>2, <3>3 DEF vl, w, m, x
  <2>5. CASE tm > tx
    <3>1. ~(Order(tm, tx) <= 0) /\ ~(tm < tx)
      BY <1>32, <2>5 DEF Order
    <3>2. w = r
      BY <1>11, <2>1, <3>1 DEF tm, tx
    <3>3. QED
      BY <1>5, <1>18, <2>2, <3>1, <3>2 DEF vr, w, m, x
  <2>6. QED
    BY <1>32, <2>3, <2>4, <2>5
<1>34. CASE name = "amomax"
  <2>1. w = IF compareSignedBytes(l, r) >= 0 THEN l ELSE r
    BY <1>17, <1>34
  <2>2. AmoManual(name, m, x, bits) = IF tm < tx THEN x ELSE m
    <3>1. AmoManual(name, m, x, bits) = m + x - (IF tm < tx THEN m ELSE x)
      BY <1>34 DEF AmoManual
    <3>2. QED
      BY <1>31, <3>1
  <2> HIDE DEF tm, tx
  <2>3. CASE tm < tx
    <3>1. ~(Order(tm, tx) >= 0)
      BY <1>32, <2>3 DEF Order
    <3>2. w = r
      BY <1>11, <2>1, <3>1 DEF tm, tx
    <3>3. QED
      BY <1>5, <1>18, <2>2, <2>3, <3>2 DEF vr, w, m, x
  <2>4. CASE ~(tm < tx)
    <3>1. Order(tm, tx) >= 0
      BY <1>32, <2>4 DEF Order
    <3>2. w = l
      BY <1>11, <2>1, <3>1 DEF tm, tx
    <3>3. QED
      BY <1>4, <1>9, <1>18, <2>2, <2>4, <3>2 DEF vl, w, m, x
  <2>5. QED
    BY <2>3, <2>4
<1>35. CASE name = "amominu"
  <2>1. w = IF compareUnsignedBytes(lu, ru) <= 0 THEN lu ELSE ru
    BY <1>17, <1>35
  <2>2. AmoManual(name, m, x, bits) = IF um < ux THEN m ELSE x
    BY <1>35 DEF AmoManual
  <2> HIDE DEF um, ux
  <2>3. CASE um < ux
    <3>1. Order(um, ux) <= 0
      BY <1>32, <2>3 DEF Order
    <3>2. w = lu
      BY <1>12, <2>1, <3>1 DEF um, ux
    <3>3. QED
      BY <1>6, <1>9, <1>18, <2>2, <2>3, <3>2 DEF vlu, w, m, x
  <2>4. CASE um = ux
    <3>1. Order(um, ux) <= 0 /\ ~(um < ux)
      BY <1>32, <2>4 DEF Order
    <3>2. w = lu /\ Same(m, x, bits)
      BY <1>12, <1>16, <2>1, <2>4, <3>1 DEF um, ux
    <3>3. Same(vlu, x, bits)
      BY <1>9, <3>2 DEF Same
    <3>4. QED
      BY <1>6, <1>18, <2>2, <3>1, <3>2, <3>3 DEF vlu, w, m, x
  <2>5. CASE um > ux
    <3>1. ~(Order(um, ux) <= 0) /\ ~(um < ux)
      BY <1>32, <2>5 DEF Order
    <3>2. w = ru
      BY <1>12, <2>1, <3>1 DEF um, ux
    <3>3. QED
      BY <1>7, <1>18, <2>2, <3>1, <3>2 DEF vru, w, m, x
  <2>6. QED
    BY <1>32, <2>3, <2>4, <2>5
<1>36. CASE name = "amomaxu"
  <2>1. w = IF compareUnsignedBytes(lu, ru) >= 0 THEN lu ELSE ru
    BY <1>17, <1>36
  <2>2. AmoManual(name, m, x, bits) = IF um < ux THEN x ELSE m
    <3>1. AmoManual(name, m, x, bits) = m + x - (IF um < ux THEN m ELSE x)
      BY <1>36 DEF AmoManual
    <3>2. QED
      BY <1>31, <3>1
  <2> HIDE DEF um, ux
  <2>3. CASE um < ux
    <3>1. ~(Order(um, ux) >= 0)
      BY <1>32, <2>3 DEF Order
    <3>2. w = ru
      BY <1>12, <2>1, <3>1 DEF um, ux
    <3>3. QED
      BY <1>7, <1>18, <2>2, <2>3, <3>2 DEF vru, w, m, x
  <2>4. CASE ~(um < ux)
    <3>1. Order(um, ux) >= 0
      BY <1>32, <2>4 DEF Order
    <3>2. w = lu
      BY <1>12, <2>1, <3>1 DEF um, ux
    <3>3. QED
      BY <1>6, <1>9, <1>18, <2>2, <2>4, <3>2 DEF vlu, w, m, x
  <2>5. QED
    BY <2>3, <2>4
<1>37. QED
  BY <1>19, <1>20, <1>28, <1>29, <1>30, <1>33, <1>34, <1>35, <1>36 DEF AmoNames

-----------------------------------------------------------------------------
\* Which instruction is which.

\* The registers, the program counter and memory hold words.
AluTyped ==
    /\ generalPurpose \in [Registers -> Words]
    /\ programCounter \in Words
    /\ addressed \in Words

\* The decoder's fields.
LEMMA FieldsAre ==
  ASSUME NEW i \in Program
  PROVE  /\ i.rd \in Registers /\ i.rs1 \in Registers /\ i.rs2 \in Registers
         /\ i.imm \in Int /\ i.length \in Int
         /\ i.op \in OpImmShiftNames => i.imm \in 0 .. XLEN - 1
         /\ i.op \in OpImm32Names /\ i.op # "addiw" => i.imm \in 0 .. HalfBits - 1
<1>1. {i.rd, i.rs1, i.rs2} \subseteq Registers /\ i.imm \in Int /\ i.length \in Int
  BY InstructionAssumption DEF InstructionAssumption
<1>2. i.op \in OpImmShiftNames => i.imm \in 0 .. XLEN - 1
  BY InstructionAssumption DEF InstructionAssumption
<1>3. i.op \in OpImm32Names \ {"addiw"} => i.imm \in 0 .. HalfBits - 1
  BY InstructionAssumption DEF InstructionAssumption
<1>4. QED
  BY <1>1, <1>2, <1>3

\* What the write of a register leaves.
LEMMA WriteFrame ==
  ASSUME generalPurpose \in [Registers -> Words], NEW d \in Registers, NEW v \in Words,
         writeGeneralPurposeRegister(d, v)
  PROVE  /\ generalPurpose' \in [Registers -> Words]
         /\ \A r \in Registers : r = 0 \/ r # d => generalPurpose'[r] = generalPurpose[r]
         /\ d # 0 => generalPurpose'[d] = v
BY DEF writeGeneralPurposeRegister

\* The operations of two registers and of a register and an immediate.
PlainNames == OpNames \cup OpNames2 \cup MultiplyNames \cup DivideNames
ImmediateNames == OpImmNames \cup OpImmShiftNames
WordNames == Op32Names \cup Op32MNames

\* The names of the instructions are distinct.
LEMMA NamesApart ==
  /\ DOMAIN WordForms = WordNames \cup OpImm32Names
  /\ DOMAIN ImmediateForms = ImmediateNames
  /\ \A op \in PlainNames : op \notin WordNames /\ op \notin OpImm32Names /\ op \notin ImmediateNames
                            /\ op \notin {"lbu", "lhu", "lwu"} /\ op \notin DOMAIN LoadLength
                            /\ op \notin {"lui", "auipc", "jal", "jalr"}
  /\ \A op \in ImmediateNames : op \notin WordNames /\ op \notin OpImm32Names
  /\ \A op \in WordNames : op \notin ImmediateNames /\ op \notin OpImm32Names
<1>1. DOMAIN WordForms = WordNames \cup OpImm32Names
  BY DEF WordForms, WordNames, OpImm32Names, Op32Names, Op32MNames
<1>2. DOMAIN ImmediateForms = ImmediateNames
  BY DEF ImmediateForms, ImmediateNames, OpImmNames, OpImmShiftNames
<1>3. \A op \in PlainNames : op \notin WordNames /\ op \notin OpImm32Names /\ op \notin ImmediateNames
  BY DEF PlainNames, WordNames, ImmediateNames, OpNames, OpNames2, MultiplyNames, DivideNames,
         OpImm32Names, Op32Names, Op32MNames, OpImmNames, OpImmShiftNames
<1>4. \A op \in PlainNames : op \notin {"lbu", "lhu", "lwu"} /\ op \notin DOMAIN LoadLength
                             /\ op \notin {"lui", "auipc", "jal", "jalr"}
  BY DEF PlainNames, LoadLength, OpNames, OpNames2, MultiplyNames, DivideNames
<1>5. \A op \in ImmediateNames : op \notin WordNames /\ op \notin OpImm32Names
  BY DEF WordNames, ImmediateNames, OpImm32Names, Op32Names, Op32MNames, OpImmNames, OpImmShiftNames
<1>6. \A op \in WordNames : op \notin ImmediateNames /\ op \notin OpImm32Names
  BY DEF WordNames, ImmediateNames, OpImm32Names, Op32Names, Op32MNames, OpImmNames, OpImmShiftNames
<1>7. QED
  BY <1>1, <1>2, <1>3, <1>4, <1>5, <1>6

\* The names of the AMOs.
LEMMA AmoOpsAre ==
  AmoOps = {"amoswap.w", "amoadd.w", "amoxor.w", "amoand.w", "amoor.w", "amomin.w", "amomax.w",
            "amominu.w", "amomaxu.w", "amoswap.d", "amoadd.d", "amoxor.d", "amoand.d", "amoor.d",
            "amomin.d", "amomax.d", "amominu.d", "amomaxu.d"}
BY DEF AmoOps, AmoNames, AmoWord, AmoDouble

\* The bits an access moves.
LEMMA AccessIs ==
  /\ \A op \in DOMAIN LoadLength : LoadLength[op] \in 1 .. Count /\ AccessBits(op) = ByteBits * LoadLength[op]
  /\ \A op \in DOMAIN StoreLength : StoreLength[op] \in 1 .. Count /\ AccessBits(op) = ByteBits * StoreLength[op]
  /\ \A name \in AmoNames : AccessBits(AmoWord[name]) = HalfBits /\ AccessBits(AmoDouble[name]) = XLEN
<1>1. WordOps = {"lw", "lwu", "sw", "amoswap.w", "amoadd.w", "amoxor.w", "amoand.w", "amoor.w",
                 "amomin.w", "amomax.w", "amominu.w", "amomaxu.w"}
  BY DEF WordOps, AmoNames, AmoWord
<1>2. /\ ByteBits = ByteBits * 1 /\ XLEN \div 4 = ByteBits * Quarter /\ XLEN \div 2 = ByteBits * Half
      /\ XLEN = ByteBits * Count /\ XLEN \div 2 = HalfBits
      /\ 1 \in 1 .. Count /\ Quarter \in 1 .. Count /\ Half \in 1 .. Count /\ Count \in 1 .. Count
  BY Widths
<1>3. /\ AccessBits("lb") = ByteBits /\ AccessBits("lbu") = ByteBits /\ AccessBits("sb") = ByteBits
      /\ AccessBits("lh") = XLEN \div 4 /\ AccessBits("lhu") = XLEN \div 4 /\ AccessBits("sh") = XLEN \div 4
      /\ AccessBits("lw") = XLEN \div 2 /\ AccessBits("lwu") = XLEN \div 2 /\ AccessBits("sw") = XLEN \div 2
      /\ AccessBits("ld") = XLEN /\ AccessBits("sd") = XLEN
  BY <1>1 DEF AccessBits, ByteOps, HalfwordOps
<1>4. \A op \in DOMAIN LoadLength : LoadLength[op] \in 1 .. Count /\ AccessBits(op) = ByteBits * LoadLength[op]
  BY <1>2, <1>3 DEF LoadLength
<1>5. \A op \in DOMAIN StoreLength : StoreLength[op] \in 1 .. Count /\ AccessBits(op) = ByteBits * StoreLength[op]
  BY <1>2, <1>3 DEF StoreLength
<1>6. \A name \in AmoNames : AccessBits(AmoWord[name]) = HalfBits
  BY <1>1, <1>2 DEF AccessBits, ByteOps, HalfwordOps, AmoNames, AmoWord
<1>7. \A name \in AmoNames : AccessBits(AmoDouble[name]) = XLEN
  BY <1>1 DEF AccessBits, ByteOps, HalfwordOps, AmoNames, AmoDouble
<1>8. QED
  BY <1>4, <1>5, <1>6, <1>7

\* The kinds of instruction whose result the manual states are apart.
LEMMA KindsApart ==
  ASSUME NEW op
  PROVE  /\ op \in DOMAIN WordForms =>
              op \notin DOMAIN ImmediateForms /\ op \notin UnsignedLoads /\ op \notin DOMAIN LoadLength
              /\ op \notin AmoOps /\ op # "lui" /\ op # "auipc" /\ op \notin {"jal", "jalr"}
         /\ op \in DOMAIN ImmediateForms =>
              op \notin DOMAIN WordForms /\ op \notin UnsignedLoads /\ op \notin DOMAIN LoadLength
              /\ op \notin AmoOps /\ op # "lui" /\ op # "auipc" /\ op \notin {"jal", "jalr"}
         /\ op \in PlainNames =>
              op \notin DOMAIN WordForms /\ op \notin DOMAIN ImmediateForms /\ op \notin UnsignedLoads
              /\ op \notin DOMAIN LoadLength
              /\ op \notin AmoOps /\ op # "lui" /\ op # "auipc" /\ op \notin {"jal", "jalr"}
         /\ op \in DOMAIN LoadLength \cup AmoOps =>
              op \notin DOMAIN WordForms /\ op \notin DOMAIN ImmediateForms
              /\ op # "lui" /\ op # "auipc" /\ op \notin {"jal", "jalr"}
         /\ op \in AmoOps => op \notin DOMAIN LoadLength /\ op \notin UnsignedLoads
         /\ op \in {"lui", "auipc", "jal", "jalr"} =>
              op \notin DOMAIN WordForms /\ op \notin DOMAIN ImmediateForms /\ op \notin UnsignedLoads
              /\ op \notin DOMAIN LoadLength /\ op \notin AmoOps
<1>1. op \in DOMAIN WordForms =>
              op \notin DOMAIN ImmediateForms /\ op \notin UnsignedLoads /\ op \notin DOMAIN LoadLength
              /\ op \notin AmoOps /\ op # "lui" /\ op # "auipc" /\ op \notin {"jal", "jalr"}
  BY AmoOpsAre DEF WordForms, ImmediateForms, UnsignedLoads, LoadLength
<1>2. op \in DOMAIN ImmediateForms =>
              op \notin DOMAIN WordForms /\ op \notin UnsignedLoads /\ op \notin DOMAIN LoadLength
              /\ op \notin AmoOps /\ op # "lui" /\ op # "auipc" /\ op \notin {"jal", "jalr"}
  BY AmoOpsAre DEF WordForms, ImmediateForms, UnsignedLoads, LoadLength
<1>3. op \in PlainNames =>
              op \notin DOMAIN WordForms /\ op \notin DOMAIN ImmediateForms /\ op \notin UnsignedLoads
              /\ op \notin DOMAIN LoadLength
              /\ op \notin AmoOps /\ op # "lui" /\ op # "auipc" /\ op \notin {"jal", "jalr"}
  BY AmoOpsAre DEF WordForms, ImmediateForms, UnsignedLoads, LoadLength,
     PlainNames, OpNames, OpNames2, MultiplyNames, DivideNames
<1>4. op \in DOMAIN LoadLength \cup AmoOps =>
              op \notin DOMAIN WordForms /\ op \notin DOMAIN ImmediateForms
              /\ op # "lui" /\ op # "auipc" /\ op \notin {"jal", "jalr"}
  BY AmoOpsAre DEF WordForms, ImmediateForms, UnsignedLoads, LoadLength
<1>5. op \in AmoOps => op \notin DOMAIN LoadLength /\ op \notin UnsignedLoads
  BY AmoOpsAre DEF UnsignedLoads, LoadLength
<1>6. op \in {"lui", "auipc", "jal", "jalr"} =>
              op \notin DOMAIN WordForms /\ op \notin DOMAIN ImmediateForms /\ op \notin UnsignedLoads
              /\ op \notin DOMAIN LoadLength /\ op \notin AmoOps
  BY AmoOpsAre DEF WordForms, ImmediateForms, UnsignedLoads, LoadLength
<1>7. QED
  BY <1>1, <1>2, <1>3, <1>4, <1>5, <1>6

\* What the manual says of the result, by kind of instruction.
LEMMA ResultReads ==
  ASSUME NEW i, NEW w, NEW x, NEW y, x = bytesToBigInt(generalPurpose[i.rs1]), y = bytesToBigInt(generalPurpose[i.rs2])
  PROVE  /\ i.op \in PlainNames /\ Computes(w, i.op, x, y, XLEN) => ResultIsRight(i, w)
         /\ i.op \in ImmediateNames /\ Computes(w, ImmediateForms[i.op], x, Mod(i.imm, XLEN), XLEN)
              => ResultIsRight(i, w)
         /\ i.op \in WordNames /\ WordComputes(w, WordForms[i.op], x, y) => ResultIsRight(i, w)
         /\ i.op \in OpImm32Names /\ WordComputes(w, WordForms[i.op], x, Mod(i.imm, XLEN))
              => ResultIsRight(i, w)
<1> DEFINE op == i.op
           immediate == op \in OpImmNames \cup OpImmShiftNames \cup OpImm32Names
<1>1. ASSUME op \in PlainNames, Computes(w, i.op, x, y, XLEN) PROVE ResultIsRight(i, w)
  <2>1. ~immediate
    BY <1>1, NamesApart DEF ImmediateNames
  <2>2. Manual(i.op, x, y, XLEN, bytesToBigInt(w))
    BY <1>1 DEF Computes
  <2>3. QED
    BY <1>1, <2>1, <2>2, KindsApart DEF ResultIsRight
<1>2. ASSUME op \in ImmediateNames, Computes(w, ImmediateForms[i.op], x, Mod(i.imm, XLEN), XLEN)
      PROVE  ResultIsRight(i, w)
  <2>1. immediate /\ op \in DOMAIN ImmediateForms
    BY <1>2, NamesApart DEF ImmediateNames
  <2>2. Manual(ImmediateForms[i.op], x, Mod(i.imm, XLEN), XLEN, bytesToBigInt(w))
    BY <1>2 DEF Computes
  <2>3. QED
    BY <2>1, <2>2, KindsApart DEF ResultIsRight
<1>3. ASSUME op \in WordNames, WordComputes(w, WordForms[i.op], x, y) PROVE ResultIsRight(i, w)
  <2>1. op \in DOMAIN WordForms /\ ~immediate
    BY <1>3, NamesApart DEF ImmediateNames
  <2>2. Manual(WordForms[i.op], x, y, HalfBits, bytesToBigInt(w))
        /\ bytesToBigInt(w) = Mod(ToSigned(bytesToBigInt(w), HalfBits), XLEN)
    BY <1>3 DEF WordComputes
  <2>3. QED
    BY <2>1, <2>2, KindsApart DEF ResultIsRight
<1>4. ASSUME op \in OpImm32Names, WordComputes(w, WordForms[i.op], x, Mod(i.imm, XLEN))
      PROVE  ResultIsRight(i, w)
  <2>1. op \in DOMAIN WordForms /\ immediate
    BY <1>4, NamesApart
  <2>2. Manual(WordForms[i.op], x, Mod(i.imm, XLEN), HalfBits, bytesToBigInt(w))
        /\ bytesToBigInt(w) = Mod(ToSigned(bytesToBigInt(w), HalfBits), XLEN)
    BY <1>4 DEF WordComputes
  <2>3. QED
    BY <2>1, <2>2, KindsApart DEF ResultIsRight
<1>5. QED
  BY <1>1, <1>2, <1>3, <1>4

\* The amount of a shift by a register: byte0ToNumber's.
LEMMA AmountOf ==
  ASSUME NEW b \in Words
  PROVE  byte0ToNumber(b, XLEN) = bytesToBigInt(b) % XLEN /\ bytesToBigInt(b) \in Int
BY ValueRange DEF byte0ToNumber

\* The instructions on two registers.
LEMMA PlainRight ==
  ASSUME NEW a \in Words, NEW b \in Words, NEW x, NEW y, x = bytesToBigInt(a), y = bytesToBigInt(b)
  PROVE  /\ \A op \in OpNames : Computes(OpAddShiftCompare(op, a, b), op, x, y, XLEN)
         /\ \A op \in OpNames2 : Computes(OpLogicalShiftRight(op, a, b), op, x, y, XLEN)
<1>1. Computes(addBytes(a, b), "add", x, y, XLEN) /\ Computes(subtractBytes(a, b), "sub", x, y, XLEN)
      /\ Computes(andBytes(a, b), "and", x, y, XLEN) /\ Computes(orBytes(a, b), "or", x, y, XLEN)
      /\ Computes(xorBytes(a, b), "xor", x, y, XLEN)
  BY AddsRight
<1>2. Computes(Boolean(compareSignedBytes(a, b) < 0), "slt", x, y, XLEN)
      /\ Computes(Boolean(compareUnsignedBytes(a, b) < 0), "sltu", x, y, XLEN)
  BY ComparesRight
<1> DEFINE amount == byte0ToNumber(b, XLEN)
<1>3. amount = y % XLEN /\ y \in Int
  BY AmountOf
<1> HIDE DEF amount
<1>4. Computes(shiftLeftBytes(a, amount), "sll", x, y, XLEN)
      /\ Computes(shiftRightLogicalBytes(a, amount), "srl", x, y, XLEN)
      /\ Computes(shiftRightArithmeticBytes(a, amount), "sra", x, y, XLEN)
  BY <1>3, ShiftsRight
<1>5. ASSUME NEW op \in OpNames PROVE Computes(OpAddShiftCompare(op, a, b), op, x, y, XLEN)
  BY <1>1, <1>2, <1>4 DEF OpNames, OpAddShiftCompare, amount
<1>6. ASSUME NEW op \in OpNames2 PROVE Computes(OpLogicalShiftRight(op, a, b), op, x, y, XLEN)
  BY <1>1, <1>4 DEF OpNames2, OpLogicalShiftRight, amount
<1>7. QED
  BY <1>5, <1>6

\* The instructions on a register and an immediate.
LEMMA ImmediateRight ==
  ASSUME NEW a \in Words, NEW x, x = bytesToBigInt(a), NEW imm \in Int
  PROVE  /\ \A op \in OpImmNames :
              Computes(OpImm(op, a, unsignedBigIntToBytes(imm)), ImmediateForms[op], x, Mod(imm, XLEN), XLEN)
         /\ imm \in 0 .. XLEN - 1 => \A op \in OpImmShiftNames :
              Computes(OpImmShift(op, a, imm), ImmediateForms[op], x, Mod(imm, XLEN), XLEN)
<1> DEFINE b == unsignedBigIntToBytes(imm)
           y == Mod(imm, XLEN)
<1>1. b \in Words /\ bytesToBigInt(b) = y /\ y \in Int
  BY ImmediateIs
<1>2. imm \in 0 .. XLEN - 1 => y % XLEN = imm
  BY ImmediateIs
<1> HIDE DEF b, y
<1>3. Computes(addBytes(a, b), "add", x, y, XLEN)
      /\ Computes(andBytes(a, b), "and", x, y, XLEN) /\ Computes(orBytes(a, b), "or", x, y, XLEN)
      /\ Computes(xorBytes(a, b), "xor", x, y, XLEN)
  BY <1>1, AddsRight
<1>4. Computes(Boolean(compareSignedBytes(a, b) < 0), "slt", x, y, XLEN)
      /\ Computes(Boolean(compareUnsignedBytes(a, b) < 0), "sltu", x, y, XLEN)
  BY <1>1, ComparesRight
<1>5. ASSUME NEW op \in OpImmNames PROVE Computes(OpImm(op, a, b), ImmediateForms[op], x, y, XLEN)
  BY <1>3, <1>4 DEF OpImmNames, OpImm, ImmediateForms
<1>6. ASSUME imm \in 0 .. XLEN - 1, NEW op \in OpImmShiftNames
      PROVE  Computes(OpImmShift(op, a, imm), ImmediateForms[op], x, y, XLEN)
  <2>1. imm = y % XLEN
    BY <1>2, <1>6
  <2>2. Computes(shiftLeftBytes(a, imm), "sll", x, y, XLEN)
        /\ Computes(shiftRightLogicalBytes(a, imm), "srl", x, y, XLEN)
        /\ Computes(shiftRightArithmeticBytes(a, imm), "sra", x, y, XLEN)
    BY <1>1, <2>1, ShiftsRight
  <2>3. QED
    BY <2>2 DEF OpImmShiftNames, OpImmShift, ImmediateForms
<1>7. QED
  BY <1>5, <1>6 DEF b, y

\* What the manual says of the result of a load, an AMO, an upper immediate and a jump.
LEMMA OtherReads ==
  ASSUME NEW i, NEW w, NEW r, NEW m, r = bytesToBigInt(w), m = bytesToBigInt(addressed)
  PROVE  /\ i.op \in UnsignedLoads /\ r = Mod(m, AccessBits(i.op)) => ResultIsRight(i, w)
         /\ i.op \in (DOMAIN LoadLength \ UnsignedLoads) \cup AmoOps
              /\ r = Mod(ToSigned(m, AccessBits(i.op)), XLEN) => ResultIsRight(i, w)
         /\ i.op = "lui" /\ r = Mod(i.imm, XLEN) => ResultIsRight(i, w)
         /\ i.op = "auipc" /\ r = Mod(bytesToBigInt(programCounter) + i.imm, XLEN) => ResultIsRight(i, w)
         /\ i.op \in {"jal", "jalr"} /\ r = Mod(bytesToBigInt(programCounter) + i.length, XLEN)
              => ResultIsRight(i, w)
<1>1. UnsignedLoads \subseteq DOMAIN LoadLength
  BY DEF UnsignedLoads, LoadLength
<1>2. ASSUME i.op \in UnsignedLoads, r = Mod(m, AccessBits(i.op)) PROVE ResultIsRight(i, w)
  BY <1>1, <1>2, KindsApart DEF ResultIsRight
<1>3. ASSUME i.op \in (DOMAIN LoadLength \ UnsignedLoads) \cup AmoOps,
             r = Mod(ToSigned(m, AccessBits(i.op)), XLEN)
      PROVE  ResultIsRight(i, w)
  BY <1>3, KindsApart DEF ResultIsRight
<1>4. ASSUME i.op = "lui", r = Mod(i.imm, XLEN) PROVE ResultIsRight(i, w)
  BY <1>4, KindsApart DEF ResultIsRight
<1>5. ASSUME i.op = "auipc", r = Mod(bytesToBigInt(programCounter) + i.imm, XLEN) PROVE ResultIsRight(i, w)
  BY <1>5, KindsApart DEF ResultIsRight
<1>6. ASSUME i.op \in {"jal", "jalr"}, r = Mod(bytesToBigInt(programCounter) + i.length, XLEN)
      PROVE  ResultIsRight(i, w)
  BY <1>6, KindsApart DEF ResultIsRight
<1>7. QED
  BY <1>2, <1>3, <1>4, <1>5, <1>6

\* The handlers that compute.
ComputeNames == PlainNames \cup ImmediateNames \cup WordNames \cup OpImm32Names

\* They write the right word.
LEMMA ComputeRight ==
  ASSUME AluTyped, NEW i \in Program, Compute(i)
  PROVE  /\ i.op \in ComputeNames
         /\ \E w \in Words : ResultIsRight(i, w) /\ writeGeneralPurposeRegister(i.rd, w)
<1> DEFINE a == readGeneralPurposeRegister(i.rs1)
           b == readGeneralPurposeRegister(i.rs2)
           immediate == unsignedBigIntToBytes(i.imm)
           x == bytesToBigInt(generalPurpose[i.rs1])
           y == bytesToBigInt(generalPurpose[i.rs2])
           Sound(names, w) == i.op \in names => w \in Words /\ ResultIsRight(i, w)
<1>1. a \in Words /\ b \in Words /\ x = bytesToBigInt(a) /\ y = bytesToBigInt(b) /\ i.imm \in Int
  BY FieldsAre DEF AluTyped, readGeneralPurposeRegister
<1>2. \A op, u, v, bits, w : Computes(w, op, u, v, bits) => w \in Words
  BY DEF Computes
<1>3. \A op, u, v, w : WordComputes(w, op, u, v) => w \in Words
  BY DEF WordComputes
<1> HIDE DEF a, b
<1>4. Sound(OpNames, OpAddShiftCompare(i.op, a, b)) /\ Sound(OpNames2, OpLogicalShiftRight(i.op, a, b))
  <2>1. /\ i.op \in OpNames => Computes(OpAddShiftCompare(i.op, a, b), i.op, x, y, XLEN)
        /\ i.op \in OpNames2 => Computes(OpLogicalShiftRight(i.op, a, b), i.op, x, y, XLEN)
    BY <1>1, PlainRight
  <2>2. QED
    BY <1>2, <2>1, ResultReads DEF PlainNames
<1>5. Sound(OpImmNames, OpImm(i.op, a, immediate)) /\ Sound(OpImmShiftNames, OpImmShift(i.op, a, i.imm))
  <2>1. /\ i.op \in OpImmNames
              => Computes(OpImm(i.op, a, immediate), ImmediateForms[i.op], x, Mod(i.imm, XLEN), XLEN)
        /\ i.op \in OpImmShiftNames
              => Computes(OpImmShift(i.op, a, i.imm), ImmediateForms[i.op], x, Mod(i.imm, XLEN), XLEN)
    BY <1>1, FieldsAre, ImmediateRight
  <2>2. QED
    BY <1>2, <2>1, ResultReads DEF ImmediateNames
<1>6. Sound(Op32Names, Op32(i.op, a, b)) /\ Sound(Op32MNames, Op32M(i.op, a, b))
  <2>1. /\ i.op \in Op32Names => WordComputes(Op32(i.op, a, b), WordForms[i.op], x, y)
        /\ i.op \in Op32MNames => WordComputes(Op32M(i.op, a, b), WordForms[i.op], x, y)
    BY <1>1, Op32Right, Op32MRight
  <2>2. QED
    BY <1>3, <2>1, ResultReads DEF WordNames
<1>7. Sound(OpImm32Names, OpImm32(i.op, a, immediate, i.imm))
  <2>1. i.op \in OpImm32Names
          => WordComputes(OpImm32(i.op, a, immediate, i.imm), WordForms[i.op], x, Mod(i.imm, XLEN))
    BY <1>1, FieldsAre, OpImm32Right
  <2>2. QED
    BY <1>3, <2>1, ResultReads
<1>8. Sound(MultiplyNames, OpMMultiply(i.op, a, b)) /\ Sound(DivideNames, OpMDivide(i.op, a, b))
  <2>1. /\ i.op \in MultiplyNames => Computes(OpMMultiply(i.op, a, b), i.op, x, y, XLEN)
        /\ i.op \in DivideNames => Computes(OpMDivide(i.op, a, b), i.op, x, y, XLEN)
    BY <1>1, MultipliesRight, DividesRight
  <2>2. QED
    BY <1>2, <2>1, ResultReads DEF PlainNames
<1> DEFINE Written(names, w) == i.op \in names /\ writeGeneralPurposeRegister(i.rd, w)
<1>9. \/ Written(OpNames, OpAddShiftCompare(i.op, a, b))
      \/ Written(OpNames2, OpLogicalShiftRight(i.op, a, b))
      \/ Written(OpImmNames, OpImm(i.op, a, immediate))
      \/ Written(OpImmShiftNames, OpImmShift(i.op, a, i.imm))
      \/ Written(Op32Names, Op32(i.op, a, b))
      \/ Written(OpImm32Names, OpImm32(i.op, a, immediate, i.imm))
      \/ Written(MultiplyNames, OpMMultiply(i.op, a, b))
      \/ Written(DivideNames, OpMDivide(i.op, a, b))
      \/ Written(Op32MNames, Op32M(i.op, a, b))
  BY DEF Compute, a, b
<1>10. ASSUME NEW names, NEW w, names \subseteq ComputeNames, Sound(names, w), Written(names, w)
       PROVE  /\ i.op \in ComputeNames
              /\ \E v \in Words : ResultIsRight(i, v) /\ writeGeneralPurposeRegister(i.rd, v)
  BY <1>10
<1>11. OpNames \subseteq ComputeNames /\ OpNames2 \subseteq ComputeNames /\ OpImmNames \subseteq ComputeNames
       /\ OpImmShiftNames \subseteq ComputeNames /\ Op32Names \subseteq ComputeNames
       /\ OpImm32Names \subseteq ComputeNames /\ MultiplyNames \subseteq ComputeNames
       /\ DivideNames \subseteq ComputeNames /\ Op32MNames \subseteq ComputeNames
  BY DEF ComputeNames, PlainNames, ImmediateNames, WordNames
<1> HIDE DEF Sound, Written
<1>12. QED
  BY <1>4, <1>5, <1>6, <1>7, <1>8, <1>9, <1>10, <1>11

-----------------------------------------------------------------------------
\* Every instruction.

\* The instructions that write a register.
LoudNames == ComputeNames \cup {"lui", "auipc", "jal", "jalr"} \cup DOMAIN LoadLength \cup AmoOps

\* They are not those that write none.
LEMMA LoudIs ==
  /\ \A op \in LoudNames : op \notin BranchNames /\ op \notin {"fence", "fence.i"} /\ op \notin DOMAIN StoreLength
  /\ \A op \in LoudNames \ AmoOps : op \notin DOMAIN StoreLength \cup AmoOps
  /\ \A op \in ComputeNames \cup {"lui", "auipc", "fence", "fence.i", "jal", "jalr"} \cup BranchNames
                 \cup DOMAIN LoadLength :
        op \notin DOMAIN StoreLength \cup AmoOps
  /\ \A op \in ComputeNames \cup {"lui", "auipc", "fence", "fence.i"} \cup DOMAIN LoadLength
                 \cup DOMAIN StoreLength \cup AmoOps :
        op \notin BranchNames /\ op # "jal" /\ op # "jalr"
<1> USE AmoOpsAre DEF LoudNames, ComputeNames, PlainNames, ImmediateNames, WordNames, LoadLength, StoreLength,
    BranchNames, OpNames, OpNames2, OpImmNames, OpImmShiftNames, Op32Names, OpImm32Names,
    MultiplyNames, DivideNames, Op32MNames
<1>1. \A op \in LoudNames : op \notin BranchNames /\ op \notin {"fence", "fence.i"} /\ op \notin DOMAIN StoreLength
  OBVIOUS
<1>2. \A op \in LoudNames \ AmoOps : op \notin DOMAIN StoreLength \cup AmoOps
  BY <1>1
<1>3. \A op \in ComputeNames \cup {"lui", "auipc", "fence", "fence.i", "jal", "jalr"} \cup BranchNames
                 \cup DOMAIN LoadLength :
        op \notin DOMAIN StoreLength \cup AmoOps
  OBVIOUS
<1>4. \A op \in ComputeNames \cup {"lui", "auipc", "fence", "fence.i"} \cup DOMAIN LoadLength
                 \cup DOMAIN StoreLength \cup AmoOps :
        op \notin BranchNames /\ op # "jal" /\ op # "jalr"
  OBVIOUS
<1>5. QED
  BY <1>1, <1>2, <1>3, <1>4

\* An instruction that writes the right word to rd.
LEMMA WritesRight ==
  ASSUME AluTyped, NEW i \in Program, i.op \in LoudNames, NEW w \in Words, ResultIsRight(i, w),
         writeGeneralPurposeRegister(i.rd, w)
  PROVE  generalPurpose' \in [Registers -> Words] /\ RegistersAreRight(i)
<1>1. ~Silent(i)
  BY LoudIs DEF Silent
<1>2. /\ generalPurpose' \in [Registers -> Words]
      /\ \A r \in Registers : r = 0 \/ r # i.rd => generalPurpose'[r] = generalPurpose[r]
      /\ i.rd # 0 => generalPurpose'[i.rd] = w
  BY FieldsAre, WriteFrame DEF AluTyped
<1>3. QED
  BY <1>1, <1>2 DEF RegistersAreRight

\* An instruction that writes none.
LEMMA SilentRight ==
  ASSUME AluTyped, NEW i \in Program, Silent(i), UNCHANGED generalPurpose
  PROVE  generalPurpose' \in [Registers -> Words] /\ RegistersAreRight(i)
BY DEF AluTyped, RegistersAreRight

\* An instruction that falls through.
LEMMA FallsRight ==
  ASSUME AluTyped, NEW i \in Program, i.op \notin BranchNames, i.op # "jal", i.op # "jalr",
         advanceProgramCounter(i)
  PROVE  programCounter' \in Words /\ CounterIsRight(i)
<1>1. programCounter' = PcPlus(i.length) /\ i.length \in Int
  BY FieldsAre DEF advanceProgramCounter
<1>2. programCounter' \in Words
      /\ bytesToBigInt(programCounter') = Mod(bytesToBigInt(programCounter) + i.length, XLEN)
  BY <1>1, PcPlusIs DEF AluTyped
<1>3. i.op \notin {"beq", "bne", "blt", "bge", "bltu", "bgeu"}
  BY DEF BranchNames
<1>4. QED
  BY <1>2, <1>3 DEF CounterIsRight

\* The instructions that leave memory alone and fall through.
LEMMA FallingRight ==
  ASSUME AluTyped, NEW i \in Program, addressed' = addressed,
         Compute(i) \/ lui(i) \/ auipc(i) \/ fence(i)
  PROVE  AluTyped' /\ ExecutedRight(i)
<1>1. /\ i.op \in ComputeNames \cup {"lui", "auipc", "fence", "fence.i"}
      /\ generalPurpose' \in [Registers -> Words] /\ RegistersAreRight(i)
      /\ advanceProgramCounter(i)
  <2>1. CASE Compute(i)
    <3>1. i.op \in ComputeNames /\ \E w \in Words : ResultIsRight(i, w) /\ writeGeneralPurposeRegister(i.rd, w)
      BY <2>1, ComputeRight
    <3>2. generalPurpose' \in [Registers -> Words] /\ RegistersAreRight(i)
      BY <3>1, WritesRight DEF LoudNames
    <3>3. advanceProgramCounter(i)
      BY <2>1 DEF Compute
    <3>4. QED
      BY <3>1, <3>2, <3>3
  <2>2. CASE lui(i)
    <3>1. i.op = "lui" /\ writeGeneralPurposeRegister(i.rd, unsignedBigIntToBytes(i.imm)) /\ advanceProgramCounter(i)
      BY <2>2 DEF lui
    <3>2. unsignedBigIntToBytes(i.imm) \in Words /\ bytesToBigInt(unsignedBigIntToBytes(i.imm)) = Mod(i.imm, XLEN)
      BY FieldsAre, ImmediateIs
    <3>3. ResultIsRight(i, unsignedBigIntToBytes(i.imm))
      BY <3>1, <3>2, OtherReads
    <3>4. QED
      BY <3>1, <3>2, <3>3, WritesRight DEF LoudNames
  <2>3. CASE auipc(i)
    <3>1. i.op = "auipc" /\ writeGeneralPurposeRegister(i.rd, PcPlus(i.imm)) /\ advanceProgramCounter(i)
      BY <2>3 DEF auipc
    <3>2. PcPlus(i.imm) \in Words /\ bytesToBigInt(PcPlus(i.imm)) = Mod(bytesToBigInt(programCounter) + i.imm, XLEN)
      BY FieldsAre, PcPlusIs DEF AluTyped
    <3>3. ResultIsRight(i, PcPlus(i.imm))
      BY <3>1, <3>2, OtherReads
    <3>4. QED
      BY <3>1, <3>2, <3>3, WritesRight DEF LoudNames
  <2>4. CASE fence(i)
    <3>1. i.op \in {"fence", "fence.i"} /\ advanceProgramCounter(i) /\ UNCHANGED generalPurpose
      BY <2>4 DEF fence
    <3>2. QED
      BY <3>1, SilentRight DEF Silent
  <2>5. QED
    BY <2>1, <2>2, <2>3, <2>4
<1>2. programCounter' \in Words /\ CounterIsRight(i)
  BY <1>1, FallsRight, LoudIs
<1>3. i.op \notin DOMAIN StoreLength \cup AmoOps
  BY <1>1, LoudIs
<1>4. QED
  BY <1>1, <1>2, <1>3 DEF AluTyped, ExecutedRight

\* The jumps: the link is the next instruction, the target that of the registers before.
LEMMA JumpRight ==
  ASSUME AluTyped, NEW i \in Program, addressed' = addressed, jal(i) \/ jalr(i)
  PROVE  AluTyped' /\ ExecutedRight(i)
<1>1. i.op \in {"jal", "jalr"} /\ writeGeneralPurposeRegister(i.rd, PcPlus(i.length))
  BY DEF jal, jalr
<1>2. PcPlus(i.length) \in Words
      /\ bytesToBigInt(PcPlus(i.length)) = Mod(bytesToBigInt(programCounter) + i.length, XLEN)
  BY FieldsAre, PcPlusIs DEF AluTyped
<1>3. ResultIsRight(i, PcPlus(i.length))
  BY <1>1, <1>2, OtherReads
<1>4. generalPurpose' \in [Registers -> Words] /\ RegistersAreRight(i)
  BY <1>1, <1>2, <1>3, WritesRight DEF LoudNames
<1>5. programCounter' \in Words /\ CounterIsRight(i)
  <2>1. CASE jal(i)
    <3>1. i.op = "jal" /\ programCounter' = PcPlus(i.imm)
      BY <2>1 DEF jal
    <3>2. programCounter' \in Words
          /\ bytesToBigInt(programCounter') = Mod(bytesToBigInt(programCounter) + i.imm, XLEN)
      BY <3>1, FieldsAre, PcPlusIs DEF AluTyped
    <3>3. QED
      BY <3>1, <3>2 DEF CounterIsRight
  <2>2. CASE jalr(i)
    <3> DEFINE a == generalPurpose[i.rs1]
               t == addBytes(a, unsignedBigIntToBytes(i.imm))
    <3>1. i.op = "jalr" /\ programCounter' = [t EXCEPT ![1] = @ - (@ % 2)]
      BY <2>2 DEF jalr, readGeneralPurposeRegister
    <3>2. a \in Words /\ i.imm \in Int
      BY FieldsAre DEF AluTyped
    <3> HIDE DEF a
    <3>3. t \in Words /\ bytesToBigInt(t) = Mod(bytesToBigInt(a) + i.imm, XLEN)
      BY <3>2, RegisterPlusIs
    <3> HIDE DEF t
    <3>4. programCounter' \in Words /\ bytesToBigInt(programCounter') = 2 * (bytesToBigInt(t) \div 2)
      BY <3>1, <3>3, ClearLowBit
    <3>5. QED
      BY <3>1, <3>3, <3>4 DEF CounterIsRight, a
  <2>3. QED
    BY <2>1, <2>2
<1>6. i.op \notin DOMAIN StoreLength \cup AmoOps
  BY <1>1, LoudIs
<1>7. QED
  BY <1>4, <1>5, <1>6 DEF AluTyped, ExecutedRight

\* A branch goes where the comparison of the values says.
LEMMA BranchRight ==
  ASSUME AluTyped, NEW i \in Program, addressed' = addressed, branch(i)
  PROVE  AluTyped' /\ ExecutedRight(i)
<1> DEFINE a == generalPurpose[i.rs1]
           b == generalPurpose[i.rs2]
           x == bytesToBigInt(a)
           y == bytesToBigInt(b)
           sx == ToSigned(x, XLEN)
           sy == ToSigned(y, XLEN)
           offset == IF Taken(i.op, a, b) THEN i.imm ELSE i.length
<1>1. i.op \in BranchNames /\ programCounter' = PcPlus(offset) /\ UNCHANGED generalPurpose
  BY DEF branch, readGeneralPurposeRegister, advanceProgramCounter
<1>2. generalPurpose' \in [Registers -> Words] /\ RegistersAreRight(i)
  BY <1>1, SilentRight DEF Silent
<1>3. a \in Words /\ b \in Words
  BY FieldsAre DEF AluTyped
<1> HIDE DEF a, b
<1>4. x \in Int /\ y \in Int /\ sx \in Int /\ sy \in Int
  <2>1. x \in Int /\ y \in Int
    BY <1>3, ValueRange
  <2>2. XLEN \in {HalfBits, XLEN}
    OBVIOUS
  <2> HIDE DEF x, y
  <2>3. QED
    BY <2>1, <2>2, SignedIs
<1>5. compareUnsignedBytes(a, b) = Order(x, y)
  BY <1>3, CompareIsOrder
<1>6. compareSignedBytes(a, b) = Order(sx, sy)
  BY <1>3, CompareIsSignedOrder
<1> HIDE DEF x, y, sx, sy
<1>7. /\ (compareUnsignedBytes(a, b) = 0) = (x = y)
      /\ (compareUnsignedBytes(a, b) # 0) = (x # y)
      /\ (compareUnsignedBytes(a, b) < 0) = (x < y)
      /\ (compareUnsignedBytes(a, b) >= 0) = (x >= y)
      /\ (compareSignedBytes(a, b) < 0) = (sx < sy)
      /\ (compareSignedBytes(a, b) >= 0) = (sx >= sy)
  <2>1. \A u, v \in Int : /\ (Order(u, v) = 0) = (u = v) /\ (Order(u, v) # 0) = (u # v)
                          /\ (Order(u, v) < 0) = (u < v) /\ (Order(u, v) >= 0) = (u >= v)
    BY DEF Order
  <2>2. QED
    BY <1>4, <1>5, <1>6, <2>1
<1> DEFINE taken == CASE i.op = "beq" -> x = y [] i.op = "bne" -> x # y
                      [] i.op = "blt" -> sx < sy [] i.op = "bge" -> sx >= sy
                      [] i.op = "bltu" -> x < y [] i.op = "bgeu" -> x >= y [] OTHER -> i.op = "jal"
<1>8. Taken(i.op, a, b) = taken
  BY <1>1, <1>7 DEF Taken, BranchNames
<1> HIDE DEF taken
<1>9. offset \in Int
  BY FieldsAre
<1> HIDE DEF offset
<1>10. programCounter' \in Words
       /\ bytesToBigInt(programCounter') = Mod(bytesToBigInt(programCounter) + offset, XLEN)
  BY <1>1, <1>9, PcPlusIs DEF AluTyped
<1>11. offset = IF taken THEN i.imm ELSE i.length
  BY <1>8 DEF offset
<1>12. i.op # "jalr"
  BY <1>1 DEF BranchNames
<1>13. CounterIsRight(i)
  BY <1>10, <1>11, <1>12 DEF CounterIsRight, taken, sx, sy, x, y, a, b
<1>14. i.op \notin DOMAIN StoreLength \cup AmoOps
  BY <1>1, LoudIs
<1>15. QED
  BY <1>2, <1>10, <1>13, <1>14 DEF AluTyped, ExecutedRight

\* A load leaves in rd what memory holds, extended from its width.
LEMMA LoadingRight ==
  ASSUME AluTyped, NEW i \in Program, load(i)
  PROVE  AluTyped' /\ ExecutedRight(i)
<1> DEFINE n == LoadLength[i.op]
           z == zeroExtendBytes(addressed, n)
           w == IF i.op \in UnsignedLoads THEN z ELSE signExtendBytes(z, n)
           m == bytesToBigInt(addressed)
<1>1. i.op \in DOMAIN LoadLength /\ writeGeneralPurposeRegister(i.rd, w)
      /\ advanceProgramCounter(i) /\ addressed' = addressed
  BY DEF load
<1>2. n \in 1 .. Count /\ AccessBits(i.op) = ByteBits * n
  BY <1>1, AccessIs
<1> HIDE DEF n
<1>3. z \in Words /\ bytesToBigInt(z) = Mod(m, AccessBits(i.op))
      /\ signExtendBytes(z, n) \in Words
      /\ bytesToBigInt(signExtendBytes(z, n)) = Mod(ToSigned(m, AccessBits(i.op)), XLEN)
  <2>1. addressed \in Words
    BY DEF AluTyped
  <2>2. QED
    BY <1>2, <2>1, LoadRight
<1> HIDE DEF z
<1>4. w \in Words /\ ResultIsRight(i, w)
  <2>1. CASE i.op \in UnsignedLoads
    BY <1>3, <2>1, OtherReads
  <2>2. CASE i.op \notin UnsignedLoads
    BY <1>1, <1>3, <2>2, OtherReads
  <2>3. QED
    BY <2>1, <2>2
<1> HIDE DEF w
<1>5. generalPurpose' \in [Registers -> Words] /\ RegistersAreRight(i)
  BY <1>1, <1>4, WritesRight DEF LoudNames
<1>6. programCounter' \in Words /\ CounterIsRight(i)
  BY <1>1, FallsRight, LoudIs
<1>7. i.op \notin DOMAIN StoreLength \cup AmoOps
  BY <1>1, LoudIs
<1>8. QED
  BY <1>1, <1>5, <1>6, <1>7 DEF AluTyped, ExecutedRight

\* The AMO that an instruction is.
AmoIs(i, name) == i.op \in {AmoWord[name], AmoDouble[name]}

\* What memory must take in, by instruction.
LEMMA MemoryReads ==
  ASSUME NEW i, NEW bits, bits = AccessBits(i.op), NEW new, NEW m, NEW x,
         new = bytesToBigInt(addressed'), m = bytesToBigInt(addressed),
         x = bytesToBigInt(generalPurpose[i.rs2]), new \div Power[bits] = m \div Power[bits]
  PROVE  /\ i.op \in DOMAIN StoreLength /\ Mod(new - x, bits) = 0 => MemoryIsRight(i)
         /\ \A name \in AmoNames : AmoIs(i, name) /\ Mod(new - AmoManual(name, m, x, bits), bits) = 0
              => MemoryIsRight(i)
<1>1. ASSUME i.op \in DOMAIN StoreLength, Mod(new - x, bits) = 0 PROVE MemoryIsRight(i)
  <2>1. i.op \in {"sb", "sh", "sw", "sd"}
    BY <1>1 DEF StoreLength
  <2>2. QED
    BY <1>1, <2>1 DEF MemoryIsRight, AmoWord, AmoDouble
<1>2. ASSUME NEW name \in AmoNames, AmoIs(i, name), Mod(new - AmoManual(name, m, x, bits), bits) = 0
      PROVE  MemoryIsRight(i)
  <2> USE <1>2 DEF AmoIs, AmoWord, AmoDouble, StoreLength
  <2> DEFINE SignedMin == IF ToSigned(m, bits) < ToSigned(x, bits) THEN m ELSE x
             UnsignedMin == IF Mod(m, bits) < Mod(x, bits) THEN m ELSE x
  <2>1. CASE name = "amoswap"
    <3>1. Mod(new - x, bits) = 0
      BY <2>1 DEF AmoManual
    <3>2. QED
      BY <2>1, <3>1 DEF MemoryIsRight
  <2>2. CASE name = "amoadd"
    <3>1. Mod(new - (m + x), bits) = 0
      BY <2>2 DEF AmoManual
    <3>2. QED
      BY <2>2, <3>1 DEF MemoryIsRight
  <2>3. CASE name = "amoxor"
    <3>1. Mod(new - (m + x - 2 * BitsBoth(m, x)), bits) = 0
      BY <2>3 DEF AmoManual
    <3>2. QED
      BY <2>3, <3>1 DEF MemoryIsRight
  <2>4. CASE name = "amoand"
    <3>1. Mod(new - BitsBoth(m, x), bits) = 0
      BY <2>4 DEF AmoManual
    <3>2. QED
      BY <2>4, <3>1 DEF MemoryIsRight
  <2>5. CASE name = "amoor"
    <3>1. Mod(new - (m + x - BitsBoth(m, x)), bits) = 0
      BY <2>5 DEF AmoManual
    <3>2. QED
      BY <2>5, <3>1 DEF MemoryIsRight
  <2>6. CASE name = "amomin"
    <3>1. Mod(new - SignedMin, bits) = 0
      BY <2>6 DEF AmoManual
    <3>2. QED
      BY <2>6, <3>1 DEF MemoryIsRight
  <2>7. CASE name = "amomax"
    <3>1. Mod(new - (m + x - SignedMin), bits) = 0
      BY <2>7 DEF AmoManual
    <3>2. QED
      BY <2>7, <3>1 DEF MemoryIsRight
  <2>8. CASE name = "amominu"
    <3>1. Mod(new - UnsignedMin, bits) = 0
      BY <2>8 DEF AmoManual
    <3>2. QED
      BY <2>8, <3>1 DEF MemoryIsRight
  <2>9. CASE name = "amomaxu"
    <3>1. Mod(new - (m + x - UnsignedMin), bits) = 0
      BY <2>9 DEF AmoManual
    <3>2. QED
      BY <2>9, <3>1 DEF MemoryIsRight
  <2>10. QED
    BY <2>1, <2>2, <2>3, <2>4, <2>5, <2>6, <2>7, <2>8, <2>9 DEF AmoNames
<1>3. QED
  BY <1>1, <1>2

\* A store leaves in memory the low bytes of rs2 and keeps the others.
LEMMA StoringRight ==
  ASSUME AluTyped, NEW i \in Program, store(i)
  PROVE  AluTyped' /\ ExecutedRight(i)
<1> DEFINE n == StoreLength[i.op]
           a == generalPurpose[i.rs2]
           new == bytesToBigInt(addressed')
           m == bytesToBigInt(addressed)
           x == bytesToBigInt(a)
           bits == AccessBits(i.op)
<1>1. i.op \in DOMAIN StoreLength /\ advanceProgramCounter(i) /\ UNCHANGED generalPurpose
      /\ addressed' = StoredBytes(a, addressed, n)
  BY DEF store, WriteAddressed, readGeneralPurposeRegister, StoredBytes
<1>2. n \in 1 .. Count /\ bits = ByteBits * n
  BY <1>1, AccessIs
<1>3. a \in Words /\ addressed \in Words
  BY FieldsAre DEF AluTyped
<1> HIDE DEF n, a
<1>4. addressed' \in Words /\ new \div Power[bits] = m \div Power[bits] /\ new % Weight[n] = x % Weight[n]
  BY <1>1, <1>2, <1>3, StoreRight
<1>5. new \in Int /\ x \in Int
  BY <1>3, <1>4, ValueRange
<1> HIDE DEF new, m, x, bits
<1>6. Mod(new - x, bits) = 0
  BY <1>2, <1>4, <1>5, BytesSame
<1>7. MemoryIsRight(i)
  BY <1>1, <1>4, <1>6, MemoryReads DEF new, m, x, bits, a
<1>8. generalPurpose' \in [Registers -> Words] /\ RegistersAreRight(i)
  BY <1>1, SilentRight DEF Silent
<1>9. programCounter' \in Words /\ CounterIsRight(i)
  BY <1>1, FallsRight, LoudIs
<1>10. QED
  BY <1>1, <1>4, <1>7, <1>8, <1>9 DEF AluTyped, ExecutedRight

\* What an AMO makes is an integer.
LEMMA AmoInteger ==
  ASSUME NEW name \in AmoNames, NEW m \in Int, NEW x \in Int, BitsBoth(m, x) \in Int, NEW bits
  PROVE  AmoManual(name, m, x, bits) \in Int
<1> DEFINE bo == BitsBoth(m, x)
<1>1. bo \in Int
  OBVIOUS
<1>2. AmoManual(name, m, x, bits) \in {x, m + x, m + x - 2 * bo, bo, m + x - bo, m, m + x - m, m + x - x}
  BY DEF AmoManual, AmoNames
<1> HIDE DEF bo
<1>3. QED
  BY <1>1, <1>2

\* An AMO leaves in memory what it makes of the old value and rs2, and in rd the old value.
LEMMA CombiningRight ==
  ASSUME AluTyped, NEW i \in Program, amo(i)
  PROVE  AluTyped' /\ ExecutedRight(i)
<1>1. PICK name \in AmoNames, n \in {Half, Count} :
         /\ i.op = IF n = Half THEN AmoWord[name] ELSE AmoDouble[name]
         /\ LET oldValue == zeroExtendBytes(addressed, n)
            IN /\ WriteAddressed(AmoCombine(name, oldValue, readGeneralPurposeRegister(i.rs2), n), n)
               /\ writeGeneralPurposeRegister(i.rd, signExtendBytes(oldValue, n))
         /\ advanceProgramCounter(i)
  BY Zenon DEF amo
<1> DEFINE z == zeroExtendBytes(addressed, n)
           a == generalPurpose[i.rs2]
           c == AmoCombine(name, z, a, n)
           w == signExtendBytes(z, n)
           new == bytesToBigInt(addressed')
           m == bytesToBigInt(addressed)
           x == bytesToBigInt(a)
           v == bytesToBigInt(c)
           bits == AccessBits(i.op)
           result == AmoManual(name, m, x, bits)
<1>2. AmoIs(i, name) /\ addressed' = StoredBytes(c, addressed, n) /\ writeGeneralPurposeRegister(i.rd, w)
  BY <1>1 DEF AmoIs, WriteAddressed, readGeneralPurposeRegister, StoredBytes
<1>3. i.op \in AmoOps
  BY <1>2 DEF AmoIs, AmoOps
<1>4. n \in 1 .. Count /\ bits = ByteBits * n /\ bits \in {HalfBits, XLEN} /\ Half # Count
  BY <1>1, AccessIs, Widths
<1>5. Power[bits] = Weight[n]
  <2>1. n \in 0 .. Count
    BY <1>4
  <2>2. QED
    BY <1>4, <2>1 DEF Weight
<1>6. a \in Words /\ addressed \in Words
  BY FieldsAre DEF AluTyped
<1> HIDE DEF a, bits
<1>7. z \in Words /\ w \in Words /\ bytesToBigInt(w) = Mod(ToSigned(m, bits), XLEN)
      /\ bytesToBigInt(z) % Weight[n] = m % Weight[n]
  BY <1>4, <1>6, LoadRight
<1> HIDE DEF z
<1>8. Same(bytesToBigInt(z), m, bits)
  BY <1>5, <1>7 DEF Same
<1>9. c \in Words /\ Same(v, result, bits)
  BY <1>4, <1>6, <1>7, <1>8, AmoRight
<1> HIDE DEF c, w
<1>10. addressed' \in Words /\ new \div Power[bits] = m \div Power[bits] /\ new % Weight[n] = v % Weight[n]
  BY <1>2, <1>4, <1>6, <1>9, StoreRight
<1>11. new \in Int /\ m \in Int /\ x \in Int
  BY <1>6, <1>10, ValueRange
<1>12. result \in Int
  BY <1>6, <1>11, AmoInteger, BitwiseIsManual
<1> HIDE DEF new, m, x, v, result
<1>13. Mod(new - result, bits) = 0
  <2>1. Same(new, result, bits)
    BY <1>5, <1>9, <1>10 DEF Same
  <2>2. QED
    BY <1>4, <1>11, <1>12, <2>1, IsSame
<1>14. MemoryIsRight(i)
  BY <1>2, <1>10, <1>13, MemoryReads DEF new, m, x, result, bits, a
<1>15. ResultIsRight(i, w)
  BY <1>3, <1>7, OtherReads DEF m, bits
<1>16. generalPurpose' \in [Registers -> Words] /\ RegistersAreRight(i)
  BY <1>2, <1>3, <1>7, <1>15, WritesRight DEF LoudNames
<1>17. programCounter' \in Words /\ CounterIsRight(i)
  BY <1>1, <1>3, FallsRight, LoudIs
<1>18. QED
  BY <1>3, <1>10, <1>14, <1>16, <1>17 DEF AluTyped, ExecutedRight

\* Each instruction.
LEMMA EachRight ==
  ASSUME AluTyped, NEW i \in Program, Execute(i)
  PROVE  AluTyped' /\ ExecutedRight(i) /\ executed' = <<i>>
<1>1. executed' = <<i>>
  BY DEF Execute
<1>2. CASE (Compute(i) \/ lui(i) \/ auipc(i) \/ fence(i) \/ jal(i) \/ jalr(i) \/ branch(i)) /\ UNCHANGED addressed
  BY <1>1, <1>2, FallingRight, JumpRight, BranchRight
<1>3. CASE load(i)
  BY <1>1, <1>3, LoadingRight
<1>4. CASE store(i)
  BY <1>1, <1>4, StoringRight
<1>5. CASE amo(i)
  BY <1>1, <1>5, CombiningRight
<1>6. QED
  BY <1>2, <1>3, <1>4, <1>5 DEF Execute

\* The registers, the program counter and memory hold words, whatever is executed.
THEOREM WordsStay == AluSpec => []AluTyped
<1>1. AluInit => AluTyped
  BY InstructionAssumption, ImmediateIs DEF InstructionAssumption, AluInit, AluTyped
<1>2. AluTyped /\ [AluNext]_aluVars => AluTyped'
  BY EachRight DEF AluNext, aluVars, AluTyped
<1>3. QED
  BY <1>1, <1>2, PTL DEF AluSpec

\* Whatever the width of a byte and of a register, the registers, the memory and the
\* program: every handler leaves what the manual's arithmetic says.
THEOREM ExecuteExact == AluSpec => ExecutesPerManual
<1>1. AluTyped /\ [AluNext]_aluVars => [executed' # executed => ExecutedRight(executed'[1])]_aluVars
  <2> SUFFICES ASSUME AluTyped, AluNext, executed' # executed PROVE ExecutedRight(executed'[1])
    OBVIOUS
  <2>1. PICK i \in Program : Execute(i)
    BY DEF AluNext
  <2>2. ExecutedRight(i) /\ executed'[1] = i
    BY <2>1, EachRight
  <2>3. QED
    BY <2>2
<1>2. QED
  BY <1>1, WordsStay, PTL DEF AluSpec, ExecutesPerManual
=============================================================================

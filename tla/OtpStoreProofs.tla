--------------------------- MODULE OtpStoreProofs ---------------------------
(***************************************************************************)
(* The pool of one-time codes survives every overlap of presses, forms,    *)
(* reloads and restarts: proofs for any codes, entries and number of links. *)
(***************************************************************************)
EXTENDS OtpStore, FiniteSetTheorems, TLAPS

-----------------------------------------------------------------------------
(* Sequences without repetition. *)

\* What a concatenation holds.
LEMMA ConcatFacts ==
    ASSUME NEW S, NEW s \in Seq(S), NEW t \in Seq(S)
    PROVE  /\ s \o t \in Seq(S) /\ Len(s \o t) = Len(s) + Len(t)
           /\ \A k \in 1..Len(s \o t) :
                 (s \o t)[k] = IF k <= Len(s) THEN s[k] ELSE t[k - Len(s)]
OBVIOUS

\* A code that is removed leaves the others, in a list without repetition.
LEMMA RemoveAtFacts ==
    ASSUME NEW S, NEW s \in Seq(S), NEW i \in DOMAIN s, IsInjective(s)
    PROVE  /\ RemoveAt(s, i) \in Seq(S)
           /\ IsInjective(RemoveAt(s, i))
           /\ ToSet(s) \ {s[i]} \subseteq ToSet(RemoveAt(s, i))
<1> DEFINE r == RemoveAt(s, i)
<1>1. /\ r \in Seq(S) /\ Len(r) = Len(s) - 1
      /\ \A k \in 1..Len(r) : r[k] = IF k < i THEN s[k] ELSE s[k + 1]
  <2> DEFINE a == SubSeq(s, 1, i - 1)
             b == SubSeq(s, i + 1, Len(s))
  <2>1. /\ a \in Seq(S) /\ Len(a) = i - 1
        /\ \A k \in 1..(i - 1) : a[k] = s[k]
    OBVIOUS
  <2>2. /\ b \in Seq(S) /\ Len(b) = Len(s) - i
        /\ \A k \in 1..(Len(s) - i) : b[k] = s[k + i]
    OBVIOUS
  <2>3. r = a \o b
    BY DEF RemoveAt
  <2> HIDE DEF a, b, r
  <2>4. /\ r \in Seq(S) /\ Len(r) = Len(a) + Len(b)
        /\ \A k \in 1..Len(r) : r[k] = IF k <= Len(a) THEN a[k] ELSE b[k - Len(a)]
    BY ONLY <2>1, <2>2, <2>3, ConcatFacts
  <2>5. ASSUME NEW k \in 1..Len(r), ~(k < i) PROVE r[k] = s[k + 1]
    <3>1. Len(a) = i - 1 /\ Len(r) = Len(s) - 1 /\ i \in Nat /\ k \in Nat
      BY <2>1, <2>2, <2>4
    <3>2. k - Len(a) \in 1..(Len(s) - i) /\ k - Len(a) + i = k + 1 /\ ~(k <= Len(a))
      BY <2>5, <3>1
    <3>3. r[k] = b[k - Len(a)]
      BY <2>4, <3>2
    <3>4. b[k - Len(a)] = s[k - Len(a) + i]
      BY <2>2, <3>2
    <3> QED BY <3>2, <3>3, <3>4
  <2>6. ASSUME NEW k \in 1..Len(r), k < i PROVE r[k] = s[k]
    BY <2>1, <2>4, <2>6
  <2> QED BY <2>1, <2>2, <2>4, <2>5, <2>6
<1> HIDE DEF r
<1>2. IsInjective(r)
  <2> SUFFICES ASSUME NEW k \in 1..Len(r), NEW m \in 1..Len(r), r[k] = r[m]
               PROVE  k = m
    BY <1>1 DEF IsInjective
  <2> DEFINE at(n) == IF n < i THEN n ELSE n + 1
  <2>1. at(k) \in DOMAIN s /\ at(m) \in DOMAIN s
    BY <1>1
  <2>2. s[at(k)] = s[at(m)]
    BY <1>1
  <2>3. at(k) = at(m)
    BY <2>1, <2>2 DEF IsInjective
  <2> QED BY <2>3
<1>3. ASSUME NEW k \in DOMAIN s, k # i PROVE s[k] \in ToSet(r)
  <2>1. CASE k < i
    BY <1>1, <2>1 DEF ToSet
  <2>2. CASE k > i
    <3>1. k - 1 \in 1..Len(r) /\ r[k - 1] = s[k]
      BY <1>1, <2>2
    <3> QED BY <1>1, <3>1 DEF ToSet
  <2> QED BY <1>3, <2>1, <2>2
<1>4. ToSet(s) \ {s[i]} \subseteq ToSet(r)
  BY <1>3 DEF ToSet
<1> QED BY <1>1, <1>2, <1>4 DEF r

\* Codes appended to a list that has none of them.
LEMMA AppendFacts ==
    ASSUME NEW S, NEW s \in Seq(S), NEW t \in Seq(S),
           IsInjective(s), IsInjective(t), ToSet(s) \cap ToSet(t) = {}
    PROVE  /\ s \o t \in Seq(S)
           /\ IsInjective(s \o t)
           /\ ToSet(s) \subseteq ToSet(s \o t)
<1>1. /\ s \o t \in Seq(S) /\ Len(s \o t) = Len(s) + Len(t)
      /\ \A k \in 1..Len(s \o t) :
            (s \o t)[k] = IF k <= Len(s) THEN s[k] ELSE t[k - Len(s)]
  BY ConcatFacts
<1>2. \A j \in DOMAIN s, k \in DOMAIN t : s[j] # t[k]
  BY DEF ToSet
<1>3. IsInjective(s \o t)
  <2> SUFFICES ASSUME NEW a \in 1..Len(s \o t), NEW b \in 1..Len(s \o t),
                      (s \o t)[a] = (s \o t)[b]
               PROVE  a = b
    BY <1>1 DEF IsInjective
  <2>1. CASE a <= Len(s) /\ b <= Len(s)
    BY <1>1, <2>1 DEF IsInjective
  <2>2. CASE a > Len(s) /\ b > Len(s)
    <3>1. a - Len(s) \in DOMAIN t /\ b - Len(s) \in DOMAIN t
      BY <1>1, <2>2
    <3>2. t[a - Len(s)] = t[b - Len(s)]
      BY <1>1, <2>2
    <3>3. a - Len(s) = b - Len(s)
      BY <3>1, <3>2 DEF IsInjective
    <3> QED BY <1>1, <3>3
  <2>3. CASE a <= Len(s) /\ b > Len(s)
    BY <1>1, <1>2, <2>3
  <2>4. CASE a > Len(s) /\ b <= Len(s)
    BY <1>1, <1>2, <2>4
  <2> QED BY <1>1, <2>1, <2>2, <2>3, <2>4
<1>4. ASSUME NEW k \in DOMAIN s PROVE s[k] \in ToSet(s \o t)
  BY <1>1 DEF ToSet
<1> QED BY <1>1, <1>3, <1>4 DEF ToSet

\* The codes of a set, in any order.
LEMMA SetToSeqsFacts ==
    ASSUME NEW S, NEW T, T \subseteq S, IsFiniteSet(T), NEW t \in SetToSeqs(T)
    PROVE  t \in Seq(S) /\ IsInjective(t) /\ ToSet(t) \subseteq T
<1>1. Cardinality(T) \in Nat
  BY FS_CardinalityType
<1>2. t \in [1..Cardinality(T) -> T]
  BY DEF SetToSeqs
<1>3. t \in Seq(S)
  BY <1>1, <1>2
<1> QED BY <1>1, <1>2, <1>3 DEF SetToSeqs, IsInjective, ToSet

-----------------------------------------------------------------------------
(* The inductive invariant: every list is without repetition and, but for a *)
(* form that is over, has each code of the start that is unspent; a link     *)
(* that writes the store serves a press.                                    *)

OnceEach ==
    /\ IsInjective(disk) /\ IsInjective(draft)
    /\ \A l \in Links : IsInjective(pools[l])

Kept == PoolIsKept /\ (form \in {"loaded", "saving"} => Keeps(draft))

SavingIsAPress == \A l \in saving : press[l] # NoCode

PoolInv == TypeOK /\ OnceEach /\ Kept /\ SavingIsAPress

LEMMA PoolInit == Init => PoolInv
<1> SUFFICES ASSUME Init PROVE PoolInv
  OBVIOUS
<1>1. IsInjective(<<>>)
  BY DEF IsInjective
<1>2. 1 \in Links
  BY OtpStoreAssumption DEF Links
<1>3. <<>> \in Seq(Codes) /\ Initial \in Seq(Codes) /\ IsInjective(Initial)
  BY OtpStoreAssumption
<1>4. TypeOK
  BY <1>2, <1>3 DEF Init, TypeOK
<1>5. OnceEach
  BY <1>1, <1>3 DEF Init, OnceEach
<1>6. Kept /\ SavingIsAPress
  BY DEF Init, Kept, PoolIsKept, Keeps, SavingIsAPress
<1> QED BY <1>4, <1>5, <1>6 DEF PoolInv

LEMMA PoolStep == PoolInv /\ [Next]_vars => PoolInv'
<1> SUFFICES ASSUME PoolInv, [Next]_vars PROVE PoolInv'
  OBVIOUS
<1> USE DEF user
<1>1. CASE Peek
  <2>1. Head(pools[link]) \in Codes
    BY <1>1 DEF Peek, PoolInv, TypeOK
  <2>2. TypeOK'
    BY <1>1, <2>1 DEF Peek, PoolInv, TypeOK
  <2>3. (OnceEach /\ Kept /\ SavingIsAPress)'
    BY <1>1 DEF Peek, PoolInv, OnceEach, Kept, PoolIsKept, Keeps, SavingIsAPress
  <2> QED BY <2>2, <2>3 DEF PoolInv
<1>2. ASSUME NEW l \in Links, Fails(l) PROVE PoolInv'
  BY <1>2 DEF Fails, PoolInv, TypeOK, OnceEach, Kept, PoolIsKept, Keeps, SavingIsAPress
<1>3. ASSUME NEW l \in Links, Commit(l) PROVE PoolInv'
  <2>1. PICK i \in DOMAIN pools[l] :
            /\ pools[l][i] = press[l]
            /\ pools' = [pools EXCEPT ![l] = RemoveAt(pools[l], i)]
    BY <1>3 DEF Commit
  <2> DEFINE r == RemoveAt(pools[l], i)
  <2>2. pools[l] \in Seq(Codes) /\ IsInjective(pools[l])
    BY DEF PoolInv, TypeOK, OnceEach
  <2>3. /\ r \in Seq(Codes) /\ IsInjective(r)
        /\ ToSet(pools[l]) \ {press[l]} \subseteq ToSet(r)
    BY <2>1, <2>2, RemoveAtFacts
  <2>4. TypeOK'
    BY <1>3, <2>1, <2>3 DEF Commit, PoolInv, TypeOK
  <2>5. OnceEach'
    BY <1>3, <2>1, <2>3 DEF Commit, PoolInv, TypeOK, OnceEach
  <2>6. spent' = spent \cup {press[l]}
    BY <1>3 DEF Commit
  <2>7. ASSUME NEW m \in Links PROVE Keeps(pools[m])'
    <3>1. Keeps(pools[m])
      BY <2>7 DEF PoolInv, Kept, PoolIsKept
    <3>2. CASE m = l
      <4>1. pools'[m] = r
        BY <2>1, <3>2 DEF PoolInv, TypeOK
      <4> HIDE DEF r
      <4> QED BY <2>3, <2>6, <3>1, <3>2, <4>1 DEF Keeps
    <3>3. CASE m # l
      <4>1. pools'[m] = pools[m]
        BY <2>1, <3>3 DEF PoolInv, TypeOK
      <4> QED BY <2>6, <3>1, <4>1 DEF Keeps
    <3> QED BY <3>2, <3>3
  <2>8. (Kept /\ SavingIsAPress)'
    BY <1>3, <2>6, <2>7 DEF Commit, PoolInv, Kept, PoolIsKept, Keeps, SavingIsAPress
  <2> QED BY <2>4, <2>5, <2>8 DEF PoolInv
<1>4. ASSUME NEW l \in Links, CommitSaved(l) PROVE PoolInv'
  <2>1. press[l] \in Codes /\ pools[l] \in Seq(Codes)
    BY <1>4 DEF CommitSaved, PoolInv, TypeOK, SavingIsAPress
  <2>2. (OnceEach /\ Kept /\ SavingIsAPress)'
    BY <1>4 DEF CommitSaved, PoolInv, OnceEach, Kept, PoolIsKept, Keeps, SavingIsAPress
  <2>3. TypeOK'
    BY <1>4, <2>1 DEF CommitSaved, PoolInv, TypeOK
  <2> QED BY <2>2, <2>3 DEF PoolInv
<1>5. CASE FormLoads
  BY <1>5 DEF FormLoads, PoolInv, TypeOK, OnceEach, Kept, PoolIsKept, Keeps, SavingIsAPress
<1>6. ASSUME NEW typed \in Entries, FormAdds(typed) PROVE PoolInv'
  <2>1. typed \subseteq Codes /\ IsFiniteSet(typed)
    BY OtpStoreAssumption
  <2>2. PICK new \in SetToSeqs(typed \ ToSet(draft)) : draft' = draft \o new
    BY <1>6 DEF FormAdds
  <2>3. IsFiniteSet(typed \ ToSet(draft)) /\ typed \ ToSet(draft) \subseteq Codes
    BY <2>1, FS_Subset
  <2>4. new \in Seq(Codes) /\ IsInjective(new) /\ ToSet(new) \subseteq typed \ ToSet(draft)
    BY <2>3, SetToSeqsFacts
  <2>5. /\ draft' \in Seq(Codes) /\ IsInjective(draft')
        /\ ToSet(draft) \subseteq ToSet(draft')
    BY <2>2, <2>4, AppendFacts DEF PoolInv, TypeOK, OnceEach
  <2>6. TypeOK'
    BY <1>6, <2>3, <2>5 DEF FormAdds, PoolInv, TypeOK
  <2>7. OnceEach'
    BY <1>6, <2>5 DEF FormAdds, PoolInv, OnceEach
  <2>8. (Kept /\ SavingIsAPress)'
    BY <1>6, <2>5 DEF FormAdds, PoolInv, Kept, PoolIsKept, Keeps, SavingIsAPress
  <2> QED BY <2>6, <2>7, <2>8 DEF PoolInv
<1>7. CASE FormInvalid
  BY <1>7 DEF FormInvalid, PoolInv, TypeOK, OnceEach, Kept, PoolIsKept, Keeps, SavingIsAPress
<1>8. CASE FormSaved
  BY <1>8 DEF FormSaved, PoolInv, TypeOK, OnceEach, Kept, PoolIsKept, Keeps, SavingIsAPress
<1>9. CASE FormEnds
  BY <1>9 DEF FormEnds, PoolInv, TypeOK, OnceEach, Kept, PoolIsKept, Keeps, SavingIsAPress
<1>10. ASSUME SetUp PROVE /\ link' \in Links /\ pools' \in [Links -> Seq(Codes)]
                          /\ \A l \in Links : IsInjective(pools'[l]) /\ Keeps(pools[l])'
  <2>1. link + 1 \in Links
    BY <1>10, OtpStoreAssumption DEF SetUp, PoolInv, TypeOK, Links
  <2> QED BY <1>10, <2>1 DEF SetUp, PoolInv, TypeOK, OnceEach, Kept, PoolIsKept, Keeps, SavingIsAPress
<1>11. CASE Reload
  BY <1>10, <1>11
     DEF Reload, SetUp, PoolInv, TypeOK, OnceEach, Kept, PoolIsKept, Keeps, SavingIsAPress
<1>12. CASE Restart
  BY <1>10, <1>12
     DEF Restart, SetUp, PoolInv, TypeOK, OnceEach, Kept, PoolIsKept, Keeps, SavingIsAPress
<1>13. CASE UNCHANGED vars
  BY <1>13 DEF vars, PoolInv, TypeOK, OnceEach, Kept, PoolIsKept, Keeps, SavingIsAPress
<1> QED
  BY <1>1, <1>2, <1>3, <1>4, <1>5, <1>6, <1>7, <1>8, <1>9, <1>11, <1>12, <1>13 DEF Next

-----------------------------------------------------------------------------
(* The theorems. *)

\* The types of the store, the pools and the form.
THEOREM TypeCorrect == Spec => []TypeOK
<1>1. PoolInv => TypeOK
  BY DEF PoolInv
<1> QED BY <1>1, PoolInit, PoolStep, PTL DEF Spec

\* No overlap makes the store hold a code twice.
THEOREM NoCodeTwiceHolds == Spec => []NoCodeTwice
<1>1. PoolInv => NoCodeTwice
  BY DEF PoolInv, OnceEach, NoCodeTwice
<1> QED BY <1>1, PoolInit, PoolStep, PTL DEF Spec

\* No overlap loses an unspent code that was in the pool at the start.
THEOREM PoolIsKeptHolds == Spec => []PoolIsKept
<1>1. PoolInv => PoolIsKept
  BY DEF PoolInv, Kept
<1> QED BY <1>1, PoolInit, PoolStep, PTL DEF Spec
=============================================================================

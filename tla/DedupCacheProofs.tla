--------------------------- MODULE DedupCacheProofs ---------------------------
(***************************************************************************)
(* Proofs about DedupCache, for any keys, TTL and waits: the cleaned map   *)
(* answers like one that never forgets, and what is let through twice is   *)
(* TTL apart, less twice the longest wait.                                 *)
(***************************************************************************)
EXTENDS DedupCache, TLAPS

\* A reading is a time, not later than the clock and no older than Skew.
LEMMA ReadingsOf ==
    ASSUME clock \in Nat, NEW now \in Readings
    PROVE  now \in Nat /\ now <= clock /\ now >= clock - Skew
  BY DedupAssumption DEF Readings

\* The entries that cleaning leaves, and those it takes.
LEMMA CleanedOf ==
    ASSUME NEW f \in [Keys -> Times], NEW now \in Nat, NEW k \in Keys
    PROVE  /\ Cleaned(f, now) \in [Keys -> Times]
           /\ Cleaned(f, now)[k] # Never => Cleaned(f, now)[k] = f[k]
           /\ Cleaned(f, now)[k] = Never /\ f[k] # Never => f[k] + TTL <= now
  BY DedupAssumption DEF Cleaned, Times, Never

LEMMA InitHolds == Init => IInv
  BY DedupAssumption DEF Init, IInv, TypeOK, Entry, Nothing, Times, Never

\* A duplicate keeps the invariant.
LEMMA SeenAgainKeeps ==
    ASSUME IInv, NEW k \in Keys, NEW now \in Readings, SeenAgain(k, now)
    PROVE  IInv'
  <1>1. now \in Nat /\ now <= clock /\ now >= clock - Skew
    BY ReadingsOf DEF IInv, TypeOK
  <1>2. TypeOK'
    BY <1>1 DEF IInv, TypeOK, SeenAgain, Answer, Times
  <1>3. ASSUME NEW j \in Keys PROVE Entry(j)'
    <2>1. CASE j = k
      BY <1>1, <2>1, DedupAssumption
      DEF IInv, TypeOK, Entry, SeenAgain, Fresh, Times, Never
    <2>2. CASE j # k
      BY <2>2 DEF IInv, TypeOK, Entry, SeenAgain
    <2> QED
      BY <2>1, <2>2
  <1> QED
    BY <1>2, <1>3 DEF IInv

\* So does a first sight, with its cleaning of the map.
LEMMA SeenFirstKeeps ==
    ASSUME IInv, NEW k \in Keys, NEW now \in Readings, SeenFirst(k, now)
    PROVE  IInv'
  <1> DEFINE f == [m EXCEPT ![k] = now]
  <1>1. now \in Nat /\ now <= clock /\ now >= clock - Skew
    BY ReadingsOf DEF IInv, TypeOK
  <1>2. f \in [Keys -> Times]
    BY <1>1 DEF IInv, TypeOK, Times
  <1>3. m' = Cleaned(f, now)
    BY DEF SeenFirst
  <1>4. TypeOK'
    <2>1. m' \in [Keys -> Times]
      BY <1>1, <1>2, <1>3, CleanedOf DEF Cleaned, Times, Never
    <2> QED
      BY <1>1, <2>1 DEF IInv, TypeOK, SeenFirst, Answer, Times
  <1>5. ASSUME NEW j \in Keys PROVE Entry(j)'
    <2>1. /\ m'[j] # Never => m'[j] = f[j]
          /\ m'[j] = Never /\ f[j] # Never => f[j] + TTL <= now
      BY <1>1, <1>2, <1>3, CleanedOf
    <2>2. CASE j = k
      <3>1. f[j] = now /\ sight'[j] = now /\ passed'[j] = now
        BY <2>2 DEF IInv, TypeOK, SeenFirst
      <3> QED
        BY <1>1, <2>1, <3>1, DedupAssumption DEF SeenFirst, Entry, Never, IInv, TypeOK
    <2>3. CASE j # k
      <3>1. f[j] = m[j] /\ sight'[j] = sight[j] /\ passed'[j] = passed[j] /\ clock' = clock
        BY <2>3 DEF IInv, TypeOK, SeenFirst
      <3>2. Entry(j) /\ m[j] \in Times /\ sight[j] \in Times
        BY DEF IInv, TypeOK
      <3> HIDE DEF f
      <3>3. m'[j] # Never => sight'[j] = m'[j]
        BY <2>1, <3>1, <3>2 DEF Entry, Never
      <3>4. m'[j] = Never /\ sight'[j] # Never => sight'[j] + TTL <= clock'
        BY <1>1, <2>1, <3>1, <3>2, DedupAssumption DEF Entry, Never, Times, IInv, TypeOK
      <3> QED
        BY <3>1, <3>2, <3>3, <3>4 DEF Entry
    <2> QED
      BY <2>2, <2>3
  <1> QED
    BY <1>4, <1>5 DEF IInv

LEMMA StepKeeps == IInv /\ [Next]_vars => IInv'
  <1> SUFFICES ASSUME IInv, [Next]_vars PROVE IInv'
    OBVIOUS
  <1>1. CASE \E k \in Keys, now \in Readings : SeenAgain(k, now) \/ SeenFirst(k, now)
    BY <1>1, SeenAgainKeeps, SeenFirstKeeps
  <1>2. CASE SeenBlank
    BY <1>2 DEF IInv, TypeOK, Entry, SeenBlank, Answer
  <1>3. CASE Tick
    BY <1>3, DedupAssumption DEF IInv, TypeOK, Entry, Tick, Times, Never
  <1>4. CASE Restart
    BY <1>4, DedupAssumption DEF IInv, TypeOK, Entry, Restart, Nothing, Times, Never
  <1>5. CASE UNCHANGED vars
    BY <1>5 DEF IInv, TypeOK, Entry, vars
  <1> QED
    BY <1>1, <1>2, <1>3, <1>4, <1>5 DEF Next

\* IInv is an invariant of the cache.
THEOREM Invariance == Spec => []IInv
  BY InitHolds, StepKeeps, PTL DEF Spec

\* Every variable keeps its type.
THEOREM TypeCorrect == Spec => []TypeOK
  BY Invariance, PTL DEF IInv

\* What is not fresh was last seen TTL ago, less one wait, or never.
LEMMA StaleIsOld ==
    ASSUME IInv, NEW k \in Keys, NEW now \in Readings, ~Fresh(k, now), sight[k] # Never
    PROVE  now - sight[k] >= TTL - Skew
  <1>1. now \in Nat /\ now <= clock /\ now >= clock - Skew
    BY ReadingsOf DEF IInv, TypeOK
  <1>2. Entry(k) /\ m[k] \in Times /\ sight[k] \in Times /\ clock \in Nat
    BY DEF IInv, TypeOK
  <1> QED
    BY <1>1, <1>2, DedupAssumption DEF Entry, Fresh, Times, Never

\* Each step of the cache is one of the suppressor, or none.
LEMMA StepImplements == IInv /\ [Next]_vars => [Promise!Next]_(Promise!suppressorVars)
  <1> SUFFICES ASSUME IInv, [Next]_vars
               PROVE  Promise!Next \/ UNCHANGED Promise!suppressorVars
    OBVIOUS
  <1> USE DEF Promise!Never, Never, Promise!Answer, Answer
  <1>1. ASSUME NEW k \in Keys, NEW now \in Readings, SeenAgain(k, now)
        PROVE  Promise!Suppress(k)
    <2>1. now \in Nat
      BY ReadingsOf DEF IInv, TypeOK
    <2>2. sight'[k] = now /\ sight[k] = m[k]
      BY <1>1 DEF SeenAgain, Fresh, IInv, TypeOK, Entry
    <2> QED
      BY <1>1, <2>1, <2>2 DEF Promise!Suppress, Promise!Sees, SeenAgain, Fresh
  <1>2. ASSUME NEW k \in Keys, NEW now \in Readings, SeenFirst(k, now)
        PROVE  Promise!Admit(k)
    <2>1. now \in Nat
      BY ReadingsOf DEF IInv, TypeOK
    <2>2. sight'[k] = now
      BY <1>2 DEF SeenFirst, IInv, TypeOK
    <2>3. sight[k] # Never => now - sight[k] >= TTL - Skew
      BY <1>2, StaleIsOld DEF SeenFirst
    <2> QED
      BY <1>2, <2>1, <2>2, <2>3 DEF Promise!Admit, Promise!Sees, SeenFirst
  <1>3. CASE SeenBlank
    BY <1>3 DEF SeenBlank, Promise!Next, Promise!LetThrough
  <1>4. CASE Tick
    BY <1>4 DEF Tick, Promise!suppressorVars
  <1>5. CASE Restart
    BY <1>5 DEF Restart, Nothing, Promise!Next, Promise!Forget, Promise!Init
  <1>6. CASE UNCHANGED vars
    BY <1>6 DEF vars, Promise!suppressorVars
  <1>7. CASE \E k \in Keys, now \in Readings : SeenAgain(k, now) \/ SeenFirst(k, now)
    BY <1>1, <1>2, <1>7 DEF Promise!Next
  <1> QED
    BY <1>3, <1>4, <1>5, <1>6, <1>7 DEF Next

\* The cache implements the suppressor.
THEOREM ImplementsSuppressor == Spec => ActsAsSuppressor
  <1>1. Init => Promise!Init
    BY DEF Init, Nothing, Never, Promise!Init, Promise!Never
  <1> QED
    BY <1>1, Invariance, StepImplements, PTL DEF Spec, ActsAsSuppressor, Promise!Spec

\* Handling the same message twice within TTL takes callers that waited.
THEOREM HandledApart == Spec => AdmittedApart
  <1>1. ASSUME IInv, NEW k \in Keys, NEW now \in Readings, SeenFirst(k, now),
               passed[k] # Never
        PROVE  now - passed[k] >= TTL - 2 * Skew
    <2>1. sight[k] # Never /\ sight[k] >= passed[k] - Skew
      BY <1>1 DEF IInv, Entry
    <2>2. now - sight[k] >= TTL - Skew
      BY <1>1, <2>1, StaleIsOld DEF SeenFirst
    <2>3. now \in Nat /\ sight[k] \in Int /\ passed[k] \in Int
      BY <1>1, ReadingsOf DEF IInv, TypeOK, Times, Never
    <2> QED
      BY <2>1, <2>2, <2>3, DedupAssumption
  <1>2. IInv => \A k \in Keys, now \in Readings :
                   SeenFirst(k, now) /\ passed[k] # Never
                      => now - passed[k] >= TTL - 2 * Skew
    BY <1>1
  <1> QED
    BY <1>2, Invariance, PTL DEF AdmittedApart
=============================================================================

--------------------------- MODULE RateLimiterProofs ---------------------------
(***************************************************************************)
(* The rate limiter keeps its promises for every set of clients, every     *)
(* limit, every cap and every length of a window.                          *)
(***************************************************************************)
EXTENDS RateLimiter, FiniteSetTheorems, FunctionTheorems, TLAPS

\* The map's order is one: no key before itself, one of any two before the
\* other, and transitive.
Ordered ==
  /\ \A k \in DOMAIN windows : <<k, k>> \notin older
  /\ \A j, k \in DOMAIN windows : j # k => (<<j, k>> \in older <=> <<k, j>> \notin older)
  /\ \A i, j, k \in DOMAIN windows :
       <<i, j>> \in older /\ <<j, k>> \in older => <<i, k>> \in older

Bounded == IsFiniteSet(DOMAIN windows) /\ Cardinality(DOMAIN windows) <= MaxWindows

\* Answers told apart by their number in their window: no more than the limit
Numbered(S) == \A a, b \in S : a.count = b.count => a = b

\* Whether an answer is of the window on show, which starts WindowMs before it resets
InWindow(key, a) == key \in DOMAIN windows => a.at + WindowMs >= windows[key].resetAt

Since(key) == {a \in admitted[key] : InWindow(key, a)}
Before(key) == {a \in admitted[key] : ~InWindow(key, a)}

\* What is left of a key's history: answers of the window on show, numbered up to
\* its count, and of one window before it
History(key) ==
  /\ Numbered(Since(key)) /\ Numbered(Before(key))
  /\ \A a \in admitted[key] : a.at + WindowMs > now
  /\ key \in DOMAIN windows =>
       /\ windows[key].resetAt <= now + WindowMs
       /\ \A a \in Since(key) : a.count <= windows[key].count
       /\ \A a \in admitted[key] : a.at < windows[key].resetAt
  /\ key \notin DOMAIN windows => \A a \in admitted[key] : a.at < now

\* A live window's count is of requests it let through, up to the limit
Filled(key) ==
  key \in LiveKeys =>
    \A n \in 1 .. LimitOf(key) : n <= windows[key].count => \E a \in Since(key) : a.count = n

RateInv ==
  /\ RateTypeOK /\ Bounded /\ Ordered
  /\ \A key \in Key : History(key)
  /\ \A key \in Key : Filled(key)

-----------------------------------------------------------------------------
\* What the constants are, key by key
LEMMA Limits ==
  /\ WindowMs \in Nat \ {0} /\ MaxWindows \in Nat \ {0} /\ MaxTime \in Nat
  /\ \A key \in Key : LimitOf(key) \in Nat \ {0}
BY RateAssumption DEF Key, LimitOf

\* Answers with numbers of their own are at most as many as the numbers
LEMMA NumberedIsBounded ==
  ASSUME NEW n \in Nat, NEW S, Numbered(S), \A a \in S : a.count \in 1 .. n
  PROVE  IsFiniteSet(S) /\ Cardinality(S) <= n
<1> DEFINE f == [a \in S |-> a.count]
<1>1. f \in Injection(S, 1 .. n)
  <2>1. f \in [S -> 1 .. n]
    OBVIOUS
  <2>2. \A a, b \in S : f[a] = f[b] => a = b
    BY DEF Numbered
  <2> QED
    BY <2>1, <2>2, Fun_IsInj
<1>2. IsFiniteSet(1 .. n) /\ Cardinality(1 .. n) <= n
  BY FS_Interval
<1>3. IsFiniteSet(S) /\ Cardinality(S) <= Cardinality(1 .. n)
  BY <1>1, <1>2, FS_Injection
<1> QED
  BY <1>2, <1>3, FS_CardinalityType

\* ... and answers of which each number up to n is one's are at least n
LEMMA NumbersAreAnswers ==
  ASSUME NEW n \in Nat, NEW S, IsFiniteSet(S), \A i \in 1 .. n : \E a \in S : a.count = i
  PROVE  Cardinality(S) >= n
<1> DEFINE f == [i \in 1 .. n |-> CHOOSE a \in S : a.count = i]
<1>1. \A i \in 1 .. n : f[i] \in S /\ f[i].count = i
  OBVIOUS
<1>2. f \in Injection(1 .. n, S)
  <2>1. f \in [1 .. n -> S]
    BY <1>1
  <2>2. \A i, j \in 1 .. n : f[i] = f[j] => i = j
    BY <1>1
  <2> QED
    BY <2>1, <2>2, Fun_IsInj
<1>3. IsFiniteSet(1 .. n) /\ Cardinality(1 .. n) = n
  BY FS_Interval
<1>4. Cardinality(1 .. n) <= Cardinality(S)
  BY <1>2, FS_Injection
<1> QED
  BY <1>3, <1>4

\* A part of an ordered and finite map in which every key has fewer than n - 1
\* live keys after it has fewer than n keys: no two of them have as many.
LEMMA SweepFits ==
  ASSUME Bounded, Ordered
  PROVE  IsFiniteSet(Sweep) /\ Cardinality(Sweep) < MaxWindows
<1> DEFINE Younger(k) == {j \in LiveKeys : <<k, j>> \in older}
           f == [k \in Sweep |-> Cardinality(Younger(k))]
<1>1. \A k : IsFiniteSet(Younger(k)) /\ Cardinality(Younger(k)) \in Nat
  <2> TAKE k
  <2>1. Younger(k) \in SUBSET DOMAIN windows
    BY DEF LiveKeys
  <2> QED
    BY <2>1, FS_Subset, FS_CardinalityType DEF Bounded
<1>2. ASSUME NEW j \in Sweep, NEW k \in Sweep, <<j, k>> \in older
      PROVE  Cardinality(Younger(j)) # Cardinality(Younger(k))
  <2>1. Younger(k) \in SUBSET Younger(j)
    BY <1>2 DEF Sweep, LiveKeys, Ordered
  <2>2. k \in Younger(j) /\ k \notin Younger(k)
    BY <1>2 DEF Sweep, LiveKeys, Ordered
  <2> HIDE DEF Younger
  <2> QED
    BY <1>1, <2>1, <2>2, FS_Subset
<1>3. f \in Injection(Sweep, 0 .. MaxWindows - 2)
  <2>1. \A k \in Sweep : Cardinality(Younger(k)) \in 0 .. MaxWindows - 2
    <3> SUFFICES ASSUME NEW k \in Sweep
                 PROVE  Cardinality(Younger(k)) \in 0 .. MaxWindows - 2
      OBVIOUS
    <3>1. Cardinality(Younger(k)) + 1 < MaxWindows
      BY DEF Sweep
    <3> QED
      BY <1>1, <3>1, Limits
  <2>2. \A j, k \in Sweep : f[j] = f[k] => j = k
    <3> SUFFICES ASSUME NEW j \in Sweep, NEW k \in Sweep, f[j] = f[k], j # k
                 PROVE  FALSE
      OBVIOUS
    <3>1. <<j, k>> \in older \/ <<k, j>> \in older
      BY DEF Sweep, LiveKeys, Ordered
    <3>2. Cardinality(Younger(j)) = Cardinality(Younger(k))
      OBVIOUS
    <3> HIDE DEF Younger, f
    <3> QED
      BY <1>2, <3>1, <3>2
  <2>3. f \in [Sweep -> 0 .. MaxWindows - 2]
    BY <2>1
  <2> HIDE DEF f
  <2> QED
    BY <2>2, <2>3, Fun_IsInj
<1> HIDE DEF f
<1>4. IsFiniteSet(0 .. MaxWindows - 2) /\ Cardinality(0 .. MaxWindows - 2) < MaxWindows
  <2>1. MaxWindows \in Nat \ {0} /\ MaxWindows - 2 \in Int /\ 0 \in Int
    BY Limits
  <2>2. /\ IsFiniteSet(0 .. MaxWindows - 2)
        /\ Cardinality(0 .. MaxWindows - 2) =
             IF 0 > MaxWindows - 2 THEN 0 ELSE (MaxWindows - 2) - 0 + 1
    BY <2>1, FS_Interval, Zenon
  <2> QED
    BY <2>1, <2>2
<1>5. IsFiniteSet(Sweep) /\ Cardinality(Sweep) <= Cardinality(0 .. MaxWindows - 2)
  BY <1>3, <1>4, FS_Injection
<1> QED
  BY <1>4, <1>5, Limits, FS_CardinalityType

LEMMA KeptFits ==
  ASSUME Bounded, Ordered, NEW key
  PROVE  /\ Kept \subseteq DOMAIN windows
         /\ IsFiniteSet(Kept \cup {key}) /\ Cardinality(Kept \cup {key}) <= MaxWindows
<1>1. CASE Cardinality(DOMAIN windows) >= MaxWindows
  <2>1. Kept = Sweep
    BY <1>1 DEF Kept
  <2>2. Sweep \subseteq DOMAIN windows
    BY DEF Sweep, LiveKeys
  <2>3. IsFiniteSet(Sweep) /\ Cardinality(Sweep) < MaxWindows
    BY SweepFits
  <2>4. Cardinality(Sweep) \in Nat
    BY <2>3, FS_CardinalityType
  <2>5. /\ IsFiniteSet(Sweep \cup {key})
        /\ Cardinality(Sweep \cup {key}) \in {Cardinality(Sweep), Cardinality(Sweep) + 1}
    BY <2>3, FS_AddElement
  <2>6. Cardinality(Sweep \cup {key}) <= MaxWindows
    BY <2>3, <2>4, <2>5, Limits
  <2> QED
    BY <2>1, <2>2, <2>5, <2>6
<1>2. CASE ~(Cardinality(DOMAIN windows) >= MaxWindows)
  <2>1. Kept = DOMAIN windows
    BY <1>2 DEF Kept
  <2>2. Cardinality(DOMAIN windows) \in Nat
    BY FS_CardinalityType DEF Bounded
  <2>3. /\ IsFiniteSet(DOMAIN windows \cup {key})
        /\ Cardinality(DOMAIN windows \cup {key})
             \in {Cardinality(DOMAIN windows), Cardinality(DOMAIN windows) + 1}
    BY FS_AddElement DEF Bounded
  <2>4. Cardinality(DOMAIN windows \cup {key}) <= MaxWindows
    BY <1>2, <2>2, <2>3, Limits
  <2> QED
    BY <2>1, <2>3, <2>4
<1> QED
  BY <1>1, <1>2

\* Once a key's window has elapsed, or a sweep has dropped it, what is left of
\* its history is of one window and before this instant.
LEMMA OldAnswers ==
  ASSUME RateInv, NEW k \in Key, ~Live(k),
         NEW S, S = {a \in admitted[k] : k \in LiveKeys => k \in Kept}
  PROVE  Numbered(S) /\ \A a \in S : a.at < now /\ a.at + WindowMs > now
<1>1. CASE k \notin DOMAIN windows
  BY <1>1 DEF RateInv, History, Since, InWindow, Numbered
<1>2. CASE k \in DOMAIN windows /\ Elapsed(k)
  <2>1. \A a \in S : a \in admitted[k] /\ a.at + WindowMs > now
    BY DEF RateInv, History
  <2>2. /\ now \in Nat /\ windows[k].resetAt \in Nat /\ windows[k].resetAt <= now
        /\ \A a \in S : a.at \in Nat
    BY <1>2, Limits DEF RateInv, RateTypeOK, Window, Answer, Elapsed
  <2>3. \A a \in S : a \in Since(k) /\ a.at < windows[k].resetAt
    BY <1>2, <2>1, <2>2, Limits DEF Since, InWindow, RateInv, History
  <2> QED
    BY <2>1, <2>2, <2>3 DEF Numbered, RateInv, History
<1>3. CASE k \in LiveKeys /\ k \notin Kept
  <2>1. S = {}
    BY <1>3
  <2> QED
    BY <2>1 DEF Numbered
<1> QED
  BY <1>1, <1>2, <1>3 DEF Live, LiveKeys

LEMMA TickKeeps ==
  ASSUME RateInv, Tick
  PROVE  RateInv'
<1>1. /\ now \in 0 .. MaxTime /\ now' = now + 1 /\ now' \in 0 .. MaxTime
      /\ windows' = windows /\ older' = older
      /\ admitted' = [key \in Key |-> {a \in admitted[key] : a.at + WindowMs > now + 1}]
  BY Limits DEF Tick, RateInv, RateTypeOK
<1>2. RateTypeOK'
  <2>1. \A key \in Key : admitted'[key] \subseteq Answer(key)'
    BY <1>1, Limits DEF RateInv, RateTypeOK, Answer, LimitOf
  <2> QED
    BY <1>1, <2>1 DEF RateInv, RateTypeOK, Window, LimitOf
<1>3. Bounded' /\ Ordered'
  BY <1>1 DEF RateInv, Bounded, Ordered
<1>4. ASSUME NEW key \in Key PROVE History(key)'
  <2>1. Since(key)' \subseteq Since(key) /\ Before(key)' \subseteq Before(key)
    BY <1>1 DEF Since, Before, InWindow
  <2>2. \A a \in admitted'[key] : a \in admitted[key] /\ a.at + WindowMs > now'
    BY <1>1
  <2>3. \A a \in admitted[key] : a.at \in Nat
    BY <1>1 DEF RateInv, RateTypeOK, Answer
  <2>4. key \in DOMAIN windows => windows[key].resetAt \in Nat
    BY Limits DEF RateInv, RateTypeOK, Window
  <2>5. History(key)
    BY DEF RateInv
  <2> QED
    BY <1>1, <2>1, <2>2, <2>3, <2>4, <2>5, Limits DEF History, Numbered
<1>5. ASSUME NEW key \in Key PROVE Filled(key)'
  <2> SUFFICES ASSUME key \in LiveKeys',
                      NEW n \in 1 .. LimitOf(key), n <= windows[key].count
               PROVE  \E a \in Since(key)' : a.count = n
    BY <1>1 DEF Filled, LimitOf
  <2>1. key \in DOMAIN windows /\ windows[key].resetAt \in Nat /\ windows[key].resetAt > now + 1
    BY <1>1, Limits DEF LiveKeys, Elapsed, RateInv, RateTypeOK, Window
  <2>2. key \in LiveKeys
    BY <1>1, <2>1 DEF LiveKeys, Elapsed
  <2>3. PICK a \in Since(key) : a.count = n
    BY <2>2 DEF RateInv, Filled
  <2>4. a \in admitted[key] /\ a.at + WindowMs >= windows[key].resetAt /\ a.at \in Nat
    BY <2>1, <2>3 DEF Since, InWindow, RateInv, RateTypeOK, Answer
  <2>5. a \in Since(key)'
    BY <1>1, <2>1, <2>4, Limits DEF Since, InWindow
  <2> QED
    BY <2>3, <2>5
<1> QED
  BY <1>2, <1>3, <1>4, <1>5 DEF RateInv

\* One call of the limiter, in the map and in what it says of its history
LEMMA RequestKeeps ==
  ASSUME RateInv, NEW key \in Key, Request(key)
  PROVE  RateInv'
<1> DEFINE w == IF Live(key) THEN Counted(key) ELSE Fresh
           old(k) == {a \in admitted[k] : k \in LiveKeys => k \in Kept}
           new(k) == {a \in {[at |-> now, count |-> w.count]} : k = key /\ Allows(key, w)}
<1>1. /\ windows' = [k \in Kept \cup {key} |-> IF k = key THEN w ELSE windows[k]]
      /\ older' = {p \in Kept \X (Kept \cup {key}) : p \in older \/ p[2] \notin Kept}
      /\ admitted' = [k \in Key |-> old(k) \cup new(k)]
      /\ now' = now
  BY DEF Request, MapSet, Answers
<1>2. now \in 0 .. MaxTime /\ now \in Nat
  BY Limits DEF RateInv, RateTypeOK
<1>3. /\ Kept \subseteq DOMAIN windows
      /\ IsFiniteSet(Kept \cup {key}) /\ Cardinality(Kept \cup {key}) <= MaxWindows
  BY KeptFits DEF RateInv
<1>4. DOMAIN windows' = Kept \cup {key}
  BY <1>1
<1>5. /\ w \in Window(key) /\ w.resetAt <= now + WindowMs /\ w.resetAt > now
      /\ Live(key) => /\ w.resetAt = windows[key].resetAt
                      /\ w.count <= LimitOf(key) => w.count = windows[key].count + 1
      /\ ~Live(key) => w.resetAt = now + WindowMs /\ w.count = 1
  <2>1. CASE Live(key)
    <3>1. w = Counted(key) /\ key \in DOMAIN windows /\ ~Elapsed(key)
      BY <1>3, <2>1 DEF Live
    <3>2. windows[key] \in Window(key) /\ windows[key].resetAt <= now + WindowMs
      BY <3>1 DEF RateInv, RateTypeOK, History
    <3> QED
      BY <1>2, <2>1, <3>1, <3>2, Limits DEF Counted, Window, Elapsed
  <2>2. CASE ~Live(key)
    BY <1>2, <2>2, Limits DEF Fresh, Window
  <2> QED
    BY <2>1, <2>2
<1> HIDE DEF w
<1>6. RateTypeOK'
  <2>1. \A k \in DOMAIN windows' : windows'[k] \in Window(k)'
    BY <1>1, <1>3, <1>4, <1>5 DEF RateInv, RateTypeOK, Window, LimitOf
  <2>2. \A k \in Key : old(k) \subseteq Answer(k) /\ new(k) \subseteq Answer(k)
    BY <1>2, <1>5, Limits DEF RateInv, RateTypeOK, Answer, Allows, Window
  <2>3. \A k \in Key : admitted'[k] \subseteq Answer(k)'
    BY <1>1, <2>2 DEF Answer, LimitOf
  <2>4. DOMAIN windows' \subseteq Key
    BY <1>3, <1>4 DEF RateInv, RateTypeOK
  <2> QED
    BY <1>1, <1>2, <1>4, <2>1, <2>3, <2>4 DEF RateTypeOK
<1>7. Bounded'
  BY <1>3, <1>4 DEF Bounded
<1>8. Ordered'
  <2>1. \A j, k \in Kept \cup {key} :
          <<j, k>> \in older' <=>
            /\ j \in Kept
            /\ IF k \in Kept THEN <<j, k>> \in older ELSE TRUE
    BY <1>1
  <2> QED
    BY <1>3, <1>4, <2>1 DEF RateInv, Ordered
<1>9. ASSUME NEW k \in Key, k # key PROVE History(k)'
  <2>1. admitted'[k] = old(k) /\ (k \in DOMAIN windows' <=> k \in Kept)
    BY <1>1, <1>4, <1>9
  <2>2. CASE k \in Kept
    <3>1. /\ admitted'[k] = admitted[k] /\ windows'[k] = windows[k]
          /\ k \in DOMAIN windows /\ k \in DOMAIN windows'
      BY <1>1, <1>3, <1>9, <2>1, <2>2
    <3>2. History(k)
      BY DEF RateInv
    <3> QED
      BY <1>1, <3>1, <3>2 DEF History, Since, Before, InWindow, Numbered
  <2>3. CASE k \notin Kept
    <3>1. Numbered(old(k)) /\ \A a \in old(k) : a.at < now /\ a.at + WindowMs > now
      BY <2>3, OldAnswers DEF Live
    <3>2. Since(k)' = old(k) /\ Before(k)' = {} /\ k \notin DOMAIN windows'
      BY <2>1, <2>3 DEF Since, Before, InWindow
    <3> QED
      BY <1>1, <2>1, <3>1, <3>2 DEF History, Numbered
  <2> QED
    BY <2>2, <2>3
<1>10. History(key)'
  <2>1. /\ admitted'[key] = old(key) \cup new(key)
        /\ key \in DOMAIN windows' /\ windows'[key] = w
        /\ \A a \in new(key) : a.at = now /\ a.count = w.count
        /\ \A a, b \in new(key) : a = b
        /\ new(key) # {} => w.count <= LimitOf(key)
    BY <1>1, <1>4 DEF Allows
  <2>2. /\ \A a \in old(key) : a.at \in Nat /\ a.count \in Nat
        /\ w.resetAt \in Nat /\ w.count \in Nat
    BY <1>2, <1>5, Limits DEF RateInv, RateTypeOK, Answer, Window
  <2>3. CASE ~Live(key)
    <3>1. Numbered(old(key)) /\ \A a \in old(key) : a.at < now /\ a.at + WindowMs > now
      BY <2>3, OldAnswers
    <3>2. Since(key)' = new(key) /\ Before(key)' = old(key)
      BY <1>2, <1>5, <2>1, <2>2, <2>3, <3>1, Limits DEF Since, Before, InWindow
    <3> HIDE DEF old, new
    <3> QED
      BY <1>1, <1>2, <1>5, <2>1, <2>2, <3>1, <3>2, Limits DEF History, Numbered
  <2>4. CASE Live(key)
    <3>1. key \in DOMAIN windows /\ old(key) = admitted[key] /\ windows[key].count \in Nat
      BY <1>3, <2>4 DEF Live, RateInv, RateTypeOK, Window
    <3>2. Since(key)' = Since(key) \cup new(key) /\ Before(key)' = Before(key)
      BY <1>2, <1>5, <2>1, <2>2, <2>4, <3>1, Limits DEF Since, Before, InWindow
    <3>3. History(key)
      BY DEF RateInv
    <3>4. \A a \in Since(key) : a \in old(key) /\ a.count <= windows[key].count
      BY <3>1, <3>3 DEF History, Since
    <3>5. w.count >= windows[key].count
      BY <1>5, <2>4, <3>1, Limits DEF w, Counted, RateInv, RateTypeOK, Window
    <3>6. new(key) # {} => w.count = windows[key].count + 1
      BY <1>5, <2>1, <2>4
    <3> HIDE DEF old, new
    <3>7. Numbered(Since(key)')
      BY <2>1, <2>2, <3>1, <3>2, <3>3, <3>4, <3>6 DEF History, Numbered
    <3>8. \A a \in Since(key)' : a.count <= w.count
      BY <2>1, <2>2, <3>1, <3>2, <3>4, <3>5
    <3>9. \A a \in admitted'[key] : a.at + WindowMs > now /\ a.at < w.resetAt
      BY <1>2, <1>5, <2>1, <2>2, <2>4, <3>1, <3>3, Limits DEF History
    <3> QED
      BY <1>1, <1>5, <2>1, <3>2, <3>3, <3>7, <3>8, <3>9 DEF History
  <2> QED
    BY <2>3, <2>4
<1>11. ASSUME NEW k \in Key, k # key PROVE Filled(k)'
  <2>1. CASE k \in Kept
    <3>1. /\ admitted'[k] = admitted[k] /\ windows'[k] = windows[k]
          /\ k \in DOMAIN windows /\ k \in DOMAIN windows'
      BY <1>1, <1>3, <1>4, <1>11, <2>1
    <3>2. Filled(k)
      BY DEF RateInv
    <3> QED
      BY <1>1, <3>1, <3>2 DEF Filled, LiveKeys, Elapsed, Since, InWindow, LimitOf
  <2>2. CASE k \notin Kept
    BY <1>4, <1>11, <2>2 DEF Filled, LiveKeys
  <2> QED
    BY <2>1, <2>2
<1>12. Filled(key)'
  <2> SUFFICES ASSUME NEW n \in 1 .. LimitOf(key), n <= w.count
               PROVE  \E a \in Since(key)' : a.count = n
    BY <1>1, <1>4 DEF Filled, LimitOf
  <2>1. CASE n = w.count
    <3>1. [at |-> now, count |-> w.count] \in admitted'[key]
      BY <1>1, <2>1 DEF Allows
    <3>2. now + WindowMs >= windows'[key].resetAt
      BY <1>1, <1>5
    <3>3. [at |-> now, count |-> w.count] \in Since(key)'
      BY <3>1, <3>2, Limits DEF Since, InWindow
    <3> QED
      BY <2>1, <3>3
  <2>2. CASE n # w.count
    <3>1. Live(key)
      BY <1>5, <2>2
    <3>2. key \in LiveKeys /\ key \in Kept /\ windows[key].count \in Nat
      BY <1>3, <3>1 DEF Live, LiveKeys, RateInv, RateTypeOK, Window
    <3>3. n <= windows[key].count
      BY <1>5, <2>2, <3>1, <3>2, Limits DEF w, Counted, Window, RateInv, RateTypeOK
    <3>4. PICK a \in Since(key) : a.count = n
      BY <3>2, <3>3 DEF RateInv, Filled
    <3>5. a \in admitted'[key] /\ windows'[key].resetAt = windows[key].resetAt
      BY <1>1, <1>5, <3>1, <3>2, <3>4 DEF Since
    <3>6. a \in Since(key)'
      BY <3>2, <3>4, <3>5 DEF Since, InWindow, LiveKeys
    <3> QED
      BY <3>4, <3>6
  <2> QED
    BY <2>1, <2>2
<1> QED
  BY <1>6, <1>7, <1>8, <1>9, <1>10, <1>11, <1>12 DEF RateInv

\* The limiter's invariant
THEOREM InvHolds == RateSpec => []RateInv
<1>1. RateInit => RateInv
  <2>1. ASSUME RateInit PROVE RateInv
    <3>1. /\ now = 0 /\ DOMAIN windows = {} /\ older = {}
          /\ admitted = [key \in Key |-> {}]
      BY <2>1 DEF RateInit
    <3>2. RateTypeOK
      BY <2>1, <3>1, Limits DEF RateInit, RateTypeOK
    <3>3. Bounded /\ Ordered
      BY <3>1, Limits, FS_EmptySet DEF Bounded, Ordered
    <3>4. \A key \in Key : History(key)
      BY <3>1 DEF History, Since, Before, InWindow, Numbered
    <3>5. \A key \in Key : Filled(key)
      BY <3>1 DEF Filled, LiveKeys
    <3> QED
      BY <3>2, <3>3, <3>4, <3>5 DEF RateInv
  <2> QED
    BY <2>1
<1>2. RateInv /\ [RateNext]_vars => RateInv'
  <2>1. ASSUME RateInv, UNCHANGED vars PROVE RateInv'
    BY <2>1 DEF vars, RateInv, RateTypeOK, Window, Answer, LimitOf, Bounded, Ordered,
                History, Filled, LiveKeys, Elapsed, Since, Before, InWindow, Numbered
  <2> QED
    BY <2>1, TickKeeps, RequestKeeps DEF RateNext
<1> QED
  BY <1>1, <1>2, PTL DEF RateSpec

\* RateTypeOK in every state of the limiter
THEOREM TypesHold == RateSpec => []RateTypeOK
<1>1. RateInv => RateTypeOK
  BY DEF RateInv
<1> QED
  BY <1>1, InvHolds, PTL

\* The map of windows never outgrows RATE_LIMIT_MAX_WINDOWS, and its windows
\* stay in an order (sweepWindows, createRateLimiter).
THEOREM HeapIsBounded == RateSpec => []WindowsAreBounded
<1>1. RateInv => WindowsAreBounded
  BY DEF RateInv, Bounded, Ordered, WindowsAreBounded
<1> QED
  BY <1>1, InvHolds, PTL

\* What is left of a key's history is two windows of its limit at most
LEMMA TwoWindows ==
  ASSUME RateInv, NEW key \in Key
  PROVE  /\ admitted[key] = Since(key) \cup Before(key)
         /\ IsFiniteSet(Since(key)) /\ Cardinality(Since(key)) <= LimitOf(key)
         /\ IsFiniteSet(Before(key)) /\ Cardinality(Before(key)) <= LimitOf(key)
         /\ IsFiniteSet(admitted[key])
<1>1. admitted[key] = Since(key) \cup Before(key)
  BY DEF Since, Before
<1>2. \A a \in admitted[key] : a.count \in 1 .. LimitOf(key)
  BY DEF RateInv, RateTypeOK, Answer
<1>3. Numbered(Since(key)) /\ Numbered(Before(key))
  BY DEF RateInv, History
<1>4. \A S \in {Since(key), Before(key)} : \A a \in S : a.count \in 1 .. LimitOf(key)
  BY <1>2 DEF Since, Before
<1>5. /\ IsFiniteSet(Since(key)) /\ Cardinality(Since(key)) <= LimitOf(key)
      /\ IsFiniteSet(Before(key)) /\ Cardinality(Before(key)) <= LimitOf(key)
  BY <1>3, <1>4, Limits, NumberedIsBounded
<1>6. IsFiniteSet(admitted[key])
  BY <1>1, <1>5, FS_Union
<1> QED
  BY <1>1, <1>5, <1>6

\* No client is let through more than twice its limit in the length of a window.
THEOREM LimitIsKept == RateSpec => []TwiceTheLimit
<1>1. ASSUME RateInv, NEW key \in Key PROVE Cardinality(admitted[key]) <= 2 * LimitOf(key)
  <2>1. LimitOf(key) \in Nat
    BY Limits
  <2>2. PICK S, B : S = Since(key) /\ B = Before(key)
    OBVIOUS
  <2>3. /\ admitted[key] = S \cup B
        /\ IsFiniteSet(S) /\ Cardinality(S) <= LimitOf(key)
        /\ IsFiniteSet(B) /\ Cardinality(B) <= LimitOf(key)
    BY <1>1, <2>2, TwoWindows
  <2>4. /\ Cardinality(S) \in Nat /\ Cardinality(B) \in Nat
        /\ Cardinality(S \cap B) \in Nat
    BY <2>3, FS_Subset, FS_CardinalityType
  <2>5. Cardinality(S \cup B) = Cardinality(S) + Cardinality(B) - Cardinality(S \cap B)
    BY <2>3, FS_Union
  <2> QED
    BY <2>1, <2>3, <2>4, <2>5
<1>2. RateInv => TwiceTheLimit
  BY <1>1 DEF TwiceTheLimit
<1> QED
  BY <1>2, InvHolds, PTL

\* Only a client that had its limit in the last window's length is refused.
THEOREM NobodyIsShort == RateSpec => []NobodyIsRefusedEarly
<1>1. ASSUME RateInv, NEW key \in LiveKeys, windows[key].count > LimitOf(key)
      PROVE  Cardinality(admitted[key]) >= LimitOf(key)
  <2>1. key \in Key /\ LimitOf(key) \in Nat /\ windows[key].count \in Nat
    BY <1>1, Limits DEF LiveKeys, RateInv, RateTypeOK, Window
  <2>2. \A n \in 1 .. LimitOf(key) : \E a \in Since(key) : a.count = n
    BY <1>1, <2>1 DEF RateInv, Filled
  <2>3. \A n \in 1 .. LimitOf(key) : \E a \in admitted[key] : a.count = n
    BY <2>2 DEF Since
  <2>4. IsFiniteSet(admitted[key])
    BY <1>1, <2>1, TwoWindows
  <2> QED
    BY <2>1, <2>3, <2>4, NumbersAreAnswers
<1>2. RateInv => NobodyIsRefusedEarly
  BY <1>1 DEF NobodyIsRefusedEarly
<1> QED
  BY <1>2, InvHolds, PTL
=============================================================================

------------------------------ MODULE RateLimiter ------------------------------
(***************************************************************************)
(* createRateLimiter and sweepWindows of kyc-service (server.ts): a fixed  *)
(* window per client and route in a Map, swept when it is at its cap.  Of  *)
(* the Map's insertion order, which the sweep goes by, the model keeps     *)
(* which key comes before which.  One unit of the clock stands for any     *)
(* part of RATE_LIMIT_WINDOW_MS.  A route without a limit answers before   *)
(* the map is read and is left out.                                        *)
(***************************************************************************)
EXTENDS Naturals, FiniteSets

CONSTANTS
  Client,
  Limit,        \* requests a window allows, per limited route
  WindowMs,     \* RATE_LIMIT_WINDOW_MS
  MaxWindows,   \* RATE_LIMIT_MAX_WINDOWS
  MaxTime       \* bound on the clock

ASSUME RateAssumption ==
  /\ Limit \in [DOMAIN Limit -> Nat \ {0}]
  /\ {WindowMs, MaxWindows} \subseteq Nat \ {0} /\ MaxTime \in Nat

Key == (DOMAIN Limit) \X Client   \* `${route}:${client}`

VARIABLES
  now,
  windows,    \* the Map: the window of every key it holds
  older,      \* its insertion order: <<j, k>> when j was set before k
  admitted    \* per key, the answers of the last WindowMs that let a request
              \* through, since a sweep last dropped its live window

vars == <<now, windows, older, admitted>>

LimitOf(key) == Limit[key[1]]

\* A count past the limit decides as any larger one does, and stays there
Window(key) == [resetAt : WindowMs .. MaxTime + WindowMs, count : 1 .. LimitOf(key) + 1]

\* An answer, by its time and its number in its window
Answer(key) == [at : 0 .. now, count : 1 .. LimitOf(key)]

RateTypeOK ==
  /\ now \in 0 .. MaxTime
  /\ DOMAIN windows \subseteq Key
  /\ windows = [key \in DOMAIN windows |-> windows[key]]
  /\ \A key \in DOMAIN windows : windows[key] \in Window(key)
  /\ older \subseteq (DOMAIN windows) \X (DOMAIN windows)
  /\ admitted = [key \in Key |-> admitted[key]]
  /\ \A key \in Key : admitted[key] \subseteq Answer(key)

-----------------------------------------------------------------------------
Elapsed(key) == windows[key].resetAt <= now

LiveKeys == {key \in DOMAIN windows : ~Elapsed(key)}

\* The cap was checked after the oldest live windows were to go
BugSweep == LiveKeys

\* The keys sweepWindows keeps: not the elapsed, then not the oldest until one
\* more fits
Sweep == {k \in LiveKeys :
            Cardinality({j \in LiveKeys : <<k, j>> \in older}) + 1 < MaxWindows}

Kept == IF Cardinality(DOMAIN windows) >= MaxWindows THEN Sweep ELSE DOMAIN windows

Live(key) == key \in Kept /\ ~Elapsed(key)

\* Counted from zero
BugFresh == [resetAt |-> now + WindowMs, count |-> 0]

Fresh == [resetAt |-> now + WindowMs, count |-> 1]

Counted(key) ==
  [windows[key] EXCEPT !.count = IF @ > LimitOf(key) THEN @ ELSE @ + 1]

\* Compared before it was counted
BugAllows(key, w) == w.count <= LimitOf(key) + 1

\* The limit's last request is refused
BugRefusesLast(key, w) == w.count < LimitOf(key)

Allows(key, w) == w.count <= LimitOf(key)

\* Map.set after the sweep: a key that is there keeps its place in the order
MapSet(key, w) ==
  /\ windows' = [k \in Kept \cup {key} |-> IF k = key THEN w ELSE windows[k]]
  /\ older' = {p \in Kept \X (Kept \cup {key}) : p \in older \/ p[2] \notin Kept}

\* The limiter's answer: the history of a key dropped while it was live is gone
Answers(key, w) ==
  admitted' = [k \in Key |->
    {a \in admitted[k] : k \in LiveKeys => k \in Kept}
      \cup {a \in {[at |-> now, count |-> w.count]} : k = key /\ Allows(key, w)}]

\* One call of the limiter, swept: a new window, or one more in the live one
Request(key) ==
  LET w == IF Live(key) THEN Counted(key) ELSE Fresh
  IN  MapSet(key, w) /\ Answers(key, w) /\ UNCHANGED now

Tick ==
  /\ now < MaxTime
  /\ now' = now + 1
  /\ admitted' = [key \in Key |-> {a \in admitted[key] : a.at + WindowMs > now + 1}]
  /\ UNCHANGED <<windows, older>>

RateInit ==
  now = 0 /\ windows = [key \in {} |-> Fresh] /\ older = {} /\ admitted = [key \in Key |-> {}]

RateNext == Tick \/ \E key \in Key : Request(key)

RateSpec == RateInit /\ [][RateNext]_vars

-----------------------------------------------------------------------------
\* The heap stays bounded under a flood of clients, whatever was swept or
\* replaced in place, and any two windows have an order for the next sweep to
\* go by.
WindowsAreBounded ==
  /\ Cardinality(DOMAIN windows) <= MaxWindows
  /\ \A j, k \in DOMAIN windows : j # k => (<<j, k>> \in older <=> <<k, j>> \notin older)

\* A client gets at most twice its limit in any stretch as long as a window, one
\* window's worth on either side of a reset, unless a sweep drops its live window.
TwiceTheLimit == \A key \in Key : Cardinality(admitted[key]) <= 2 * LimitOf(key)

\* A client that stays within its limit is never refused, whatever the others
\* send and a sweep drops: a live window past its limit has let that many through
\* in the last WindowMs.
NobodyIsRefusedEarly ==
  \A key \in LiveKeys :
    windows[key].count > LimitOf(key) => Cardinality(admitted[key]) >= LimitOf(key)
=============================================================================

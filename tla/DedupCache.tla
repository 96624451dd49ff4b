------------------------------ MODULE DedupCache ------------------------------
(***************************************************************************)
(* internal/wecom/dedup.go: the Cache that turns away messages WeCom       *)
(* delivers again.  Seen reads the clock, then takes the mutex: the time a *)
(* caller acts on is as old as it waited, and a later caller may have been *)
(* there first.  What Seen does under the mutex is one step.  The clock is *)
(* the monotonic one that Go's time.Sub uses.                              *)
(*                                                                         *)
(* A key is the bot's normalised app key and the req_id.                   *)
(***************************************************************************)
EXTENDS Integers

CONSTANTS Keys, Blank,
          TTL,      \* ten minutes
          Skew,     \* the longest wait between clock and mutex
          MaxClock  \* bound: how far the clock runs

ASSUME DedupAssumption == /\ TTL \in Nat /\ Skew \in Nat
                          /\ MaxClock \in Nat
                          /\ Blank \notin Keys

VARIABLES clock,
          m,       \* Cache.m: when each key was last seen, Never without entry
          answer,  \* what the last Seen returned
          sight,   \* history: when each key was last seen, entry or not
          passed   \* history: when each key was last let through

vars == <<clock, m, answer, sight, passed>>

Never == -1
Nothing == [k \in Keys |-> Never]
Readings == {t \in 0 .. clock : t >= clock - Skew}

Answer(k, dup) == answer' = [key |-> k, dup |-> dup]

-----------------------------------------------------------------------------
Fresh(k, now) == m[k] # Never /\ now - m[k] < TTL

\* Mutant: a duplicate does not renew its entry.
SeenAgainUnrenewed(k, now) ==
    /\ Fresh(k, now)
    /\ sight' = [sight EXCEPT ![k] = now]
    /\ Answer(k, TRUE)
    /\ UNCHANGED <<clock, m, passed>>

\* Mutant: the entry is renewed with the time it would have to be older than.
SeenAgainBackdated(k, now) ==
    /\ Fresh(k, now)
    /\ m' = [m EXCEPT ![k] = now - TTL]
    /\ sight' = [sight EXCEPT ![k] = now]
    /\ Answer(k, TRUE)
    /\ UNCHANGED <<clock, passed>>

\* A duplicate, which renews its entry.
SeenAgain(k, now) ==
    /\ Fresh(k, now)
    /\ m' = [m EXCEPT ![k] = now]
    /\ sight' = [sight EXCEPT ![k] = now]
    /\ Answer(k, TRUE)
    /\ UNCHANGED <<clock, passed>>

\* Mutant: the cleaning takes what is half as old.
CleanedEarly(entries, now) ==
    [k \in Keys |-> IF entries[k] # Never /\ 2 * (now - entries[k]) >= TTL THEN Never
                    ELSE entries[k]]

\* The entries that are left when those of age TTL are deleted.
Cleaned(entries, now) ==
    [k \in Keys |-> IF entries[k] # Never /\ now - entries[k] >= TTL THEN Never
                    ELSE entries[k]]

SeenFirst(k, now) ==
    /\ ~Fresh(k, now)
    /\ m' = Cleaned([m EXCEPT ![k] = now], now)
    /\ sight' = [sight EXCEPT ![k] = now]
    /\ passed' = [passed EXCEPT ![k] = now]
    /\ Answer(k, FALSE)
    /\ UNCHANGED clock

\* No req_id: Seen returns before it looks at anything.
SeenBlank == Answer(Blank, FALSE) /\ UNCHANGED <<clock, m, sight, passed>>

Tick == /\ clock < MaxClock
        /\ clock' = clock + 1
        /\ UNCHANGED <<m, answer, sight, passed>>

Init == /\ clock = 0
        /\ m = Nothing /\ sight = Nothing /\ passed = Nothing
        /\ answer = [key |-> Blank, dup |-> FALSE]

\* The process dies and starts again, with an empty map.
Restart ==
    /\ m' = Nothing /\ sight' = Nothing /\ passed' = Nothing
    /\ answer' = [key |-> Blank, dup |-> FALSE]
    /\ UNCHANGED clock

Next == \/ \E k \in Keys, now \in Readings : SeenAgain(k, now) \/ SeenFirst(k, now)
        \/ SeenBlank \/ Tick \/ Restart

Spec == Init /\ [][Next]_vars

-----------------------------------------------------------------------------
\* Properties.

Times == Nat \cup {Never}

TypeOK == /\ clock \in Nat
          /\ m \in [Keys -> Times]
          /\ sight \in [Keys -> Times]
          /\ passed \in [Keys -> Times]
          /\ answer \in [key : Keys \cup {Blank}, dup : BOOLEAN]

\* The map, which forgets what it has cleaned away and is written by
\* callers with stale readings, answers as one that never forgets would, up
\* to the time they waited (dedup.go:27-40).
Promise == INSTANCE Suppressor WITH sight <- sight, answer <- answer
ActsAsSuppressor == Promise!Spec

\* A message is never handled twice within TTL, less what two callers may
\* have waited, however often and in whatever order it is delivered again
\* (dedup.go:20).
AdmittedApart ==
    [][\A k \in Keys, now \in Readings :
          SeenFirst(k, now) /\ passed[k] # Never
              => now - passed[k] >= TTL - 2 * Skew]_vars

-----------------------------------------------------------------------------
\* The inductive invariant behind them: an entry is the last sight, and
\* what has no entry any more was cleaned away for its age.
Entry(k) == /\ m[k] # Never => sight[k] = m[k]
            /\ m[k] = Never /\ sight[k] # Never => sight[k] + TTL <= clock
            /\ sight[k] <= clock
            /\ passed[k] <= clock
            /\ passed[k] # Never => sight[k] # Never /\ sight[k] >= passed[k] - Skew

IInv == TypeOK /\ \A k \in Keys : Entry(k)
=============================================================================

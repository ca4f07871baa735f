----------------------------- MODULE StateStore -----------------------------
(***************************************************************************)
(* The state store: runtime/state_store.py.  A dict, a change log with the *)
(* old and the new value of every logged change, and replay_to(), which    *)
(* reconstructs an earlier state from the log.                             *)
(*                                                                         *)
(* Time is the wall clock the entries are stamped with.  It advances       *)
(* between two calls, or does not, and may be set back.                    *)
(***************************************************************************)
EXTENDS Naturals, Sequences, FiniteSets

CONSTANTS
    Key,
    Val,       \* the values that are stored
    None,      \* Python's None
    Initials,  \* the dicts a store is created with
    Saved,     \* the dicts that restore() is called with
    SetsBack,  \* is the wall clock ever set back?
    MaxTime,   \* bound: the wall clock
    MaxLog     \* bound: entries of the changelog

Dict == UNION {[S -> Val] : S \in SUBSET Key}

ASSUME StoreConstants ==
    /\ IsFiniteSet(Key)
    /\ Initials \subseteq Dict /\ Saved \subseteq Dict
    /\ SetsBack \in BOOLEAN
    /\ MaxTime \in Nat /\ MaxLog \in Nat

VARIABLES
    data,       \* _data
    changelog,  \* changelog, oldest entry first
    now,        \* the wall clock
    past,       \* past[t]: the state when the clock last showed t
    restoredAt  \* how many entries changelog had at the last restore()

storeVars == <<data, changelog, now, past, restoredAt>>

NoKeys == [k \in {} |-> None]

\* get()
Get(d, k) == IF k \in DOMAIN d THEN d[k] ELSE None

\* d with the entries of m.
With(d, m) == [k \in DOMAIN d \cup DOMAIN m |-> IF k \in DOMAIN m THEN m[k] ELSE d[k]]

Without(d, k) == [j \in DOMAIN d \ {k} |-> d[j]]

Change(k, new) == [ts |-> now, key |-> k, old |-> Get(data, k), new |-> new]

\* The clock shows now when the state becomes d.
Becomes(d) == data' = d /\ past' = [past EXCEPT ![now] = d]

StoreInit ==
    /\ data \in Initials
    /\ changelog = <<>>
    /\ now = 0
    /\ past = [t \in 0 .. MaxTime |-> data]
    /\ restoredAt = 0

\* set() that takes the old value after it has stored the new one.
SetOldLate(k, v) ==
    /\ Len(changelog) < MaxLog
    /\ Becomes(With(data, [j \in {k} |-> v]))
    /\ changelog' = Append(changelog, [ts |-> now, key |-> k, old |-> v, new |-> v])
    /\ UNCHANGED <<now, restoredAt>>

Set(k, v) ==
    /\ Len(changelog) < MaxLog
    /\ Becomes(With(data, [j \in {k} |-> v]))
    /\ changelog' = Append(changelog, Change(k, v))
    /\ UNCHANGED <<now, restoredAt>>

\* set() for each entry, in the order of the mapping, keys being distinct.  Two
\* entries stamped with different times are two calls of Set.
Update(m, order) ==
    /\ Len(changelog) + Len(order) <= MaxLog
    /\ {order[i] : i \in DOMAIN order} = DOMAIN m
    /\ Becomes(With(data, m))
    /\ changelog' = changelog \o [i \in DOMAIN order |-> Change(order[i], m[order[i]])]
    /\ UNCHANGED <<now, restoredAt>>

\* An absent key is deleted, and logged, as well.
Delete(k) ==
    /\ Len(changelog) < MaxLog
    /\ Becomes(Without(data, k))
    /\ changelog' = Append(changelog, Change(k, None))
    /\ UNCHANGED <<now, restoredAt>>

\* The changelog does not learn of it.
Restore(d) ==
    /\ Becomes(d)
    /\ restoredAt' = Len(changelog)
    /\ UNCHANGED <<changelog, now>>

\* The entries that restore() made stale go with the others.
ClearChangelog ==
    /\ changelog' = <<>> /\ restoredAt' = 0
    /\ UNCHANGED <<data, now, past>>

\* The clock goes on, or back; the state at its new time is the present one.
Clock(t) ==
    /\ t = now + 1 \/ (SetsBack /\ t < now)
    /\ now' = t
    /\ past' = [past EXCEPT ![t] = data]
    /\ UNCHANGED <<data, changelog, restoredAt>>

Orders(S) == {f \in [1 .. Cardinality(S) -> S] : \A i, j \in DOMAIN f : f[i] = f[j] => i = j}

StoreNext ==
    \/ \E k \in Key, v \in Val : Set(k, v)
    \/ \E S \in SUBSET Key : \E m \in [S -> Val], order \in Orders(S) : Update(m, order)
    \/ \E k \in Key : Delete(k)
    \/ \E d \in Saved : Restore(d)
    \/ ClearChangelog
    \/ \E t \in 0 .. MaxTime : Clock(t)

StoreSpec == StoreInit /\ [][StoreNext]_storeVars

-----------------------------------------------------------------------------
(* replay_to().                                                            *)

\* replay_to() that stops at an entry of the time asked for.
ReplayedStrictly(t) ==
    {i \in DOMAIN changelog : \A j \in 1 .. i : changelog[j].ts < t}

\* The entries before the first that is later than t.
Replayed(t) == {i \in DOMAIN changelog : \A j \in 1 .. i : changelog[j].ts <= t}

\* Reconstructed[i]: what the first i entries make of an empty dict.
Reconstructed[i \in 0 .. Len(changelog)] ==
    IF i = 0 THEN NoKeys
    ELSE LET e == changelog[i]
         IN  IF e.new = None THEN Without(Reconstructed[i - 1], e.key)
                             ELSE With(Reconstructed[i - 1], [j \in {e.key} |-> e.new])

ReplayTo(t) == Reconstructed[Cardinality(Replayed(t))]

-----------------------------------------------------------------------------
(* Properties.                                                             *)

\* The store holds values under keys, and the log what became of them.
StoreTypeOK ==
    /\ data \in Dict
    /\ changelog \in Seq([ts : 0 .. MaxTime, key : Key, old : Val \cup {None},
                          new : Val \cup {None}])
    /\ now \in 0 .. MaxTime
    /\ past \in [0 .. MaxTime -> Dict]
    /\ restoredAt \in 0 .. Len(changelog)

\* What replay_to does reconstruct: the value at every earlier time of each key
\* that the log mentions by then and since the last restore(), also when values
\* that are None were stored, keys deleted that were absent, or the log cleared.
LoggedKeysReplayed ==
    \A t \in 0 .. now :
        \A i \in DOMAIN changelog :
            i > restoredAt /\ changelog[i].ts <= t =>
                LET k == changelog[i].key IN Get(ReplayTo(t), k) = Get(past[t], k)

\* Since the last restore() old and new values make a chain: an entry's old
\* value is what the entry before it about the same key left, and the last one
\* left what is stored now, so the log can be undone from the present state.
ChangelogChains ==
    \A k \in Key :
        LET about == {i \in DOMAIN changelog : i > restoredAt /\ changelog[i].key = k}
        IN  /\ \A i, j \in about :
                  i < j /\ (\A m \in about : m <= i \/ j <= m)
                    => changelog[j].old = changelog[i].new
            /\ \A i \in about : (\A j \in about : j <= i)
                    => changelog[i].new = Get(data, k)

=============================================================================

-------------------------- MODULE RevocationWindow --------------------------
(***************************************************************************)
(* What docs/authentication.md promises of session revocation on every     *)
(* Redis topology: the database is the authority, and a cache that has not *)
(* heard of a revocation stops serving the session at the latest one cache *)
(* TTL after it.  A cache that was told with a tombstone never serves the  *)
(* session again.                                                          *)
(***************************************************************************)
EXTENDS Naturals

CONSTANTS
  Caches,  \* the Redis instances the nodes use
  TTL      \* the effective SYNC_FREQUENCY

VARIABLES
  now,      \* time
  revoked,  \* the row says so
  at,       \* when it was revoked
  serving,  \* caches that answer that the session is active
  sealed    \* caches that were told

vars == <<now, revoked, at, serving, sealed>>

Open(t) == ~revoked \/ t < at + TTL

Init ==
  /\ now = 0 /\ revoked = FALSE /\ at = 0
  /\ serving = {} /\ sealed = {}

\* Inside the window a cache may start to serve; it may stop at any time.
Answer ==
  /\ serving' \in SUBSET (Caches \ sealed)
  /\ Open(now) \/ serving' \subseteq serving
  /\ UNCHANGED <<now, revoked, at, sealed>>

Tick ==
  /\ now' = now + 1
  /\ serving' \in SUBSET serving
  /\ Open(now + 1) \/ serving' = {}
  /\ UNCHANGED <<revoked, at, sealed>>

Revoke ==
  /\ ~revoked /\ revoked' = TRUE /\ at' = now
  /\ UNCHANGED <<now, serving, sealed>>

Seal(c) ==
  /\ revoked
  /\ sealed' = sealed \cup {c}
  /\ serving' = serving \ {c}
  /\ UNCHANGED <<now, revoked, at>>

Next == Answer \/ Tick \/ Revoke \/ \E c \in Caches : Seal(c)

Spec == Init /\ [][Next]_vars
=============================================================================

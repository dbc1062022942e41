---------------------------- MODULE SessionCache ----------------------------
(***************************************************************************)
(* One login session as model/user_session.go keeps it: the user_sessions  *)
(* row and its snapshots in Redis, one hash per Redis instance the nodes   *)
(* use (docs/authentication.md allows a shared one or one per node).       *)
(*                                                                         *)
(* Fillers are requests that read the row and publish it: validations that *)
(* missed the cache (GetUserSessionCached) and refresh rotations.  Revokers*)
(* deny, revoke and seal (RevokeUserSession and its siblings, the reuse    *)
(* branch of a rotation).  The advancer moves the session to a new version *)
(* (AdvanceUserSessionAuthVersion).  Every Redis call may fail, with or    *)
(* without effect, and every process may stall between two statements for  *)
(* as long as it likes.                                                    *)
(*                                                                         *)
(* A cache entry is served while now < exp, on one clock; the expiry of    *)
(* the session itself (months away) and rows of other sessions are left    *)
(* out, the refresh secrets are in module LoginSessions.                   *)
(***************************************************************************)
EXTENDS Naturals, FiniteSets

CONSTANTS
  Caches,      \* the Redis instances
  Fillers,     \* concurrent validations and rotations
  Revokers,    \* concurrent revocations
  TTL,         \* userCacheTTLSeconds
  MaxTime,     \* bound: clock
  MaxVersion,  \* bound: version of the session
  MaxFaults    \* bound: failed Redis calls and crashes

ASSUME CacheAssumption == TTL \in Nat \ {0}
ASSUME CacheBoundAssumption ==
  MaxTime \in Nat /\ MaxVersion \in Nat \ {0} /\ MaxFaults \in Nat

VARIABLES
  now,     \* time.Now()
  row,     \* the user_sessions row: active, version
  at,      \* when the revocation was committed
  bumped,  \* history: when the version last moved
  cache,   \* per Redis: the session hash
  fill,    \* per filler: its progress
  rev,     \* per revoker: its progress
  adv,     \* the advancer's progress
  faults,  \* failures so far
  sealed   \* history: caches that took a final tombstone

vars == <<now, row, at, bumped, cache, fill, rev, adv, faults, sealed>>

Times    == 0..MaxTime
Versions == 1..MaxVersion

\* What an idle process points at.
NoCache == "none"

NoEntry == [st |-> "none", ver |-> 0, exp |-> 0]
NoFill == [pc |-> "idle", c |-> NoCache, dl |-> 0, ver |-> 0, found |-> FALSE]
NoRev  == [pc |-> "idle", c |-> NoCache, ver |-> 0]

TypeOK ==
  /\ now \in Times /\ at \in Times /\ bumped \in Times
  /\ row \in [active : BOOLEAN, ver : Versions]
  /\ cache \in [Caches -> [st : {"none", "active", "revoking", "revoked"},
                           ver : 0..MaxVersion, exp : 0..(MaxTime + TTL)]]
  /\ fill \in [Fillers -> [pc : {"idle", "due", "read"}, c : Caches \cup {NoCache},
                           dl : 0..(MaxTime + TTL), ver : 0..MaxVersion, found : BOOLEAN]]
  /\ rev \in [Revokers -> [pc : {"idle", "fence", "commit", "seal"}, c : Caches \cup {NoCache},
                           ver : 0..MaxVersion]]
  /\ adv \in [pc : {"idle", "due", "publish"}, c : Caches \cup {NoCache},
              dl : 0..(MaxTime + TTL), ver : 0..MaxVersion, found : BOOLEAN]
  /\ faults \in 0..MaxFaults
  /\ sealed \subseteq Caches

\* A session whose row has just been committed; the publication by its
\* sign-in (publishCreatedUserSession) is a filler's.
Init ==
  /\ now = 0 /\ at = 0 /\ bumped = 0
  /\ row = [active |-> TRUE, ver |-> 1]
  /\ cache = [c \in Caches |-> NoEntry]
  /\ fill = [f \in Fillers |-> NoFill]
  /\ rev = [r \in Revokers |-> NoRev]
  /\ adv = NoFill
  /\ faults = 0
  /\ sealed = {}

-----------------------------------------------------------------------------
(* The session hash                                                        *)

Denied(c)  == cache[c].st \in {"revoking", "revoked"}
Serving(c) == cache[c].st = "active"

\* Mutant: the window starts when the snapshot is written.
DeadlineAtWrite(dl) == now + TTL

\* Mutant: the TTL is added to a deadline that already holds it.
DeadlinePlusTTL(dl) == dl + TTL

\* The expiry of an active snapshot: the deadline captured before the read.
ActiveExpiry(dl) == dl

\* Mutant: an active snapshot replaces a tombstone.
AcceptsAny(c, v) == cache[c].ver <= v

\* What the Lua script lets an active snapshot of version v replace.
Accepts(c, v) == ~Denied(c) /\ cache[c].ver <= v

\* errUserSessionCacheObservationStale: the window is spent.
Late(dl) == dl <= now

\* writeUserSessionCache of an active snapshot.
PutActive(c, v, dl) ==
  IF Late(dl) \/ ~Accepts(c, v) THEN cache
  ELSE [cache EXCEPT ![c] = [st |-> "active", ver |-> v, exp |-> ActiveExpiry(dl)]]

\* writeUserSessionCache of a deny state: a newer version is left alone.
TakesDeny(c, v) == cache[c].ver <= v
PutDeny(c, v, st) ==
  IF TakesDeny(c, v) THEN [cache EXCEPT ![c] = [st |-> st, ver |-> v, exp |-> now + TTL]]
  ELSE cache

Fault == faults < MaxFaults /\ faults' = faults + 1

\* Time passes and Redis drops what has expired.
Tick ==
  /\ now < MaxTime
  /\ now' = now + 1
  /\ cache' = [c \in Caches |-> IF cache[c].exp <= now + 1 THEN NoEntry ELSE cache[c]]
  /\ UNCHANGED <<row, at, bumped, fill, rev, adv, faults, sealed>>

-----------------------------------------------------------------------------
(* Validations and rotations                                               *)

\* The cache has no answer, or the caller is a rotation, which asks the row
\* first: userSessionCacheDeadline.
FillStart(f, c) ==
  /\ fill[f].pc = "idle"
  /\ fill' = [fill EXCEPT ![f] = [NoFill EXCEPT !.pc = "due", !.c = c, !.dl = now + TTL]]
  /\ UNCHANGED <<now, row, at, bumped, cache, rev, adv, faults, sealed>>

\* The row is read.  A rotation publishes what it read too, if its
\* compare-and-swap finds the row still active.
FillRead(f) ==
  /\ fill[f].pc = "due"
  /\ fill' = [fill EXCEPT ![f].pc = "read", ![f].ver = row.ver, ![f].found = row.active]
  /\ UNCHANGED <<now, row, at, bumped, cache, rev, adv, faults, sealed>>

\* An active row is published inside its window, an inactive one as a tombstone.
FillWrite(f) ==
  LET p == fill[f]
      written == IF p.found THEN PutActive(p.c, p.ver, p.dl) ELSE PutDeny(p.c, p.ver, "revoked")
  IN
  /\ p.pc = "read"
  /\ \/ cache' = written /\ UNCHANGED faults
     \/ cache' \in {cache, written} /\ Fault      \* logged, the caller goes on
  /\ fill' = [fill EXCEPT ![f] = NoFill]
  /\ UNCHANGED <<now, row, at, bumped, rev, adv, sealed>>

-----------------------------------------------------------------------------
(* Revocation                                                              *)

\* The candidate is read and still active.
RevokeStart(r, c) ==
  /\ rev[r].pc = "idle" /\ row.active
  /\ rev' = [rev EXCEPT ![r] = [pc |-> "fence", c |-> c, ver |-> row.ver]]
  /\ UNCHANGED <<now, row, at, bumped, cache, fill, adv, faults, sealed>>

\* writeUserSessionDenyFence; refused or failed, nothing is revoked.
RevokeFence(r) ==
  LET p == rev[r] IN
  /\ p.pc = "fence"
  /\ \/ /\ cache' = PutDeny(p.c, p.ver, "revoking")
        /\ rev' = [rev EXCEPT ![r] = IF TakesDeny(p.c, p.ver) THEN [p EXCEPT !.pc = "commit"]
                                     ELSE NoRev]
        /\ UNCHANGED faults
     \/ /\ cache' \in {cache, PutDeny(p.c, p.ver, "revoking")}
        /\ rev' = [rev EXCEPT ![r] = NoRev]
        /\ Fault
  /\ UNCHANGED <<now, row, at, bumped, fill, adv, sealed>>

\* The row is revoked under its lock, unless somebody else has done it; the
\* tombstone carries the candidate's version, or the locked row's when many
\* sessions are revoked.  A failed transaction, or a crash on either side of
\* it, ends here.
RevokeCommit(r) ==
  LET p == rev[r] IN
  /\ p.pc = "commit"
  /\ \/ /\ row.active
        /\ row' = [row EXCEPT !.active = FALSE] /\ at' = now
        /\ \/ /\ \E v \in {p.ver, row.ver} : rev' = [rev EXCEPT ![r].pc = "seal", ![r].ver = v]
              /\ UNCHANGED faults
           \/ rev' = [rev EXCEPT ![r] = NoRev] /\ Fault
     \/ /\ rev' = [rev EXCEPT ![r] = NoRev]
        /\ IF row.active THEN Fault ELSE UNCHANGED faults
        /\ UNCHANGED <<row, at>>
  /\ UNCHANGED <<now, bumped, cache, fill, adv, sealed>>

\* The final tombstone; a failure is only logged.
RevokeSeal(r) ==
  LET p == rev[r]
      written == PutDeny(p.c, p.ver, "revoked")
  IN
  /\ p.pc = "seal"
  /\ \/ /\ cache' = written
        /\ sealed' = IF TakesDeny(p.c, p.ver) THEN sealed \cup {p.c} ELSE sealed
        /\ UNCHANGED faults
     \/ /\ Fault /\ UNCHANGED <<cache, sealed>>
  /\ rev' = [rev EXCEPT ![r] = NoRev]
  /\ UNCHANGED <<now, row, at, bumped, fill, adv>>

-----------------------------------------------------------------------------
(* AdvanceUserSessionAuthVersion                                           *)

AdvanceStart(c) ==
  /\ adv.pc = "idle" /\ row.ver < MaxVersion
  /\ adv' = [NoFill EXCEPT !.pc = "due", !.c = c, !.dl = now + TTL]
  /\ UNCHANGED <<now, row, at, bumped, cache, fill, rev, faults, sealed>>

AdvanceCommit ==
  /\ adv.pc = "due"
  /\ IF row.active
     THEN /\ row' = [row EXCEPT !.ver = @ + 1] /\ bumped' = now
          /\ adv' = [adv EXCEPT !.pc = "publish", !.ver = row.ver + 1]
     ELSE adv' = NoFill /\ UNCHANGED <<row, bumped>>
  /\ UNCHANGED <<now, at, cache, fill, rev, faults, sealed>>

AdvancePublish ==
  LET written == PutActive(adv.c, adv.ver, adv.dl) IN
  /\ adv.pc = "publish"
  /\ \/ cache' = written /\ UNCHANGED faults
     \/ cache' \in {cache, written} /\ Fault
  /\ adv' = NoFill
  /\ UNCHANGED <<now, row, at, bumped, fill, rev, sealed>>

-----------------------------------------------------------------------------
Next ==
  \/ Tick
  \/ \E f \in Fillers : FillRead(f) \/ FillWrite(f) \/ \E c \in Caches : FillStart(f, c)
  \/ \E r \in Revokers : \/ RevokeFence(r) \/ RevokeCommit(r) \/ RevokeSeal(r)
                         \/ \E c \in Caches : RevokeStart(r, c)
  \/ AdvanceCommit \/ AdvancePublish \/ \E c \in Caches : AdvanceStart(c)

Spec == Init /\ [][Next]_vars

-----------------------------------------------------------------------------
(* Properties                                                              *)

\* One TTL after an advance no Redis answers with an older version.
VersionConverges ==
  now >= bumped + TTL => \A c \in Caches : Serving(c) => cache[c].ver = row.ver

\* A Redis that took the final tombstone never serves the session again: no
\* delayed fill outlives the tombstone and reactivates it.
TombstoneHolds == \A c \in sealed : ~Serving(c)

\* The protocol implements RevocationWindow: one TTL after the row was revoked
\* no Redis answers that it is active, whoever stalled, crashed or failed to
\* write (docs/authentication.md: nodes converge when the cache TTL is over).
Window == INSTANCE RevocationWindow WITH
            revoked <- ~row.active, serving <- {c \in Caches : Serving(c)}
KeepsWindow == Window!Spec
=============================================================================

------------------------- MODULE SessionCacheProofs -------------------------
(***************************************************************************)
(* Proofs about SessionCache for any number of Redis instances, requests,  *)
(* revocations and failures and for every TTL: the inductive invariant     *)
(* IInv, what follows from it, and that the protocol implements            *)
(* RevocationWindow.                                                       *)
(***************************************************************************)
EXTENDS SessionCache, TLAPS

-----------------------------------------------------------------------------
(* The inductive invariant                                                 *)

\* What a copy of version v says was true when its window of one TTL, which
\* ends at dl, began: a change of the row came later.
TrueUntil(v, dl) ==
  /\ v <= row.ver /\ dl <= now + TTL
  /\ ~row.active => dl <= at + TTL
  /\ v < row.ver => dl <= bumped + TTL

EntryShape(c) ==
  /\ cache[c].ver <= row.ver
  /\ cache[c].st # "none" => now < cache[c].exp
  /\ Serving(c) => TrueUntil(cache[c].ver, cache[c].exp)

FillShape(f) ==
  /\ fill[f].pc # "idle" => fill[f].c \in Caches /\ fill[f].dl <= now + TTL
  /\ fill[f].pc = "read" =>
       /\ fill[f].ver <= row.ver
       /\ fill[f].found => TrueUntil(fill[f].ver, fill[f].dl)

RevShape(r) ==
  /\ rev[r].pc # "idle" => rev[r].c \in Caches /\ rev[r].ver <= row.ver
  /\ rev[r].pc = "seal" => ~row.active

AdvShape ==
  /\ adv.pc # "idle" => adv.c \in Caches /\ adv.dl <= now + TTL
  /\ adv.pc = "due" => row.ver < MaxVersion
  /\ adv.pc = "publish" => TrueUntil(adv.ver, adv.dl)

\* The tombstone stands at least until every copy read before it is late.
SealShape(c) ==
  /\ ~row.active
  /\ now < at + TTL => Denied(c) /\ at + TTL <= cache[c].exp

IInv ==
  /\ TypeOK
  /\ at <= now /\ bumped <= now
  /\ \A c \in Caches : EntryShape(c)
  /\ \A f \in Fillers : FillShape(f)
  /\ \A r \in Revokers : RevShape(r)
  /\ AdvShape
  /\ \A c \in sealed : SealShape(c)

-----------------------------------------------------------------------------
USE CacheAssumption, CacheBoundAssumption DEF CacheAssumption, CacheBoundAssumption

(* The entries of the session hash, and of a filler's copy.                *)
EntryType == [st : {"none", "active", "revoking", "revoked"},
              ver : 0..MaxVersion, exp : 0..(MaxTime + TTL)]
FillType == [pc : {"idle", "due", "read"}, c : Caches \cup {NoCache},
             dl : 0..(MaxTime + TTL), ver : 0..MaxVersion, found : BOOLEAN]
AdvType == [pc : {"idle", "due", "publish"}, c : Caches \cup {NoCache},
            dl : 0..(MaxTime + TTL), ver : 0..MaxVersion, found : BOOLEAN]
RevType == [pc : {"idle", "fence", "commit", "seal"}, c : Caches \cup {NoCache},
            ver : 0..MaxVersion]

(* The part of the invariant a write to the cache can disturb.             *)
CacheShape ==
  /\ cache \in [Caches -> EntryType]
  /\ \A c \in Caches : EntryShape(c)
  /\ \A c \in sealed : SealShape(c)

(* What the steps on the cache leave alone.                                *)
Frame == UNCHANGED <<now, row, at, bumped>>

LEMMA TypeForm ==
  ASSUME TypeOK
  PROVE  /\ now \in Nat /\ at \in Nat /\ bumped \in Nat /\ now <= MaxTime
         /\ row.active \in BOOLEAN /\ row.ver \in Nat /\ row.ver >= 1 /\ row.ver <= MaxVersion
         /\ row = [active |-> row.active, ver |-> row.ver]
         /\ cache \in [Caches -> EntryType]
         /\ fill \in [Fillers -> FillType] /\ adv \in AdvType /\ rev \in [Revokers -> RevType]
  BY DEF TypeOK, EntryType, FillType, AdvType, RevType, Times, Versions

LEMMA InitIInv == Init => IInv
<1> SUFFICES ASSUME Init PROVE IInv
  OBVIOUS
<1>1. TypeOK
  BY DEF Init, TypeOK, NoEntry, NoFill, NoRev, Times, Versions
<1>2. \A c \in Caches : EntryShape(c)
  BY DEF Init, EntryShape, NoEntry, Serving
<1>3. (\A f \in Fillers : FillShape(f)) /\ (\A r \in Revokers : RevShape(r)) /\ AdvShape
  BY DEF Init, FillShape, RevShape, AdvShape, NoFill, NoRev
<1> QED
  BY <1>1, <1>2, <1>3 DEF Init, IInv

(* A snapshot that is true until its deadline may be written: a tombstone  *)
(* refuses it while it could contradict the row, and later it is late.     *)
LEMMA PutActiveShape ==
  ASSUME IInv, NEW c \in Caches, NEW v \in 0..MaxVersion, NEW dl \in 0..(MaxTime + TTL),
         TrueUntil(v, dl), cache' = PutActive(c, v, dl), Frame, UNCHANGED sealed
  PROVE  CacheShape'
<1>0. CASE Late(dl) \/ ~Accepts(c, v)
  BY <1>0, TypeForm DEF IInv, PutActive, CacheShape, EntryShape, SealShape, Serving, Denied,
     TrueUntil, Frame
<1>1. CASE ~Late(dl) /\ Accepts(c, v)
  <2> DEFINE e == [st |-> "active", ver |-> v, exp |-> dl]
  <2>1. e \in EntryType /\ cache' = [cache EXCEPT ![c] = e]
    BY <1>1 DEF EntryType, PutActive, ActiveExpiry
  <2>2. cache' \in [Caches -> EntryType]
    BY <2>1, TypeForm DEF IInv
  <2>3. cache'[c] = e /\ \A d \in Caches : d # c => cache'[d] = cache[d]
    BY <2>1, TypeForm DEF IInv
  <2>4. \A d \in Caches : EntryShape(d)'
    BY <1>1, <2>3, TypeForm DEF IInv, EntryShape, TrueUntil, Serving, Late, Frame
  <2>5. c \notin sealed
    BY <1>1, TypeForm DEF IInv, SealShape, Accepts, Late, TrueUntil
  <2>6. sealed \subseteq Caches
    BY DEF IInv, TypeOK
  <2>7. \A d \in sealed : SealShape(d)'
    BY <2>3, <2>5, <2>6 DEF IInv, SealShape, Denied, Frame
  <2> QED
    BY <2>2, <2>4, <2>7 DEF CacheShape
<1> QED
  BY <1>0, <1>1

(* A deny state may be written at any time, and it seals the cache once    *)
(* the row is revoked.                                                     *)
LEMMA PutDenyShape ==
  ASSUME IInv, NEW c \in Caches, NEW v \in 0..MaxVersion, NEW st \in {"revoking", "revoked"},
         v <= row.ver, cache' = PutDeny(c, v, st), Frame,
         sealed' = sealed \/ (~row.active /\ TakesDeny(c, v) /\ sealed' = sealed \cup {c})
  PROVE  CacheShape'
<1>0. CASE ~TakesDeny(c, v)
  BY <1>0, TypeForm DEF IInv, PutDeny, CacheShape, EntryShape, SealShape, Serving, Denied,
     TrueUntil, Frame
<1>1. CASE TakesDeny(c, v)
  <2> DEFINE e == [st |-> st, ver |-> v, exp |-> now + TTL]
  <2>1. e \in EntryType /\ cache' = [cache EXCEPT ![c] = e]
    BY <1>1, TypeForm DEF IInv, EntryType, PutDeny
  <2>2. cache' \in [Caches -> EntryType]
    BY <2>1, TypeForm DEF IInv
  <2>3. cache'[c] = e /\ \A d \in Caches : d # c => cache'[d] = cache[d]
    BY <2>1, TypeForm DEF IInv
  <2>4. \A d \in Caches : EntryShape(d)'
    BY <1>1, <2>3, TypeForm DEF IInv, EntryShape, TrueUntil, Serving, Frame
  <2>6. sealed \subseteq Caches
    BY DEF IInv, TypeOK
  <2>7. \A d \in sealed' : ~row.active
    BY <2>6 DEF IInv, SealShape
  <2>8. \A d \in sealed' : SealShape(d)'
    BY <2>3, <2>6, <2>7, TypeForm DEF IInv, SealShape, Denied, Frame
  <2> QED
    BY <2>2, <2>4, <2>8 DEF CacheShape
<1> QED
  BY <1>0, <1>1

(* The shapes of processes that stand still while nothing but the cache    *)
(* moves.                                                                  *)
LEMMA StillShape ==
  ASSUME IInv, Frame
  PROVE  /\ at' <= now' /\ bumped' <= now'
         /\ \A f \in Fillers : fill'[f] = fill[f] => FillShape(f)'
         /\ \A r \in Revokers : rev'[r] = rev[r] => RevShape(r)'
         /\ adv' = adv => AdvShape'
  BY DEF IInv, FillShape, RevShape, AdvShape, TrueUntil, Frame

LEMMA StillCache ==
  ASSUME IInv, Frame, UNCHANGED <<cache, sealed>>
  PROVE  CacheShape'
  BY TypeForm DEF IInv, CacheShape, EntryShape, SealShape, TrueUntil, Serving, Denied, Frame

(* The invariant, put together after a step on the cache or on a process.  *)
LEMMA Assemble ==
  ASSUME IInv, Frame, CacheShape', sealed' \subseteq Caches, faults' \in 0..MaxFaults,
         fill' \in [Fillers -> FillType], rev' \in [Revokers -> RevType], adv' \in AdvType,
         \A f \in Fillers : FillShape(f)', \A r \in Revokers : RevShape(r)', AdvShape'
  PROVE  IInv'
<1>1. TypeOK'
  BY DEF IInv, TypeOK, CacheShape, EntryType, FillType, RevType, AdvType, Frame
<1> QED
  BY <1>1 DEF IInv, CacheShape, Frame

LEMMA FaultType == ASSUME TypeOK, Fault \/ UNCHANGED faults PROVE faults' \in 0..MaxFaults
  BY DEF TypeOK, Fault

(* Time only shortens windows, and Redis drops what has expired.           *)
LEMMA TickIInv == ASSUME IInv, Tick PROVE IInv'
<1>0. now' = now + 1 /\ now < MaxTime /\ UNCHANGED <<row, at, bumped, fill, rev, adv, faults, sealed>>
  BY DEF Tick
<1>1. \A c \in Caches : \/ cache[c].exp <= now + 1 /\ cache'[c] = NoEntry
                        \/ now + 1 < cache[c].exp /\ cache'[c] = cache[c]
  BY TypeForm DEF IInv, Tick, EntryType
<1>2. cache' \in [Caches -> EntryType]
  BY TypeForm DEF IInv, Tick, NoEntry, EntryType
<1>3. \A c \in Caches : EntryShape(c)'
  <2> SUFFICES ASSUME NEW c \in Caches PROVE EntryShape(c)'
    OBVIOUS
  <2>1. CASE cache'[c] = NoEntry
    BY <1>0, <2>1, TypeForm DEF IInv, EntryShape, NoEntry, Serving
  <2>2. CASE cache'[c] = cache[c] /\ now + 1 < cache[c].exp
    <3>1. EntryShape(c) /\ cache[c].exp \in Nat /\ cache[c].ver \in Nat
      BY TypeForm DEF IInv, EntryType
    <3> QED
      BY <1>0, <2>2, <3>1, TypeForm DEF IInv, EntryShape, Serving, TrueUntil
  <2> QED
    BY <1>1, <2>1, <2>2
<1>4. \A c \in sealed' : SealShape(c)'
  <2>1. sealed \subseteq Caches
    BY DEF IInv, TypeOK
  <2> QED
    BY <1>0, <1>1, <2>1, TypeForm DEF IInv, SealShape, Denied, EntryType
<1>5. (\A f \in Fillers : FillShape(f)') /\ AdvShape'
  BY <1>0, TypeForm DEF IInv, FillShape, AdvShape, TrueUntil, FillType, AdvType
<1>6. \A r \in Revokers : RevShape(r)'
  BY <1>0 DEF IInv, RevShape
<1>7. TypeOK'
  BY <1>0, <1>2 DEF IInv, TypeOK, EntryType, Times
<1> QED
  BY <1>0, <1>3, <1>4, <1>5, <1>6, <1>7, TypeForm DEF IInv

(* A filler's deadline is taken before it reads the row, so the row it     *)
(* read was true at the beginning of its window or later.                  *)
LEMMA FillIInv ==
  ASSUME IInv, NEW f \in Fillers, NEW x \in FillType, fill' = [fill EXCEPT ![f] = x],
         Frame, CacheShape', UNCHANGED <<rev, adv, sealed>>, Fault \/ UNCHANGED faults,
         x.pc # "idle" => x.c \in Caches /\ x.dl <= now + TTL,
         x.pc = "read" => x.ver <= row.ver /\ (x.found => TrueUntil(x.ver, x.dl))
  PROVE  IInv'
<1>1. fill'[f] = x /\ \A g \in Fillers : g # f => fill'[g] = fill[g]
  BY TypeForm DEF IInv
<1>2. fill' \in [Fillers -> FillType] /\ rev' \in [Revokers -> RevType] /\ adv' \in AdvType
  BY TypeForm DEF IInv
<1>3. FillShape(f)'
  BY <1>1 DEF FillShape, TrueUntil, Frame
<1>4. \A g \in Fillers : FillShape(g)'
  BY <1>1, <1>3, StillShape
<1>5. (\A r \in Revokers : RevShape(r)') /\ AdvShape'
  BY StillShape
<1>6. sealed' \subseteq Caches /\ faults' \in 0..MaxFaults
  BY FaultType DEF IInv, TypeOK
<1> QED
  BY <1>2, <1>4, <1>5, <1>6, Assemble

LEMMA NoFillForm == NoFill \in FillType /\ NoFill \in AdvType /\ NoFill.pc = "idle"
  BY DEF NoFill, FillType, AdvType

LEMMA StartForm ==
  ASSUME NEW c \in Caches, TypeOK
  PROVE  LET x == [NoFill EXCEPT !.pc = "due", !.c = c, !.dl = now + TTL]
         IN  x \in FillType /\ x \in AdvType /\ x.pc = "due" /\ x.c = c /\ x.dl = now + TTL
<1>1. now + TTL \in 0..(MaxTime + TTL)
  BY TypeForm
<1> QED
  BY <1>1, NoFillForm DEF FillType, AdvType

LEMMA FillStartIInv == ASSUME IInv, NEW f \in Fillers, NEW c \in Caches, FillStart(f, c) PROVE IInv'
<1> DEFINE x == [NoFill EXCEPT !.pc = "due", !.c = c, !.dl = now + TTL]
<1>1. x \in FillType /\ x.pc = "due" /\ x.c = c /\ x.dl = now + TTL
  BY StartForm, Zenon DEF IInv
<1>2. fill' = [fill EXCEPT ![f] = x] /\ Frame /\ UNCHANGED <<cache, rev, adv, faults, sealed>>
  BY DEF FillStart, Frame
<1>3. CacheShape'
  BY <1>2, StillCache
<1>4. now + TTL <= now + TTL
  BY TypeForm DEF IInv
<1> HIDE DEF x
<1> QED
  BY <1>1, <1>2, <1>3, <1>4, FillIInv

LEMMA FillReadIInv == ASSUME IInv, NEW f \in Fillers, FillRead(f) PROVE IInv'
<1> DEFINE x == [fill[f] EXCEPT !.pc = "read", !.ver = row.ver, !.found = row.active]
<1>0. fill[f] \in FillType /\ row.ver \in 0..MaxVersion /\ row.active \in BOOLEAN
  BY TypeForm DEF IInv
<1>1. x \in FillType /\ x.pc = "read" /\ x.c = fill[f].c /\ x.dl = fill[f].dl /\ x.ver = row.ver
      /\ x.found = row.active
  BY <1>0 DEF FillType
<1>2. fill' = [fill EXCEPT ![f] = x] /\ Frame /\ UNCHANGED <<cache, rev, adv, faults, sealed>>
  BY DEF FillRead, Frame
<1>3. CacheShape'
  BY <1>2, StillCache
<1>4. fill[f].c \in Caches /\ fill[f].dl <= now + TTL
  BY DEF IInv, FillShape, FillRead
<1>5. row.ver <= row.ver /\ (row.active => TrueUntil(row.ver, fill[f].dl))
  BY <1>4, TypeForm DEF IInv, TrueUntil
<1> HIDE DEF x
<1> QED
  BY <1>1, <1>2, <1>3, <1>4, <1>5, FillIInv

LEMMA FillWriteIInv == ASSUME IInv, NEW f \in Fillers, FillWrite(f) PROVE IInv'
<1> DEFINE p == fill[f]
<1>1. p \in FillType /\ p.pc = "read" /\ p.c \in Caches /\ p.ver <= row.ver
      /\ (p.found => TrueUntil(p.ver, p.dl))
  BY TypeForm DEF IInv, FillShape, FillWrite
<1>2. p.ver \in 0..MaxVersion /\ p.dl \in 0..(MaxTime + TTL)
  BY <1>1 DEF FillType
<1>3. /\ fill' = [fill EXCEPT ![f] = NoFill] /\ Frame /\ UNCHANGED <<rev, adv, sealed>>
      /\ Fault \/ UNCHANGED faults
      /\ cache' \in {cache, IF p.found THEN PutActive(p.c, p.ver, p.dl)
                            ELSE PutDeny(p.c, p.ver, "revoked")}
  BY DEF FillWrite, Frame
<1>4. CacheShape'
  <2>1. CASE cache' = cache
    BY <1>3, <2>1, StillCache
  <2>2. CASE p.found /\ cache' = PutActive(p.c, p.ver, p.dl)
    BY <1>1, <1>2, <1>3, <2>2, PutActiveShape
  <2>3. CASE cache' = PutDeny(p.c, p.ver, "revoked")
    BY <1>1, <1>2, <1>3, <2>3, PutDenyShape
  <2> QED
    BY <1>3, <2>1, <2>2, <2>3
<1> QED
  BY <1>3, <1>4, NoFillForm, FillIInv

(* A revoker fences before it commits and seals after it.                  *)
LEMMA RevIInv ==
  ASSUME IInv, NEW r \in Revokers, NEW x \in RevType, rev' = [rev EXCEPT ![r] = x],
         Frame, CacheShape', sealed' \subseteq Caches, UNCHANGED <<fill, adv>>,
         Fault \/ UNCHANGED faults,
         x.pc # "idle" => x.c \in Caches /\ x.ver <= row.ver,
         x.pc = "seal" => ~row.active
  PROVE  IInv'
<1>1. rev'[r] = x /\ \A q \in Revokers : q # r => rev'[q] = rev[q]
  BY TypeForm DEF IInv
<1>2. fill' \in [Fillers -> FillType] /\ rev' \in [Revokers -> RevType] /\ adv' \in AdvType
  BY TypeForm DEF IInv
<1>3. RevShape(r)'
  BY <1>1 DEF RevShape, Frame
<1>4. \A q \in Revokers : RevShape(q)'
  BY <1>1, <1>3, StillShape
<1>5. (\A f \in Fillers : FillShape(f)') /\ AdvShape'
  BY StillShape
<1>6. faults' \in 0..MaxFaults
  BY FaultType DEF IInv, TypeOK
<1> QED
  BY <1>2, <1>4, <1>5, <1>6, Assemble

LEMMA NoRevForm == NoRev \in RevType /\ NoRev.pc = "idle"
  BY DEF NoRev, RevType

LEMMA RevForm ==
  ASSUME IInv, NEW r \in Revokers
  PROVE  /\ rev[r] \in RevType /\ rev[r].ver \in 0..MaxVersion
         /\ rev[r].pc # "idle" => rev[r].c \in Caches /\ rev[r].ver <= row.ver
         /\ rev[r].pc = "seal" => ~row.active
  BY TypeForm DEF IInv, RevShape, RevType

LEMMA RevokeStartIInv == ASSUME IInv, NEW r \in Revokers, NEW c \in Caches, RevokeStart(r, c) PROVE IInv'
<1> DEFINE x == [pc |-> "fence", c |-> c, ver |-> row.ver]
<1>1. x \in RevType /\ x.pc = "fence" /\ x.c = c /\ x.ver <= row.ver
  BY TypeForm DEF IInv, RevType
<1>2. rev' = [rev EXCEPT ![r] = x] /\ Frame /\ UNCHANGED <<cache, fill, adv, faults, sealed>>
  BY DEF RevokeStart, Frame
<1>3. CacheShape' /\ sealed' \subseteq Caches
  BY <1>2, StillCache DEF IInv, TypeOK
<1> HIDE DEF x
<1> QED
  BY <1>1, <1>2, <1>3, RevIInv

LEMMA RevokeFenceIInv == ASSUME IInv, NEW r \in Revokers, RevokeFence(r) PROVE IInv'
<1> DEFINE p == rev[r]
<1> DEFINE x == [p EXCEPT !.pc = "commit"]
<1>0. p.pc = "fence"
  BY DEF RevokeFence
<1>1. p \in RevType /\ p.c \in Caches /\ p.ver \in 0..MaxVersion /\ p.ver <= row.ver
  BY <1>0, RevForm
<1>2. x \in RevType /\ x.pc = "commit" /\ x.c = p.c /\ x.ver = p.ver
  BY <1>1 DEF RevType
<1>3. /\ Frame /\ UNCHANGED <<fill, adv, sealed>> /\ (Fault \/ UNCHANGED faults)
      /\ cache' \in {cache, PutDeny(p.c, p.ver, "revoking")}
      /\ rev' = [rev EXCEPT ![r] = NoRev] \/ rev' = [rev EXCEPT ![r] = x]
  BY DEF RevokeFence, Frame
<1>4. CacheShape' /\ sealed' \subseteq Caches
  <2>1. CASE cache' = cache
    BY <1>3, <2>1, StillCache DEF IInv, TypeOK
  <2>2. CASE cache' = PutDeny(p.c, p.ver, "revoking")
    BY <1>1, <1>3, <2>2, PutDenyShape DEF IInv, TypeOK
  <2> QED
    BY <1>3, <2>1, <2>2
<1> HIDE DEF x, p
<1> QED
  BY <1>1, <1>2, <1>3, <1>4, NoRevForm, RevIInv

LEMMA RevokeSealIInv == ASSUME IInv, NEW r \in Revokers, RevokeSeal(r) PROVE IInv'
<1> DEFINE p == rev[r]
<1>0. p.pc = "seal"
  BY DEF RevokeSeal
<1>1. p.c \in Caches /\ p.ver \in 0..MaxVersion /\ p.ver <= row.ver /\ ~row.active
  BY <1>0, RevForm
<1>3. /\ Frame /\ UNCHANGED <<fill, adv>> /\ (Fault \/ UNCHANGED faults)
      /\ \/ cache' = PutDeny(p.c, p.ver, "revoked")
         \/ UNCHANGED <<cache, sealed>>
      /\ sealed' = sealed \/ (TakesDeny(p.c, p.ver) /\ sealed' = sealed \cup {p.c})
      /\ rev' = [rev EXCEPT ![r] = NoRev]
  BY DEF RevokeSeal, Frame
<1>4. CacheShape'
  <2>1. CASE UNCHANGED <<cache, sealed>>
    BY <1>3, <2>1, StillCache
  <2>2. CASE cache' = PutDeny(p.c, p.ver, "revoked")
    BY <1>1, <1>3, <2>2, PutDenyShape
  <2> QED
    BY <1>3, <2>1, <2>2
<1>5. sealed' \subseteq Caches
  BY <1>1, <1>3 DEF IInv, TypeOK
<1> HIDE DEF p
<1> QED
  BY <1>3, <1>4, <1>5, NoRevForm, RevIInv

(* The revocation begins now, so every window that is open ends within a   *)
(* TTL of it.                                                              *)
LEMMA RevokeCommitIInv == ASSUME IInv, NEW r \in Revokers, RevokeCommit(r) PROVE IInv'
<1> DEFINE p == rev[r]
<1>0. p.pc = "commit"
  BY DEF RevokeCommit
<1>1. p \in RevType /\ p.c \in Caches /\ p.ver \in 0..MaxVersion /\ p.ver <= row.ver
  BY <1>0, RevForm
<1>2. UNCHANGED <<now, bumped, cache, fill, adv, sealed>> /\ (Fault \/ UNCHANGED faults)
  BY DEF RevokeCommit
<1>a. CASE row' = row /\ at' = at /\ rev' = [rev EXCEPT ![r] = NoRev]
  <2>1. CacheShape' /\ Frame /\ sealed' \subseteq Caches
    BY <1>2, <1>a, StillCache DEF Frame, IInv, TypeOK
  <2> QED
    BY <1>2, <1>a, <2>1, NoRevForm, RevIInv
<1>b. CASE row.active /\ row' = [row EXCEPT !.active = FALSE] /\ at' = now
  <2>1. row'.active = FALSE /\ row'.ver = row.ver /\ row' \in [active : BOOLEAN, ver : Versions]
    BY <1>b DEF IInv, TypeOK
  <2>2. PICK x \in RevType : /\ rev' = [rev EXCEPT ![r] = x]
                             /\ x.pc # "idle" => x.c \in Caches /\ x.ver <= row.ver
    <3>1. CASE rev' = [rev EXCEPT ![r] = NoRev]
      BY <3>1, NoRevForm
    <3>2. ASSUME NEW v \in {p.ver, row.ver}, rev' = [rev EXCEPT ![r].pc = "seal", ![r].ver = v]
          PROVE  \E x \in RevType : /\ rev' = [rev EXCEPT ![r] = x]
                                    /\ x.pc # "idle" => x.c \in Caches /\ x.ver <= row.ver
      <4> DEFINE x == [p EXCEPT !.pc = "seal", !.ver = v]
      <4>1. v \in 0..MaxVersion /\ v <= row.ver
        BY <1>1, TypeForm DEF IInv
      <4>2. x \in RevType /\ x.c = p.c /\ x.ver = v
        BY <1>1, <4>1 DEF RevType
      <4>3. rev' = [rev EXCEPT ![r] = x]
        BY <3>2
      <4> HIDE DEF x
      <4> QED
        BY <1>1, <4>1, <4>2, <4>3
    <3> QED
      BY <1>b, <3>1, <3>2 DEF RevokeCommit
  <2>3. rev'[r] = x /\ (\A q \in Revokers : q # r => rev'[q] = rev[q]) /\ rev' \in [Revokers -> RevType]
    BY <2>2, TypeForm DEF IInv
  <2>4. \A q \in Revokers : RevShape(q)'
    BY <2>1, <2>2, <2>3 DEF IInv, RevShape
  <2>5. \A v, dl : TrueUntil(v, dl) => TrueUntil(v, dl)'
    BY <1>2, <1>b, <2>1 DEF TrueUntil
  <2>6. (\A c \in Caches : EntryShape(c)') /\ (\A f \in Fillers : FillShape(f)') /\ AdvShape'
    BY <1>2, <2>1, <2>5 DEF IInv, EntryShape, FillShape, AdvShape, Serving
  <2>7. \A c \in sealed' : SealShape(c)'
    BY <1>2, <1>b DEF IInv, SealShape
  <2>8. faults' \in 0..MaxFaults
    BY <1>2, FaultType DEF IInv
  <2>9. TypeOK'
    BY <1>2, <1>b, <2>1, <2>3, <2>8 DEF IInv, TypeOK, RevType
  <2>10. at' <= now' /\ bumped' <= now'
    BY <1>2, <1>b, TypeForm DEF IInv
  <2> QED
    BY <2>4, <2>6, <2>7, <2>9, <2>10 DEF IInv
<1> QED
  BY <1>a, <1>b DEF RevokeCommit

(* The advancer takes its deadline before it locks the row.                *)
LEMMA AdvIInv ==
  ASSUME IInv, adv' \in AdvType, Frame, CacheShape', UNCHANGED <<fill, rev, sealed>>,
         Fault \/ UNCHANGED faults, AdvShape'
  PROVE  IInv'
<1>1. fill' \in [Fillers -> FillType] /\ rev' \in [Revokers -> RevType]
  BY TypeForm DEF IInv
<1>2. (\A f \in Fillers : FillShape(f)') /\ (\A r \in Revokers : RevShape(r)')
  BY StillShape
<1>3. faults' \in 0..MaxFaults /\ sealed' \subseteq Caches
  BY FaultType DEF IInv, TypeOK
<1> QED
  BY <1>1, <1>2, <1>3, Assemble

LEMMA AdvanceStartIInv == ASSUME IInv, NEW c \in Caches, AdvanceStart(c) PROVE IInv'
<1>0. adv' = [NoFill EXCEPT !.pc = "due", !.c = c, !.dl = now + TTL] /\ row.ver < MaxVersion
  BY DEF AdvanceStart
<1>1. adv' \in AdvType /\ adv'.pc = "due" /\ adv'.c = c /\ adv'.dl = now + TTL
  BY <1>0, StartForm, Zenon DEF IInv
<1>2. Frame /\ UNCHANGED <<cache, fill, rev, faults, sealed>>
  BY DEF AdvanceStart, Frame
<1>3. CacheShape'
  BY <1>2, StillCache
<1>4. AdvShape'
  BY <1>0, <1>1, <1>2, TypeForm DEF IInv, AdvShape, Frame
<1> QED
  BY <1>1, <1>2, <1>3, <1>4, AdvIInv

(* The version moves now, so every window on the old one ends within a TTL *)
(* of the move; while the row is active no cache is sealed.                *)
LEMMA AdvanceCommitIInv == ASSUME IInv, AdvanceCommit PROVE IInv'
<1>0. adv.pc = "due" /\ adv \in AdvType /\ adv.c \in Caches /\ adv.dl <= now + TTL /\ row.ver < MaxVersion
  BY TypeForm DEF IInv, AdvShape, AdvanceCommit
<1>1. UNCHANGED <<now, at, cache, fill, rev, faults, sealed>>
  BY DEF AdvanceCommit
<1>a. CASE ~row.active
  <2>1. adv' = NoFill /\ Frame
    BY <1>a, <1>1 DEF AdvanceCommit, Frame
  <2>2. CacheShape' /\ AdvShape'
    BY <1>1, <2>1, StillCache, NoFillForm DEF AdvShape
  <2> QED
    BY <1>1, <2>1, <2>2, NoFillForm, AdvIInv
<1>b. CASE row.active
  <2>1. /\ row' = [row EXCEPT !.ver = @ + 1] /\ bumped' = now
        /\ adv' = [adv EXCEPT !.pc = "publish", !.ver = row.ver + 1]
    BY <1>b DEF AdvanceCommit
  <2>2. row'.active = row.active /\ row'.ver = row.ver + 1 /\ row' \in [active : BOOLEAN, ver : Versions]
    BY <1>0, <2>1 DEF IInv, TypeOK, Versions
  <2>3. row.ver + 1 \in 0..MaxVersion
    BY <1>0, TypeForm DEF IInv
  <2>4. adv' \in AdvType /\ adv'.pc = "publish" /\ adv'.c = adv.c /\ adv'.dl = adv.dl /\ adv'.ver = row.ver + 1
    BY <1>0, <2>1, <2>3 DEF AdvType
  <2>5. \A v \in Nat : \A dl : TrueUntil(v, dl) => TrueUntil(v, dl)'
    BY <1>1, <1>b, <2>1, <2>2, TypeForm DEF IInv, TrueUntil
  <2>6. AdvShape'
    BY <1>0, <1>1, <1>b, <2>2, <2>4, TypeForm DEF IInv, AdvShape, TrueUntil
  <2>7. \A c \in Caches : cache[c].ver \in Nat
    BY TypeForm DEF IInv, EntryType
  <2>7a. \A c \in Caches : EntryShape(c)'
    BY <1>1, <2>2, <2>5, <2>7, TypeForm DEF IInv, EntryShape, Serving
  <2>8. \A f \in Fillers : fill[f].ver \in Nat
    BY TypeForm DEF IInv, FillType
  <2>8a. \A f \in Fillers : FillShape(f)'
    BY <1>1, <2>2, <2>5, <2>8, TypeForm DEF IInv, FillShape
  <2>9. \A r \in Revokers : rev[r].ver \in Nat
    BY TypeForm DEF IInv, RevType
  <2>9a. \A r \in Revokers : RevShape(r)'
    BY <1>1, <2>2, <2>9, TypeForm DEF IInv, RevShape
  <2>10. \A c \in sealed' : SealShape(c)'
    BY <1>1, <1>b DEF IInv, SealShape
  <2>11. TypeOK'
    BY <1>1, <2>1, <2>2, <2>4 DEF IInv, TypeOK, AdvType
  <2>12. at' <= now' /\ bumped' <= now'
    BY <1>1, <2>1, TypeForm DEF IInv
  <2> QED
    BY <2>6, <2>7a, <2>8a, <2>9a, <2>10, <2>11, <2>12 DEF IInv
<1> QED
  BY <1>a, <1>b, TypeForm DEF IInv

LEMMA AdvancePublishIInv == ASSUME IInv, AdvancePublish PROVE IInv'
<1>0. adv.pc = "publish" /\ adv \in AdvType /\ adv.c \in Caches /\ TrueUntil(adv.ver, adv.dl)
  BY TypeForm DEF IInv, AdvShape, AdvancePublish
<1>1. adv.ver \in 0..MaxVersion /\ adv.dl \in 0..(MaxTime + TTL)
  BY <1>0 DEF AdvType
<1>2. /\ adv' = NoFill /\ Frame /\ UNCHANGED <<fill, rev, sealed>> /\ (Fault \/ UNCHANGED faults)
      /\ cache' \in {cache, PutActive(adv.c, adv.ver, adv.dl)}
  BY DEF AdvancePublish, Frame
<1>3. CacheShape'
  BY <1>0, <1>1, <1>2, StillCache, PutActiveShape
<1>4. AdvShape'
  BY <1>2, NoFillForm DEF AdvShape
<1> QED
  BY <1>2, <1>3, <1>4, NoFillForm, AdvIInv

LEMMA StutterIInv == ASSUME IInv, UNCHANGED vars PROVE IInv'
<1>1. Frame /\ UNCHANGED <<cache, fill, rev, adv, faults, sealed>>
  BY DEF vars, Frame
<1>2. CacheShape' /\ AdvShape'
  BY <1>1, StillCache, StillShape
<1> QED
  BY <1>1, <1>2, TypeForm, AdvIInv DEF IInv

LEMMA NextIInv == ASSUME IInv, [Next]_vars PROVE IInv'
<1>1. ASSUME NEW f \in Fillers, FillRead(f) \/ FillWrite(f) \/ \E c \in Caches : FillStart(f, c)
      PROVE  IInv'
  BY <1>1, FillReadIInv, FillWriteIInv, FillStartIInv
<1>2. ASSUME NEW r \in Revokers, \/ RevokeFence(r) \/ RevokeCommit(r) \/ RevokeSeal(r)
                                 \/ \E c \in Caches : RevokeStart(r, c)
      PROVE  IInv'
  BY <1>2, RevokeFenceIInv, RevokeCommitIInv, RevokeSealIInv, RevokeStartIInv
<1>3. CASE AdvanceCommit \/ AdvancePublish \/ \E c \in Caches : AdvanceStart(c)
  BY <1>3, AdvanceCommitIInv, AdvancePublishIInv, AdvanceStartIInv
<1> QED
  BY <1>1, <1>2, <1>3, TickIInv, StutterIInv DEF Next

(* IInv holds in every reachable state: whatever a request or a cache      *)
(* still believes of the session was true at the beginning of its window.  *)
THEOREM CacheInvariance == Spec => []IInv
<1>1. Init => IInv
  BY InitIInv
<1>2. IInv /\ [Next]_vars => IInv'
  BY NextIInv
<1> QED
  BY <1>1, <1>2, PTL DEF Spec

(* The variables keep their types; in particular no deadline is further    *)
(* away than one TTL (userSessionCacheDeadline).                           *)
THEOREM CacheTypeCorrect == Spec => []TypeOK
<1>1. IInv => TypeOK
  BY DEF IInv
<1> QED
  BY <1>1, CacheInvariance, PTL

(* writeUserSessionCache and AdvanceUserSessionAuthVersion: one TTL after  *)
(* the version moved, every Redis that serves the session serves the new   *)
(* version.                                                                *)
THEOREM VersionsConverge == Spec => []VersionConverges
<1>1. ASSUME IInv PROVE VersionConverges
  <2> SUFFICES ASSUME now >= bumped + TTL, NEW c \in Caches, Serving(c)
               PROVE  cache[c].ver = row.ver
    BY DEF VersionConverges
  <2>1. cache[c].ver \in Nat /\ cache[c].exp \in Nat /\ EntryShape(c)
    BY <1>1, TypeForm DEF IInv, EntryType
  <2> QED
    BY <1>1, <2>1, TypeForm DEF IInv, EntryShape, TrueUntil, Serving
<1> QED
  BY <1>1, CacheInvariance, PTL

(* A sealed cache does not serve: before the end of the window its         *)
(* tombstone refuses every copy, afterwards every copy is late.            *)
LEMMA SealedSilent == ASSUME IInv PROVE TombstoneHolds
<1> SUFFICES ASSUME NEW c \in sealed PROVE ~Serving(c)
  BY DEF TombstoneHolds
<1>1. c \in Caches
  BY DEF IInv, TypeOK
<1>2. cache[c].exp \in Nat /\ EntryShape(c) /\ SealShape(c)
  BY <1>1, TypeForm DEF IInv, EntryType
<1> QED
  BY <1>2, TypeForm DEF IInv, EntryShape, SealShape, TrueUntil, Serving, Denied

(* RevokeUserSession: a Redis that took the final tombstone never answers  *)
(* again that the session is active, whatever fill was delayed.            *)
THEOREM TombstonesHold == Spec => []TombstoneHolds
<1>1. IInv => TombstoneHolds
  BY SealedSilent
<1> QED
  BY <1>1, CacheInvariance, PTL

-----------------------------------------------------------------------------
(* SessionCache implements RevocationWindow                                *)

serves == {c \in Caches : Serving(c)}

(* Nothing the abstract specification sees has moved.                      *)
LEMMA Silent ==
  ASSUME UNCHANGED <<now, row, at, cache, sealed>>
  PROVE  UNCHANGED Window!vars
  BY DEF Window!vars, Serving

(* A write to the cache is an answer of the abstract specification: once   *)
(* the window is over it can only silence a cache.                         *)
LEMMA WriteAnswers ==
  ASSUME IInv, TombstoneHolds', Frame, UNCHANGED sealed,
         \/ \E c \in Caches, v \in 0..MaxVersion, dl \in 0..(MaxTime + TTL) :
              TrueUntil(v, dl) /\ cache' = PutActive(c, v, dl)
         \/ \E c \in Caches, v \in 0..MaxVersion, st \in {"revoking", "revoked"} : cache' = PutDeny(c, v, st)
         \/ cache' = cache
  PROVE  Window!Answer
<1>1. serves' \in SUBSET (Caches \ sealed)
  BY DEF serves, TombstoneHolds
<1>2. cache \in [Caches -> EntryType]
  BY TypeForm DEF IInv
<1>3. Window!Open(now) \/ serves' \subseteq serves
  <2>1. ASSUME NEW c \in Caches, NEW v \in 0..MaxVersion, NEW dl \in 0..(MaxTime + TTL),
               TrueUntil(v, dl), cache' = PutActive(c, v, dl), ~Window!Open(now)
        PROVE  serves' \subseteq serves
    <3>1. Late(dl)
      BY <2>1, TypeForm DEF IInv, Window!Open, TrueUntil, Late
    <3> QED
      BY <2>1, <3>1 DEF PutActive, serves, Serving
  <2>2. ASSUME NEW c \in Caches, NEW v \in 0..MaxVersion, NEW st \in {"revoking", "revoked"},
               cache' = PutDeny(c, v, st)
        PROVE  serves' \subseteq serves
    BY <1>2, <2>2 DEF PutDeny, serves, Serving
  <2>3. CASE cache' = cache
    BY <2>3 DEF serves, Serving
  <2> QED
    BY <2>1, <2>2, <2>3
<1> QED
  BY <1>1, <1>3 DEF Window!Answer, serves, Frame

LEMMA TickImplements == ASSUME IInv, Tick PROVE Window!Tick
<1>0. now' = now + 1 /\ UNCHANGED <<row, at, sealed>>
  BY DEF Tick
<1>1. \A c \in Caches : \/ cache[c].exp <= now + 1 /\ cache'[c] = NoEntry
                        \/ now + 1 < cache[c].exp /\ cache'[c] = cache[c]
  BY TypeForm DEF IInv, Tick, EntryType
<1>2. \A c \in Caches : Serving(c)' => Serving(c) /\ now + 1 < cache[c].exp
  BY <1>1 DEF Serving, NoEntry
<1>3. serves' \in SUBSET serves
  BY <1>2 DEF serves
<1>4. Window!Open(now + 1) \/ serves' = {}
  <2> SUFFICES ASSUME ~Window!Open(now + 1), NEW c \in Caches, Serving(c)' PROVE FALSE
    BY DEF serves
  <2>1. cache[c].exp \in Nat /\ cache[c].exp <= at + TTL /\ now + 1 < cache[c].exp
    BY <1>2, TypeForm DEF IInv, EntryShape, TrueUntil, EntryType, Window!Open
  <2> QED
    BY <2>1, TypeForm DEF IInv, Window!Open
<1> QED
  BY <1>0, <1>3, <1>4 DEF Window!Tick, serves

LEMMA SealImplements ==
  ASSUME IInv, NEW r \in Revokers, RevokeSeal(r)
  PROVE  (\E c \in Caches : Window!Seal(c)) \/ UNCHANGED Window!vars
<1> DEFINE p == rev[r]
<1>1. p.pc = "seal" /\ Frame
  BY DEF RevokeSeal, Frame
<1>2. p.c \in Caches /\ ~row.active
  BY <1>1, RevForm
<1>a. CASE UNCHANGED <<cache, sealed>>
  BY <1>1, <1>a, Silent DEF Frame
<1>b. CASE cache' = PutDeny(p.c, p.ver, "revoked") /\ TakesDeny(p.c, p.ver) /\ sealed' = sealed \cup {p.c}
  <2>1. cache'[p.c].st = "revoked" /\ \A d \in Caches : d # p.c => cache'[d] = cache[d]
    BY <1>2, <1>b, TypeForm DEF IInv, PutDeny
  <2>2. serves' = serves \ {p.c}
    BY <2>1 DEF serves, Serving
  <2>3. Window!Seal(p.c)
    BY <1>1, <1>2, <1>b, <2>2 DEF Window!Seal, serves, Frame
  <2> QED
    BY <1>2, <2>3
<1>c. CASE ~TakesDeny(p.c, p.ver) /\ cache' = PutDeny(p.c, p.ver, "revoked") /\ sealed' = sealed
  BY <1>1, <1>c, Silent DEF PutDeny, Frame
<1> QED
  BY <1>a, <1>b, <1>c DEF RevokeSeal

LEMMA CommitImplements ==
  ASSUME IInv, NEW r \in Revokers, RevokeCommit(r)
  PROVE  Window!Revoke \/ UNCHANGED Window!vars
<1>1. UNCHANGED <<now, cache, sealed>>
  BY DEF RevokeCommit
<1>a. CASE row' = row /\ at' = at
  BY <1>1, <1>a, Silent
<1>b. CASE row.active /\ row' = [row EXCEPT !.active = FALSE] /\ at' = now
  <2>1. row'.active = FALSE
    BY <1>b DEF IInv, TypeOK
  <2>2. serves' = serves
    BY <1>1 DEF serves, Serving
  <2> QED
    BY <1>1, <1>b, <2>1, <2>2 DEF Window!Revoke, serves
<1> QED
  BY <1>a, <1>b DEF RevokeCommit

LEMMA NextImplements ==
  ASSUME IInv, TombstoneHolds', [Next]_vars
  PROVE  [Window!Next]_Window!vars
<1>1. ASSUME NEW f \in Fillers, FillRead(f) \/ FillWrite(f) \/ \E c \in Caches : FillStart(f, c)
      PROVE  [Window!Next]_Window!vars
  <2>1. CASE FillRead(f) \/ \E c \in Caches : FillStart(f, c)
    BY <2>1, Silent DEF FillRead, FillStart
  <2>2. CASE FillWrite(f)
    <3> DEFINE p == fill[f]
    <3>1. p \in FillType /\ p.c \in Caches /\ (p.found => TrueUntil(p.ver, p.dl))
      BY <2>2, TypeForm DEF IInv, FillShape, FillWrite
    <3>2. p.ver \in 0..MaxVersion /\ p.dl \in 0..(MaxTime + TTL)
      BY <3>1 DEF FillType
    <3>3. /\ Frame /\ UNCHANGED sealed
          /\ cache' \in {cache, IF p.found THEN PutActive(p.c, p.ver, p.dl)
                                ELSE PutDeny(p.c, p.ver, "revoked")}
      BY <2>2 DEF FillWrite, Frame
    <3> HIDE DEF p
    <3>4. Window!Answer
      BY <3>1, <3>2, <3>3, WriteAnswers
    <3> QED
      BY <3>4 DEF Window!Next
  <2> QED
    BY <1>1, <2>1, <2>2
<1>2. ASSUME NEW r \in Revokers, \/ RevokeFence(r) \/ RevokeCommit(r) \/ RevokeSeal(r)
                                 \/ \E c \in Caches : RevokeStart(r, c)
      PROVE  [Window!Next]_Window!vars
  <2>1. CASE RevokeFence(r)
    <3> DEFINE p == rev[r]
    <3>1. /\ Frame /\ UNCHANGED sealed
          /\ cache' \in {cache, PutDeny(p.c, p.ver, "revoking")}
      BY <2>1 DEF RevokeFence, Frame
    <3>2. p.c \in Caches /\ p.ver \in 0..MaxVersion
      BY <2>1, RevForm DEF RevokeFence
    <3>3. Window!Answer
      BY <3>1, <3>2, WriteAnswers
    <3> QED
      BY <3>3 DEF Window!Next
  <2>2. CASE RevokeCommit(r)
    BY <2>2, CommitImplements DEF Window!Next
  <2>3. CASE RevokeSeal(r)
    BY <2>3, SealImplements DEF Window!Next
  <2>4. CASE \E c \in Caches : RevokeStart(r, c)
    BY <2>4, Silent DEF RevokeStart
  <2> QED
    BY <1>2, <2>1, <2>2, <2>3, <2>4
<1>3. CASE AdvanceCommit
  <2>1. UNCHANGED <<now, at, cache, sealed>> /\ row'.active = row.active
    BY <1>3 DEF AdvanceCommit, IInv, TypeOK
  <2> QED
    BY <2>1 DEF Window!vars, Serving
<1>4. CASE \E c \in Caches : AdvanceStart(c)
  BY <1>4, Silent DEF AdvanceStart
<1>5. CASE AdvancePublish
  <2>1. adv \in AdvType /\ adv.c \in Caches /\ TrueUntil(adv.ver, adv.dl)
    BY <1>5, TypeForm DEF IInv, AdvShape, AdvancePublish
  <2>2. adv.ver \in 0..MaxVersion /\ adv.dl \in 0..(MaxTime + TTL)
    BY <2>1 DEF AdvType
  <2>3. Frame /\ UNCHANGED sealed /\ cache' \in {cache, PutActive(adv.c, adv.ver, adv.dl)}
    BY <1>5 DEF AdvancePublish, Frame
  <2>4. Window!Answer
    BY <2>1, <2>2, <2>3, WriteAnswers
  <2> QED
    BY <2>4 DEF Window!Next
<1>6. CASE Tick
  BY <1>6, TickImplements DEF Window!Next
<1>7. CASE UNCHANGED vars
  BY <1>7, Silent DEF vars
<1> QED
  BY <1>1, <1>2, <1>3, <1>4, <1>5, <1>6, <1>7 DEF Next

LEMMA InitImplements == Init => Window!Init
  BY DEF Init, Window!Init, Serving, NoEntry

(* The protocol implements RevocationWindow for every number of Redis      *)
(* instances and processes and every TTL: one TTL after RevokeUserSession  *)
(* committed no Redis answers that the session is active, and one that was *)
(* told never does.                                                        *)
THEOREM ImplementsWindow == Spec => KeepsWindow
<1>1. Init => Window!Init
  BY InitImplements
<1>2. IInv /\ TombstoneHolds' /\ [Next]_vars => [Window!Next]_Window!vars
  BY NextImplements
<1>3. Spec => []IInv /\ []TombstoneHolds
  BY CacheInvariance, TombstonesHold
<1> QED
  BY <1>1, <1>2, <1>3, PTL DEF Spec, KeepsWindow, Window!Spec
=============================================================================

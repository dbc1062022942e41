--------------------------- MODULE LoginSessions ---------------------------
(***************************************************************************)
(* The browser login session: the tabs of one browser profile, the cookie  *)
(* jar they share and the server's session rows.                           *)
(*                                                                         *)
(* Browser side: web/src/lib/auth-session.ts (single-flight refresh, epoch *)
(* guard, outcomes), lib/http-client.ts (401, refresh, replay),            *)
(* lib/auth-session-sync.ts and routes/__root.tsx (events between tabs),   *)
(* features/auth/api.ts (sign-out).  Server side: RefreshAuth, AuthLogout  *)
(* and RefreshLoginSession.                                                *)
(*                                                                         *)
(* A refresh secret is the pair of its session and its generation: the     *)
(* successor of a secret is derived from it (deriveNextRefreshSecret), so  *)
(* generation n of a session is one value whoever asks for it.  Time is    *)
(* abstracted to the one moment the code compares: grace says whether the  *)
(* previous secret is still inside RefreshReplayWindow.                    *)
(***************************************************************************)
EXTENDS Naturals, Sequences, FiniteSets

CONSTANTS
  Tabs,       \* browser tabs of one profile
  Ghost,      \* slot of a refresh request whose page is gone
  NoTab,      \* nobody holds the Web Lock
  MaxSid,     \* bound: login sessions created
  MaxGen,     \* bound: rotations of one session
  MaxInputs,  \* bound: sign-ins and -outs, security changes, revocations, reloads, calls
  MaxFaults,  \* bound: lost answers, requests orphaned by a page load, dropped events
  WebLocks    \* navigator.locks exists (secure context)

ASSUME SlotAssumption == Ghost \notin Tabs /\ NoTab \notin Tabs
ASSUME BoundAssumption ==
  /\ MaxSid \in Nat \ {0} /\ MaxGen \in Nat
  /\ MaxInputs \in Nat /\ MaxFaults \in Nat
  /\ WebLocks \in BOOLEAN

VARIABLES
  row,     \* user_sessions: status, generation of refresh_hash, replay window open,
           \* user_auth_version, and auth_version of the user it belongs to
  jar,     \* the refresh cookie
  sess,    \* per tab: auth.session.sid of the store, 0 when there is none
  boot,    \* per tab: auth.bootstrapState
  run,     \* per tab: the refresh behind refreshPromise
  ref,     \* per slot: its HTTP exchange with /api/user/auth/refresh
  op,      \* per tab: a sign-in, sign-out or security change under way
  call,    \* per tab: an API call that met a 401
  bus,     \* per tab: auth events posted and not delivered
  lock,    \* holder of the Web Lock 'new-api:auth-refresh'
  inputs,  \* what users and their pages have asked for so far
  faults,  \* lost answers, orphaned requests and dropped events so far
  gone,    \* history, per tab: sessions it has signed out of
  torn     \* history: a rotation was committed and its secret withheld

vars == <<row, jar, sess, boot, run, ref, op, call, bus, lock, inputs, faults, gone, torn>>

Sids  == 1..MaxSid
Slots == Tabs \cup {Ghost}
NoSid == 0

Token == [sid : 0..MaxSid, gen : 0..MaxGen]
NoToken == [sid |-> NoSid, gen |-> 0]

\* RefreshRaceDelays: the number of delayed retries of a 409 RACE.
RaceRetries == 3

Exchange == [st : {"none", "req", "read", "checked", "rotated", "reuse", "resp", "back"},
             exp : 0..MaxSid, tok : Token, ver : Nat,
             ans : {"none", "ok", "mismatch", "race", "unauth", "error"}]
NoExchange == [st |-> "none", exp |-> NoSid, tok |-> NoToken, ver |-> 0, ans |-> "none"]

Runner == [pc : {"none", "lock", "ready", "sent"},
           current : BOOLEAN, race : 0..RaceRetries, retry : BOOLEAN]
NoRun == [pc |-> "none", current |-> FALSE, race |-> 0, retry |-> FALSE]

Operation == [kind : {"none", "login", "oauth", "logout", "rotate"},
              st : {"none", "req", "bumped", "advanced", "resp", "back", "refresh", "again"},
              exp : 0..MaxSid, bearer : BOOLEAN, tok : Token, next : Nat,
              ans : {"none", "done", "mismatch", "error"},
              clear : BOOLEAN, first : BOOLEAN]
NoOp == [kind |-> "none", st |-> "none", exp |-> NoSid, bearer |-> FALSE,
         tok |-> NoToken, next |-> 0, ans |-> "none", clear |-> FALSE, first |-> FALSE]

Event == [kind : {"authenticated", "signed_out"}, sid : Sids]

TypeOK ==
  /\ row \in [Sids -> [status : {"none", "active", "revoked"},
                       cur : 0..MaxGen, grace : BOOLEAN,
                       ver : Nat, auth : Nat]]
  /\ jar \in Token
  /\ sess \in [Tabs -> 0..MaxSid]
  /\ boot \in [Tabs -> {"idle", "checking", "complete"}]
  /\ run \in [Tabs -> Runner]
  /\ ref \in [Slots -> Exchange]
  /\ op \in [Tabs -> Operation]
  /\ call \in [Tabs -> {"none", "wait", "replay", "leave"}]
  /\ bus \in [Tabs -> Seq(Event)]
  /\ lock \in Tabs \cup {NoTab}
  /\ inputs \in 0..MaxInputs
  /\ faults \in 0..MaxFaults
  /\ gone \in [Tabs -> SUBSET Sids]
  /\ torn \in BOOLEAN

Active(s) == s \in Sids /\ row[s].status = "active"

\* The user's security settings changed and the session was not advanced.
Outdated(s) == row[s].ver # row[s].auth

\* The profile holds no cookie, or the cookie of a session opened before; each
\* page is freshly loaded or shows that session.
Init ==
  /\ \E shows \in SUBSET Tabs, signedIn \in BOOLEAN :
       /\ shows # {} => signedIn
       /\ row = [s \in Sids |-> [status |-> IF signedIn /\ s = 1 THEN "active" ELSE "none",
                                 cur |-> 0, grace |-> FALSE, ver |-> 0, auth |-> 0]]
       /\ jar = IF signedIn THEN [sid |-> 1, gen |-> 0] ELSE NoToken
       /\ sess = [t \in Tabs |-> IF t \in shows THEN 1 ELSE NoSid]
       /\ boot = [t \in Tabs |-> IF t \in shows THEN "complete" ELSE "idle"]
  /\ run = [t \in Tabs |-> NoRun]
  /\ ref = [x \in Slots |-> NoExchange]
  /\ op = [t \in Tabs |-> NoOp]
  /\ call = [t \in Tabs |-> "none"]
  /\ bus = [t \in Tabs |-> <<>>]
  /\ lock = NoTab
  /\ inputs = 0
  /\ faults = 0
  /\ gone = [t \in Tabs |-> {}]
  /\ torn = FALSE

\* One more thing asked of the browser; only a bound of the model.
Input == inputs < MaxInputs /\ inputs' = inputs + 1

-----------------------------------------------------------------------------
(* The auth store and the events between tabs                              *)

\* Mutant: an event without a sid is posted too.
PublishAlways(t, kind, s) ==
  [u \in Tabs |-> IF u # t THEN Append(bus[u], [kind |-> kind, sid |-> s]) ELSE bus[u]]

\* publishAuthSessionEvent: every other tab; nothing for an empty sid.
Publish(t, kind, s) ==
  [u \in Tabs |-> IF u # t /\ s # NoSid
                  THEN Append(bus[u], [kind |-> kind, sid |-> s]) ELSE bus[u]]

\* authEpoch += 1: a refresh of the tab that is still running is superseded.
BumpEpoch(t) == [run EXCEPT ![t].current = FALSE]

-----------------------------------------------------------------------------
(* refreshAuthentication                                                   *)

\* refreshPromise is shared: a refresh already under way is joined.
BeginRefresh(t) ==
  run' = IF run[t].pc # "none" THEN run
         ELSE [run EXCEPT ![t] = [pc |-> IF WebLocks THEN "lock" ELSE "ready",
                                  current |-> TRUE, race |-> 0, retry |-> TRUE]]

\* resolveAuthentication of a route guard: the answer is not in memory.  An
\* access token outlives any request, so a superseded refresh is never joined.
Resolve(t) ==
  /\ boot[t] # "complete" \/ sess[t] # NoSid
  /\ run[t].pc = "none" \/ run[t].current
  /\ call[t] # "leave"
  /\ boot' = [boot EXCEPT ![t] = "checking"]
  /\ BeginRefresh(t)
  /\ IF sess[t] = NoSid THEN UNCHANGED inputs ELSE Input
  /\ UNCHANGED <<row, jar, sess, ref, op, call, bus, lock, faults, gone, torn>>

\* An API call is answered 401, or wants fresh headers: refresh, then replay.
CallUnauthorized(t) ==
  /\ call[t] = "none" /\ (run[t].pc = "none" \/ run[t].current)
  /\ call' = [call EXCEPT ![t] = "wait"]
  /\ BeginRefresh(t)
  /\ Input
  /\ UNCHANGED <<row, jar, sess, boot, ref, op, bus, lock, faults, gone, torn>>

\* Mutant: a shared lock.
LockShared == TRUE

\* navigator.locks.request grants the exclusive lock.
LockFree == lock = NoTab
AcquireLock(t) ==
  /\ run[t].pc = "lock" /\ LockFree
  /\ lock' = t
  /\ run' = [run EXCEPT ![t].pc = "ready"]
  /\ UNCHANGED <<row, jar, sess, boot, ref, op, call, bus, inputs, faults, gone, torn>>

\* What the callers that awaited the promise do with the outcome: the 401
\* handler replays or goes to the sign-in page, a sign-out that met a mismatch
\* is sent again, counts as done, or gives up.
AfterCall(t, kind) ==
  IF call[t] # "wait" THEN call
  ELSE [call EXCEPT ![t] = CASE kind = "authenticated" -> "replay"
                             [] kind \in {"anonymous", "out_of_sync"} -> "leave"
                             [] OTHER -> "none"]
AfterOp(t, kind) ==
  IF op[t].st # "refresh" THEN op
  ELSE [op EXCEPT ![t] =
          CASE kind = "authenticated" -> [@ EXCEPT !.st = "again"]
            [] kind = "anonymous" -> [@ EXCEPT !.st = "back", !.ans = "done"]
            [] OTHER -> NoOp]

\* Mutant: the lock outlives the refresh.
KeepLock(t) == lock

\* The lock goes with the refresh that held it, or with its page.
ReleaseLock(t) == IF lock = t THEN NoTab ELSE lock

\* The promise resolves: refreshPromise = null and the lock is released.
Finish(t, kind) ==
  /\ run' = [run EXCEPT ![t] = NoRun]
  /\ ref' = [ref EXCEPT ![t] = NoExchange]
  /\ lock' = ReleaseLock(t)
  /\ call' = AfterCall(t, kind)
  /\ op' = AfterOp(t, kind)

\* run(): nothing is sent for a superseded refresh; otherwise the request
\* carries the SID in memory and the browser adds the cookie of this moment.
SendRefresh(t) ==
  /\ run[t].pc = "ready"
  /\ IF run[t].current
     THEN /\ ref' = [ref EXCEPT ![t] = [NoExchange EXCEPT !.st = "req", !.exp = sess[t],
                                                           !.tok = jar]]
          /\ run' = [run EXCEPT ![t].pc = "sent"]
          /\ UNCHANGED <<op, call, lock>>
     ELSE Finish(t, "transient_error")
  /\ UNCHANGED <<row, jar, sess, boot, bus, inputs, faults, gone, torn>>

\* Outcome of a response that is still current, per answer of the server.
OutcomeKind(t) ==
  CASE ref[t].ans = "ok" -> "authenticated"
    [] ref[t].ans = "unauth" -> "anonymous"
    [] ref[t].ans = "error" -> "transient_error"
    [] OTHER -> "out_of_sync"

RetriesRace(t)     == ref[t].ans = "race" /\ run[t].race < RaceRetries
RetriesMismatch(t) == ref[t].ans = "mismatch" /\ run[t].retry

\* markTransient makes the next navigation ask again; every other outcome is an
\* answer.
BootAfter(t, kind) == IF kind = "transient_error" THEN "idle" ELSE "complete"

\* Mutant: the epoch is not compared once the response is there.
AlwaysCurrent(t) == TRUE

\* isCurrent, asked again before the response is used.
StillCurrent(t) == run[t].current

\* The response is handled.
HandleRefresh(t) ==
  /\ run[t].pc = "sent" /\ ref[t].st = "back"
  /\ \/ /\ ~StillCurrent(t)
        /\ Finish(t, "transient_error")
        /\ UNCHANGED <<sess, boot, bus>>
     \/ /\ StillCurrent(t) /\ (RetriesRace(t) \/ RetriesMismatch(t))
        /\ run' = IF RetriesRace(t) THEN [run EXCEPT ![t].pc = "ready", ![t].race = @ + 1]
                  ELSE [run EXCEPT ![t].pc = "ready", ![t].race = 0, ![t].retry = FALSE]
        /\ ref' = [ref EXCEPT ![t] = NoExchange]
        \* reset('idle') forgets the stale SID and leaves the epoch alone
        /\ sess' = IF RetriesMismatch(t) THEN [sess EXCEPT ![t] = NoSid] ELSE sess
        /\ boot' = IF RetriesMismatch(t) THEN [boot EXCEPT ![t] = "idle"] ELSE boot
        /\ UNCHANGED <<op, call, bus, lock>>
     \/ /\ StillCurrent(t) /\ ~RetriesRace(t) /\ ~RetriesMismatch(t)
        /\ LET kind == OutcomeKind(t)
           IN /\ Finish(t, kind)
              /\ sess' = CASE kind = "authenticated" ->
                                [sess EXCEPT ![t] = ref[t].tok.sid]
                           [] kind = "transient_error" -> sess
                           [] OTHER -> [sess EXCEPT ![t] = NoSid]
              /\ boot' = [boot EXCEPT ![t] = BootAfter(t, kind)]
              /\ bus' = IF kind = "anonymous"
                        THEN Publish(t, "signed_out", sess[t]) ELSE bus
  /\ UNCHANGED <<row, jar, inputs, faults, gone, torn>>

\* The call is replayed with the token of the store; a second 401 clears the
\* tab without telling the others and leaves for the sign-in page.
ReplayCall(t) ==
  /\ call[t] = "replay"
  /\ IF Active(sess[t])
     THEN /\ call' = [call EXCEPT ![t] = "none"]
          /\ UNCHANGED <<sess, boot, run>>
     ELSE /\ call' = [call EXCEPT ![t] = "leave"]
          /\ sess' = [sess EXCEPT ![t] = NoSid]
          /\ boot' = [boot EXCEPT ![t] = "complete"]
          /\ run' = BumpEpoch(t)
  /\ UNCHANGED <<row, jar, ref, op, bus, lock, inputs, faults, gone, torn>>

-----------------------------------------------------------------------------
(* The server                                                              *)

\* The expected SID has served once a request is answered.
Answer(x, a) == ref' = [ref EXCEPT ![x].st = "resp", ![x].ans = a,
                                         ![x].exp = NoSid, ![x].ver = 0]

\* Mutant: X-Auth-Session is not compared with the cookie.
ExpectAny(e) == TRUE

\* The expected SID, when one was sent, is the cookie's.
ExpectMatches(e) == e.exp \in {NoSid, e.tok.sid}

\* RevokeUserSession.
Revoked(s) == [row EXCEPT ![s].status = "revoked"]

\* RefreshLoginSession: cookie present, expected SID, the session is live.  A
\* session that cannot be read is told 401 as well, and loses its cookie.
CheckRefresh(x) ==
  LET e == ref[x]
      s == e.tok.sid
  IN
  /\ e.st = "req"
  /\ \/ /\ s # NoSid /\ ~ExpectMatches(e)
        /\ Answer(x, "mismatch")
        /\ UNCHANGED faults
     \/ /\ s = NoSid \/ ExpectMatches(e)
        /\ \/ ~Active(s) /\ Answer(x, "unauth") /\ UNCHANGED faults
           \/ /\ Active(s)
              /\ ref' = [ref EXCEPT ![x].st = "read", ![x].exp = NoSid, ![x].ver = row[s].ver]
              /\ UNCHANGED faults
           \/ /\ faults < MaxFaults /\ faults' = faults + 1
              /\ Answer(x, "unauth")
  /\ UNCHANGED <<row, jar, sess, boot, run, op, call, bus, lock, inputs, gone, torn>>

\* Then its user is read: a security version other than the session's, as read
\* before, revokes the session.
CheckUser(x) ==
  LET s == ref[x].tok.sid IN
  /\ ref[x].st = "read"
  /\ IF ref[x].ver = row[s].auth
     THEN /\ ref' = [ref EXCEPT ![x].st = "checked", ![x].ver = 0]
          /\ UNCHANGED row
     ELSE /\ row' = IF Active(s) THEN Revoked(s) ELSE row
          /\ Answer(x, "unauth")
  /\ UNCHANGED <<jar, sess, boot, run, op, call, bus, lock, inputs, faults, gone, torn>>

\* Mutant: the successor is drawn at random.
DerivedIsFresh(tok) == FALSE

\* The successor a presented secret derives to is the current one.
DerivedIsCurrent(tok) == tok.gen + 1 = row[tok.sid].cur

\* RotateUserSessionRefresh: the compare-and-swap on refresh_hash (its retry
\* loop makes it one step), and what a previous or an unknown secret gets.
RotateRefresh(x) ==
  LET e == ref[x]
      s == e.tok.sid
      isPrevious == row[s].cur > 0 /\ e.tok.gen = row[s].cur - 1
  IN
  /\ e.st = "checked"
  /\ \/ /\ \/ ~Active(s)                    \* ErrUserSessionInactive: a 500
           \/ e.tok.gen = MaxGen             \* the bound: answered like a 429
        /\ Answer(x, "error")
        /\ UNCHANGED row
     \/ /\ Active(s) /\ e.tok.gen = row[s].cur /\ e.tok.gen < MaxGen
        /\ row' = [row EXCEPT ![s].cur = @ + 1, ![s].grace = TRUE]
        /\ ref' = [ref EXCEPT ![x].st = "rotated", ![x].ver = row[s].ver]
     \/ /\ Active(s) /\ isPrevious /\ row[s].grace
        /\ Answer(x, IF DerivedIsCurrent(e.tok) THEN "ok" ELSE "race")
        /\ UNCHANGED row
     \/ /\ Active(s) /\ isPrevious /\ ~row[s].grace
        /\ ref' = [ref EXCEPT ![x].st = "reuse"]   \* deny fence published
        /\ UNCHANGED row
     \/ /\ Active(s) /\ e.tok.gen # row[s].cur /\ ~isPrevious
        /\ Answer(x, "unauth")              \* ErrUserSessionRefreshInvalid
        /\ UNCHANGED row
  /\ UNCHANGED <<jar, sess, boot, run, op, call, bus, lock, inputs, faults, gone, torn>>

\* Nothing contradicts the cache entry of the rotated session: no newer version
\* of it and no deny fence.
Publishable(e) ==
  /\ Active(e.tok.sid) /\ row[e.tok.sid].ver = e.ver
  /\ \A y \in Slots : ref[y].st = "reuse" => ref[y].tok.sid # e.tok.sid

\* The rotation is committed; its cache write may be refused by what was
\* published since, and then the answer is a 500 without the new cookie.
PublishRotation(x) ==
  /\ ref[x].st = "rotated"
  /\ \/ Answer(x, "ok") /\ UNCHANGED torn
     \/ ~Publishable(ref[x]) /\ Answer(x, "error") /\ torn' = TRUE
  /\ UNCHANGED <<row, jar, sess, boot, run, op, call, bus, lock, inputs, faults, gone>>

\* The family is revoked whatever was rotated meanwhile; a row that is no
\* longer active is ErrUserSessionInactive, a 500.
RevokeReused(x) ==
  /\ ref[x].st = "reuse"
  /\ IF Active(ref[x].tok.sid)
     THEN /\ row' = Revoked(ref[x].tok.sid)
          /\ Answer(x, "unauth")
     ELSE Answer(x, "error") /\ UNCHANGED row
  /\ UNCHANGED <<jar, sess, boot, run, op, call, bus, lock, inputs, faults, gone, torn>>

\* RefreshReplayWindow has passed since the last rotation.
GraceLapses(s) ==
  /\ row[s].grace
  /\ row' = [row EXCEPT ![s].grace = FALSE]
  /\ UNCHANGED <<jar, sess, boot, run, ref, op, call, bus, lock, inputs, faults, gone, torn>>

\* Revoked from another device or by an administrator, or expired.
RevokeElsewhere(s) ==
  /\ Active(s)
  /\ row' = Revoked(s)
  /\ Input
  /\ UNCHANGED <<jar, sess, boot, run, ref, op, call, bus, lock, faults, gone, torn>>

\* The answer reaches the browser: its Set-Cookie counts at once, whatever the
\* page does with the body.  200 writes the successor, 401 clears.
ArriveRefresh(x) ==
  LET e == ref[x] IN
  /\ e.st = "resp"
  /\ jar' = CASE e.ans = "ok" -> [e.tok EXCEPT !.gen = @ + 1]
              [] e.ans = "unauth" -> NoToken
              [] OTHER -> jar
  /\ ref' = [ref EXCEPT ![x] = IF x = Ghost THEN NoExchange
                               ELSE [e EXCEPT !.st = "back", !.tok.gen = 0]]
  /\ UNCHANGED <<row, sess, boot, run, op, call, bus, lock, inputs, faults, gone, torn>>

\* The request or its answer is lost, or the server fails: status 0, 5xx, 429.
LoseRefresh(x) ==
  /\ ref[x].st \in {"req", "resp"} /\ faults < MaxFaults
  /\ ref' = [ref EXCEPT ![x] = IF x = Ghost THEN NoExchange
                               ELSE [NoExchange EXCEPT !.st = "back", !.ans = "error"]]
  /\ faults' = faults + 1
  /\ UNCHANGED <<row, jar, sess, boot, run, op, call, bus, lock, inputs, gone, torn>>

-----------------------------------------------------------------------------
(* Sign-in and sign-out                                                    *)

\* A sign-in form of a tab with no session, or the code on the page an OAuth
\* provider redirects to, is accepted: a new row.
Login(t) ==
  /\ sess[t] = NoSid /\ op[t].kind = "none" /\ call[t] # "leave"
  /\ \E s \in Sids :
       /\ row[s].status = "none" /\ \A r \in Sids : r < s => row[r].status # "none"
       /\ row' = [row EXCEPT ![s].status = "active"]
       /\ \E k \in {"login", "oauth"} :
            op' = [op EXCEPT ![t] = [NoOp EXCEPT !.kind = k, !.st = "resp",
                                                 !.tok = [sid |-> s, gen |-> 0]]]
  /\ Input
  /\ UNCHANGED <<jar, sess, boot, run, ref, call, bus, lock, faults, gone, torn>>

\* handleLoginSuccess: applied only if the store still has no session;
\* OAuthComponent applies its bundle in any case.
HandleLogin(t) ==
  LET s == op[t].tok.sid IN
  /\ op[t].kind \in {"login", "oauth"} /\ op[t].st = "back"
  /\ op' = [op EXCEPT ![t] = NoOp]
  /\ IF sess[t] = NoSid \/ op[t].kind = "oauth"
     THEN /\ sess' = [sess EXCEPT ![t] = s]
          /\ boot' = [boot EXCEPT ![t] = "complete"]
          /\ run' = BumpEpoch(t)
          /\ bus' = Publish(t, "authenticated", s)
     ELSE UNCHANGED <<sess, boot, run, bus>>
  /\ UNCHANGED <<row, jar, ref, call, lock, inputs, faults, gone, torn>>

\* executeLogout sends the SID in memory, the access token if it has not
\* expired, and the cookie; "again" is the one retry after a mismatch.
SendLogout(t) ==
  /\ \/ op[t].kind = "none" /\ call[t] # "leave"
     \/ op[t].st = "again"
  /\ \E b \in IF sess[t] = NoSid THEN {FALSE} ELSE BOOLEAN :
       op' = [op EXCEPT ![t] = [NoOp EXCEPT !.kind = "logout", !.st = "req",
                !.exp = sess[t], !.bearer = b, !.tok = jar,
                !.first = (op[t].kind = "none")]]
  /\ IF op[t].kind = "none" THEN Input ELSE UNCHANGED inputs
  /\ UNCHANGED <<row, jar, sess, boot, run, ref, call, bus, lock, faults, gone, torn>>

\* RevokeUserSessionByRefreshHash accepts the current secret, or the previous
\* one inside its window.
HoldsSession(tok) ==
  /\ Active(tok.sid)
  /\ \/ tok.gen = row[tok.sid].cur
     \/ row[tok.sid].cur > 0 /\ tok.gen = row[tok.sid].cur - 1 /\ row[tok.sid].grace

\* AuthLogout: a cookie of another session is a mismatch; otherwise the access
\* token, or failing that the cookie, says which session to revoke.
AuthLogout(t) ==
  LET o == op[t]
      revokes == IF o.bearer THEN IF Active(o.exp) THEN {o.exp} ELSE {}
                 ELSE IF HoldsSession(o.tok) THEN {o.tok.sid} ELSE {}
  IN
  /\ o.kind = "logout" /\ o.st = "req"
  /\ IF o.exp # NoSid /\ o.tok.sid \notin {NoSid, o.exp}
     THEN /\ op' = [op EXCEPT ![t] = [NoOp EXCEPT !.kind = "logout", !.st = "resp",
                                      !.ans = "mismatch", !.first = o.first]]
          /\ UNCHANGED row
     ELSE /\ op' = [op EXCEPT ![t] = [NoOp EXCEPT !.kind = "logout", !.st = "resp", !.ans = "done",
                                      !.clear = ~(o.bearer /\ o.tok.sid = NoSid)]]
          /\ row' = [s \in Sids |-> IF s \in revokes
                                    THEN [row[s] EXCEPT !.status = "revoked"] ELSE row[s]]
  /\ UNCHANGED <<jar, sess, boot, run, ref, call, bus, lock, inputs, faults, gone, torn>>

\* The Set-Cookie of a sign-in or sign-out; a security change sends none.
ArriveOp(t) ==
  /\ op[t].st = "resp"
  /\ jar' = IF op[t].kind \in {"login", "oauth"} THEN op[t].tok
            ELSE IF op[t].clear THEN NoToken ELSE jar
  /\ op' = [op EXCEPT ![t].st = "back", ![t].clear = FALSE]
  /\ UNCHANGED <<row, sess, boot, run, ref, call, bus, lock, inputs, faults, gone, torn>>

\* The answer of a sign-out or a security change is lost: the page reports it.
LoseOp(t) ==
  /\ op[t].kind \in {"logout", "rotate"} /\ op[t].st \in {"req", "resp"} /\ faults < MaxFaults
  /\ op' = [op EXCEPT ![t] = NoOp]
  /\ faults' = faults + 1
  /\ UNCHANGED <<row, jar, sess, boot, run, ref, call, bus, lock, inputs, gone, torn>>

\* Success clears this tab and tells the others; a first mismatch asks refresh
\* for the session the cookie belongs to; a second one is an error.
HandleLogout(t) ==
  LET s == sess[t] IN
  /\ op[t].kind = "logout" /\ op[t].st = "back"
  /\ \/ /\ op[t].ans = "done"
        /\ op' = [op EXCEPT ![t] = NoOp]
        /\ sess' = [sess EXCEPT ![t] = NoSid]
        /\ boot' = [boot EXCEPT ![t] = "complete"]
        /\ run' = BumpEpoch(t)
        /\ bus' = Publish(t, "signed_out", s)
        /\ gone' = [gone EXCEPT ![t] = @ \cup (IF s # NoSid /\ ~Active(s)
                                               THEN {s} ELSE {})]
     \/ /\ op[t].ans = "mismatch"
        /\ IF op[t].first
           THEN op' = [op EXCEPT ![t].st = "refresh"] /\ BeginRefresh(t)
           ELSE op' = [op EXCEPT ![t] = NoOp] /\ UNCHANGED run
        /\ UNCHANGED <<sess, boot, bus, gone>>
  /\ UNCHANGED <<row, jar, ref, call, lock, inputs, faults, torn>>

\* A new password or second factor: the user's auth_version moves on, and with
\* it away from every session of the user; which of the profile's sessions are
\* the same user's is open.
ChangeSecurity(t) ==
  /\ Active(sess[t]) /\ ~Outdated(sess[t]) /\ op[t].kind = "none" /\ call[t] # "leave"
  /\ \E same \in SUBSET {s \in Sids \ {sess[t]} : Active(s)} :
       row' = [s \in Sids |-> IF s \in same \cup {sess[t]}
                              THEN [row[s] EXCEPT !.auth = @ + 1] ELSE row[s]]
  /\ op' = [op EXCEPT ![t] = [NoOp EXCEPT !.kind = "rotate", !.st = "bumped", !.exp = sess[t],
                                          !.next = row[sess[t]].auth + 1]]
  /\ Input
  /\ UNCHANGED <<jar, sess, boot, run, ref, call, bus, lock, faults, gone, torn>>

\* AdvanceUserSessionAuthVersion, at the moment the new version is published:
\* to the version of this change, or to the user's latest (password); refused
\* if the session ended or another change has advanced it.
AdvanceSession(t) ==
  LET s == op[t].exp
      fits == Active(s) /\ row[s].ver + 1 = op[t].next
  IN
  /\ op[t].kind = "rotate" /\ op[t].st = "bumped"
  /\ \/ /\ fits
        /\ \E v \in {op[t].next, row[s].auth} : row' = [row EXCEPT ![s].ver = v]
        /\ op' = [op EXCEPT ![t].st = "advanced", ![t].next = 0]
        /\ UNCHANGED faults
     \/ /\ \/ ~fits /\ UNCHANGED faults
           \/ faults < MaxFaults /\ faults' = faults + 1
        /\ op' = [op EXCEPT ![t].st = "resp", ![t].ans = "error", ![t].next = 0]
        /\ UNCHANGED row
  /\ UNCHANGED <<jar, sess, boot, run, ref, call, bus, lock, inputs, gone, torn>>

\* RevokeOtherUserSessions: what the change has left behind, and what the user
\* has opened since.
RevokeOthers(t) ==
  LET others == {s \in Sids \ {op[t].exp} : Active(s)} IN
  /\ op[t].kind = "rotate" /\ op[t].st = "advanced"
  /\ \/ /\ \E since \in SUBSET others :
             row' = [s \in Sids |-> IF s \in since \/ (s \in others /\ Outdated(s))
                                    THEN [row[s] EXCEPT !.status = "revoked"] ELSE row[s]]
        /\ op' = [op EXCEPT ![t].st = "resp", ![t].ans = "done"]
        /\ UNCHANGED faults
     \/ /\ faults < MaxFaults /\ faults' = faults + 1
        /\ op' = [op EXCEPT ![t].st = "resp", ![t].ans = "error"]
        /\ UNCHANGED row
  /\ UNCHANGED <<jar, sess, boot, run, ref, call, bus, lock, inputs, gone, torn>>

\* applyAuthRotation: thrown away unless the tab still shows its session; a
\* refresh under way is superseded.  An error changes nothing in the tab.
HandleRotation(t) ==
  /\ op[t].kind = "rotate" /\ op[t].st = "back"
  /\ op' = [op EXCEPT ![t] = NoOp]
  /\ IF op[t].ans = "done" /\ op[t].exp = sess[t]
     THEN /\ sess' = [sess EXCEPT ![t] = op[t].exp]
          /\ boot' = [boot EXCEPT ![t] = "complete"]
          /\ run' = BumpEpoch(t)
     ELSE UNCHANGED <<sess, boot, run>>
  /\ UNCHANGED <<row, jar, ref, call, bus, lock, inputs, faults, gone, torn>>

-----------------------------------------------------------------------------
(* Page loads and events                                                   *)

InFlight(t) == ref[t].st \notin {"none", "back"}

\* A page load: memory is empty again; a refresh request on the wire goes on
\* without its page.  (A sign-in or sign-out on the wire is lost with it.)
PageLoad(t) ==
  /\ InFlight(t) => faults < MaxFaults /\ ref[Ghost].st = "none"
  /\ sess' = [sess EXCEPT ![t] = NoSid]
  /\ boot' = [boot EXCEPT ![t] = "idle"]
  /\ run' = [run EXCEPT ![t] = NoRun]
  /\ ref' = [ref EXCEPT ![t] = NoExchange,
                        ![Ghost] = IF InFlight(t) THEN ref[t] ELSE @]
  /\ op' = [op EXCEPT ![t] = NoOp]
  /\ call' = [call EXCEPT ![t] = "none"]
  /\ bus' = [bus EXCEPT ![t] = <<>>]
  /\ lock' = ReleaseLock(t)
  /\ faults' = IF InFlight(t) THEN faults + 1 ELSE faults
  /\ UNCHANGED <<row, jar, gone, torn>>

\* The user reloads, or redirectToSignIn replaces the page.
Reload(t) ==
  /\ PageLoad(t)
  /\ IF call[t] = "leave" THEN UNCHANGED inputs ELSE Input

\* The listener of RootComponent: another session was opened elsewhere - drop
\* mine and reload; my session was closed elsewhere - drop it.
DeliverEvent(t) ==
  /\ bus[t] # <<>>
  /\ LET e == Head(bus[t]) IN
     \/ /\ e.kind = "authenticated" /\ e.sid # sess[t]
        /\ PageLoad(t)
        /\ UNCHANGED inputs
     \/ /\ e.kind = "signed_out" /\ e.sid = sess[t]
        /\ sess' = [sess EXCEPT ![t] = NoSid]
        /\ boot' = [boot EXCEPT ![t] = "complete"]
        /\ run' = BumpEpoch(t)
        /\ bus' = [bus EXCEPT ![t] = Tail(@)]
        /\ UNCHANGED <<row, jar, ref, op, call, lock, inputs, faults, gone, torn>>
     \/ /\ (e.kind = "authenticated") = (e.sid = sess[t])
        /\ bus' = [bus EXCEPT ![t] = Tail(@)]
        /\ UNCHANGED <<row, jar, sess, boot, run, ref, op, call, lock, inputs, faults, gone, torn>>

\* An event older than a minute is ignored (a frozen tab).
DropEvent(t) ==
  /\ bus[t] # <<>> /\ faults < MaxFaults
  /\ bus' = [bus EXCEPT ![t] = Tail(@)]
  /\ faults' = faults + 1
  /\ UNCHANGED <<row, jar, sess, boot, run, ref, op, call, lock, inputs, gone, torn>>

-----------------------------------------------------------------------------
TabStep(t) ==
  \/ Resolve(t) \/ CallUnauthorized(t) \/ AcquireLock(t) \/ SendRefresh(t)
  \/ HandleRefresh(t) \/ ReplayCall(t)
  \/ Login(t) \/ HandleLogin(t) \/ SendLogout(t) \/ HandleLogout(t)
  \/ ChangeSecurity(t) \/ AdvanceSession(t) \/ RevokeOthers(t) \/ HandleRotation(t)
  \/ Reload(t) \/ DeliverEvent(t) \/ DropEvent(t)

ServerStep ==
  \/ \E x \in Slots : CheckRefresh(x) \/ CheckUser(x) \/ RotateRefresh(x)
                      \/ PublishRotation(x) \/ RevokeReused(x) \/ ArriveRefresh(x) \/ LoseRefresh(x)
  \/ \E t \in Tabs : AuthLogout(t) \/ ArriveOp(t) \/ LoseOp(t)
  \/ \E s \in Sids : GraceLapses(s) \/ RevokeElsewhere(s)

Next == ServerStep \/ \E t \in Tabs : TabStep(t)

Spec == Init /\ [][Next]_vars

-----------------------------------------------------------------------------
(* Properties                                                              *)

\* Refreshes are serialised by the Web Lock, no request, answer or read was
\* lost, and no rotation was committed and then answered 500
\* (model/user_session.go:505, an advance or a revocation in between).
Orderly == WebLocks /\ faults = 0 /\ ~torn

\* In order, the secret a browser presents for a live session is the current
\* one: RotateUserSessionRefresh never takes it for reused or unknown.  The one
\* way an honest refresh loses its session is that the user's security version
\* is no longer the one it read with the session (auth_session.go:301): it came
\* between the halves of a security change, or was overtaken by one.
HonestStep ==
  Orderly' =>
    \A x \in Slots :
      /\ ref[x].st \in {"req", "read", "checked"} /\ Active(ref[x].tok.sid)
      /\ ref'[x].ans = "unauth" \/ ref'[x].st = "reuse"
      => ref[x].st = "read" /\ ref[x].ver # row[ref[x].tok.sid].auth

HonestRefresh == [][HonestStep]_vars

\* Against this server createRefreshRunner never runs out of its retries: no
\* 409 RACE, and no second AUTH_SESSION_MISMATCH.
NeverOutOfSync ==
  \A t \in Tabs : run[t].pc = "sent" /\ ref[t].st = "back" /\ run[t].current =>
    (RetriesRace(t) \/ RetriesMismatch(t) \/ OutcomeKind(t) # "out_of_sync")

\* A tab that signed out of a session the server revoked never shows it again,
\* whatever refresh was under way ("a refresh response cannot restore
\* credentials after a newer auth operation", lib/auth-session.test.ts).
SignedOutStays ==
  [][\A t \in Tabs : sess'[t] # sess[t] => sess'[t] \notin gone[t]]_vars

\* A tab never goes from one session straight to another: a refreshed bundle is
\* of the session the tab showed when it asked, and adopting the cookie's
\* session passes through the reset that drops the old one's data.  The page
\* of an OAuth redirect is the exception: it applies its bundle without asking
\* whether the bootstrap has restored a session (routes/(auth)/oauth.tsx:45).
NoSessionSwap ==
  [][\A t \in Tabs : sess[t] # NoSid /\ sess'[t] # NoSid =>
       sess'[t] = sess[t] \/ (op[t].kind = "oauth" /\ op[t].st = "back")]_vars

\* The Web Lock is held only by a tab whose refresh will still take a step: no
\* outcome, page load or superseding sign-in leaves the other tabs waiting.
LockHolderRuns ==
  lock # NoTab => run[lock].pc \in {"ready", "sent"}
=============================================================================

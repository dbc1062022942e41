------------------------ MODULE LoginSessionsProofs ------------------------
(***************************************************************************)
(* Proofs about LoginSessions for any number of tabs, sessions, rotations, *)
(* inputs and faults, with and without Web Locks.  IInv is the inductive   *)
(* invariant; one lemma per action shows that it is kept.                  *)
(***************************************************************************)
EXTENDS LoginSessions, SequenceTheorems, TLAPS

-----------------------------------------------------------------------------
(* The inductive invariant                                                 *)

\* The request was found to present a live session.
Accepted == {"read", "checked", "rotated", "reuse"}

\* The successor of the secret presented is committed and on its way.
Granted(e) == e.st = "rotated" \/ (e.st = "resp" /\ e.ans = "ok")

\* The answers that open a session.
Opens == {"login", "oauth"}

\* A session a secret or a tab names has been opened.
Known(s) == s \in Sids => row[s].status # "none"

\* An exchange has an answer once the server has spoken, never a race; a
\* session is named as long as it matters, and a successor fits its bound.
ExchangeShape ==
  \A x \in Slots :
    /\ ref[x].ans # "none" <=> ref[x].st \in {"resp", "back"}
    /\ ref[x].ans # "race"
    /\ ref[x].st \in Accepted \/ ref[x].ans = "ok" => ref[x].tok.sid \in Sids
    /\ Granted(ref[x]) => ref[x].tok.gen < MaxGen

\* Only a refresh that has sent has an exchange; the lock and the refresh that
\* holds it name each other.
LockShape ==
  \A t \in Tabs :
    /\ run[t].pc # "sent" => ref[t] = NoExchange
    /\ lock = t => run[t].pc \in {"ready", "sent"}
    /\ WebLocks /\ run[t].pc \in {"ready", "sent"} => lock = t

\* What a refresh that is still current knows of its tab: the tab shows what it
\* showed when the request was made, so the answer is of that session, or the
\* tab shows nothing; after a mismatch it shows nothing.
CurrentShape ==
  \A t \in Tabs : run[t].current =>
    /\ ~run[t].retry => /\ sess[t] = NoSid /\ ref[t].exp = NoSid
                        /\ ref[t].ans # "mismatch"
    /\ ref[t].st = "req" => ref[t].exp = sess[t]
    /\ ref[t].st \in Accepted \/ ref[t].ans = "ok" =>
         sess[t] \in {NoSid, ref[t].tok.sid}
    /\ ref[t].st = "rotated" \/ ref[t].ans = "ok" => ref[t].tok.sid \notin gone[t]

\* Sessions are opened before anything names them, and are not reopened.
RowShape ==
  /\ \A s \in Sids : row[s].status = "none" => row[s].cur = 0
  /\ Known(jar.sid)
  /\ \A t \in Tabs : Known(sess[t]) /\ Known(op[t].tok.sid)
  /\ \A x \in Slots : Known(ref[x].tok.sid)
  /\ \A t \in Tabs : \A s \in gone[t] : row[s].status = "revoked"

\* The first secret of a session is nowhere else until its answer arrives.
LoginShape ==
  \A t \in Tabs : op[t].kind \in Opens =>
    /\ op[t].tok.sid \in Sids \ gone[t]
    /\ op[t].st = "resp" =>
         /\ op[t].tok.gen = 0 /\ row[op[t].tok.sid].cur = 0
         /\ jar.sid # op[t].tok.sid
         /\ \A x \in Slots : ref[x].tok.sid # op[t].tok.sid
         /\ \A u \in Tabs \ {t} : op[u].kind \in Opens => op[u].tok.sid # op[t].tok.sid

\* Serialised, with nothing lost and no committed secret withheld: a request
\* presents the current secret of its session, and the cookie is the current
\* one unless its successor is on the way.
SecretShape ==
  Orderly =>
    /\ ref[Ghost] = NoExchange
    /\ \A x \in Slots : LET e == ref[x] IN
         /\ e.st # "reuse"
         /\ e.ans = "unauth" => ~Active(e.tok.sid)
         /\ e.st \in {"req", "read", "checked"} /\ Active(e.tok.sid) =>
              e.tok.gen = row[e.tok.sid].cur
         /\ Granted(e) /\ Active(e.tok.sid) =>
              e.tok.gen + 1 = row[e.tok.sid].cur
    /\ \/ ~Active(jar.sid) \/ jar.gen = row[jar.sid].cur
       \/ \E x \in Slots : Granted(ref[x]) /\ ref[x].tok.sid = jar.sid

IInv == /\ TypeOK
        /\ ExchangeShape /\ LockShape /\ CurrentShape
        /\ RowShape /\ LoginShape /\ SecretShape

-----------------------------------------------------------------------------
USE SlotAssumption DEF SlotAssumption
USE BoundAssumption DEF BoundAssumption
USE DEF Accepted, Granted, Opens, Orderly

RowType == [status : {"none", "active", "revoked"}, cur : 0..MaxGen, grace : BOOLEAN,
            ver : Nat, auth : Nat]

(* The empty values have their types, and name no session.                 *)
LEMMA EmptyForm ==
  /\ NoToken \in Token /\ NoToken.sid = NoSid /\ NoToken.gen = 0
  /\ NoExchange \in Exchange /\ NoExchange.st = "none" /\ NoExchange.ans = "none"
  /\ NoExchange.exp = NoSid /\ NoExchange.tok = NoToken
  /\ NoRun \in Runner /\ NoRun.pc = "none" /\ NoRun.current = FALSE
  /\ NoOp \in Operation /\ NoOp.kind = "none" /\ NoOp.st = "none" /\ NoOp.tok = NoToken
  /\ NoSid = 0 /\ NoSid \in 0..MaxSid /\ NoSid \notin Sids /\ Sids \subseteq 0..MaxSid
  BY DEF NoToken, Token, NoSid, NoExchange, Exchange, NoRun, Runner, RaceRetries,
         NoOp, Operation, Sids

LEMMA TypeForm ==
  ASSUME TypeOK
  PROVE  /\ row \in [Sids -> RowType] /\ jar \in Token
         /\ sess \in [Tabs -> 0..MaxSid] /\ run \in [Tabs -> Runner]
         /\ ref \in [Slots -> Exchange] /\ op \in [Tabs -> Operation]
         /\ Tabs \subseteq Slots /\ Ghost \in Slots
  BY DEF TypeOK, RowType, Slots

(* A session that is shown or presented and is not "no session" has a row. *)
LEMMA SidForm == \A s \in 0..MaxSid : s = NoSid \/ s \in Sids
  BY DEF NoSid, Sids

LEMMA InitIInv == Init => IInv
<1> SUFFICES ASSUME Init PROVE IInv
  OBVIOUS
<1> PICK shows \in SUBSET Tabs, signedIn \in BOOLEAN :
       /\ shows # {} => signedIn
       /\ row = [s \in Sids |-> [status |-> IF signedIn /\ s = 1 THEN "active" ELSE "none",
                                 cur |-> 0, grace |-> FALSE, ver |-> 0, auth |-> 0]]
       /\ jar = IF signedIn THEN [sid |-> 1, gen |-> 0] ELSE NoToken
       /\ sess = [t \in Tabs |-> IF t \in shows THEN 1 ELSE NoSid]
       /\ boot = [t \in Tabs |-> IF t \in shows THEN "complete" ELSE "idle"]
  BY DEF Init
<1>1. jar \in Token /\ ((jar.sid = 1 /\ jar.gen = 0 /\ signedIn) \/ jar.sid = NoSid)
  BY EmptyForm DEF Token
<1>2. TypeOK
  <2>1. row \in [Sids -> RowType]
    BY DEF RowType
  <2>2. /\ sess \in [Tabs -> 0..MaxSid] /\ boot \in [Tabs -> {"idle", "checking", "complete"}]
    BY EmptyForm
  <2>3. /\ run \in [Tabs -> Runner] /\ ref \in [Slots -> Exchange] /\ op \in [Tabs -> Operation]
        /\ call \in [Tabs -> {"none", "wait", "replay", "leave"}]
        /\ lock \in Tabs \cup {NoTab} /\ torn \in BOOLEAN
    BY EmptyForm DEF Init
  <2>4. inputs \in 0..MaxInputs /\ faults \in 0..MaxFaults
    BY DEF Init
  <2>5. bus \in [Tabs -> Seq(Event)] /\ gone \in [Tabs -> SUBSET Sids]
    BY DEF Init
  <2> QED
    BY <1>1, <2>1, <2>2, <2>3, <2>4, <2>5 DEF TypeOK, RowType
<1>3. \A t \in Tabs : run[t] = NoRun /\ op[t] = NoOp /\ ref[t] = NoExchange /\ gone[t] = {} /\ lock # t
  BY DEF Init, Slots
<1>4. \A x \in Slots : ref[x] = NoExchange
  BY DEF Init
<1>5. ExchangeShape /\ LockShape /\ CurrentShape /\ LoginShape
  BY <1>3, <1>4, EmptyForm DEF ExchangeShape, LockShape, CurrentShape, LoginShape
<1>6. RowShape
  BY <1>1, <1>3, <1>4, EmptyForm DEF RowShape, Known, Sids
<1>7. SecretShape
  BY <1>1, <1>4, EmptyForm DEF SecretShape, Active, Slots, Sids
<1> QED
  BY <1>2, <1>5, <1>6, <1>7 DEF IInv

-----------------------------------------------------------------------------
(* What the helpers of the actions do to one tab                           *)

LEMMA BeginForm ==
  ASSUME TypeOK, NEW t \in Tabs, BeginRefresh(t)
  PROVE  /\ run' \in [Tabs -> Runner]
         /\ \A u \in Tabs : u # t => run'[u] = run[u]
         /\ \/ run'[t] = run[t]
            \/ /\ run[t].pc = "none" /\ run'[t].pc = IF WebLocks THEN "lock" ELSE "ready"
               /\ run'[t].retry = TRUE
<1> DEFINE r == [pc |-> IF WebLocks THEN "lock" ELSE "ready",
                 current |-> TRUE, race |-> 0, retry |-> TRUE]
<1>1. r \in Runner /\ r.pc = (IF WebLocks THEN "lock" ELSE "ready") /\ r.retry = TRUE
  BY DEF Runner, RaceRetries
<1>2. run' = IF run[t].pc # "none" THEN run ELSE [run EXCEPT ![t] = r]
  BY DEF BeginRefresh
<1> HIDE DEF r
<1> QED
  BY <1>1, <1>2, TypeForm

LEMMA BumpForm ==
  ASSUME TypeOK, NEW t \in Tabs
  PROVE  /\ BumpEpoch(t) \in [Tabs -> Runner]
         /\ BumpEpoch(t)[t].current = FALSE
         /\ \A u \in Tabs : BumpEpoch(t)[u].pc = run[u].pc
         /\ \A u \in Tabs : u # t => BumpEpoch(t)[u] = run[u]
<1> DEFINE r == [run[t] EXCEPT !.current = FALSE]
<1>1. r \in Runner /\ r.pc = run[t].pc /\ r.current = FALSE
  BY TypeForm DEF Runner
<1>2. BumpEpoch(t) = [run EXCEPT ![t] = r]
  BY DEF BumpEpoch
<1> HIDE DEF r
<1> QED
  BY <1>1, <1>2, TypeForm

LEMMA PublishForm ==
  ASSUME TypeOK, NEW t \in Tabs, NEW s \in 0..MaxSid, NEW k \in {"authenticated", "signed_out"}
  PROVE  Publish(t, k, s) \in [Tabs -> Seq(Event)]
<1>1. s # NoSid => [kind |-> k, sid |-> s] \in Event
  BY SidForm DEF Event
<1>2. \A u \in Tabs : bus[u] \in Seq(Event)
  BY DEF TypeOK
<1> QED
  BY <1>1, <1>2, AppendProperties DEF Publish

LEMMA AnswerForm ==
  ASSUME TypeOK, NEW x \in Slots,
         NEW a \in {"ok", "mismatch", "race", "unauth", "error"}, Answer(x, a)
  PROVE  /\ ref' \in [Slots -> Exchange]
         /\ ref'[x].st = "resp" /\ ref'[x].ans = a /\ ref'[x].exp = NoSid
         /\ ref'[x].tok = ref[x].tok
         /\ \A y \in Slots : y # x => ref'[y] = ref[y]
<1> DEFINE e == [ref[x] EXCEPT !.st = "resp", !.ans = a, !.exp = NoSid, !.ver = 0]
<1>1. /\ e \in Exchange /\ e.st = "resp" /\ e.ans = a /\ e.exp = NoSid
      /\ e.tok = ref[x].tok
  BY TypeForm, EmptyForm DEF Exchange
<1>2. ref' = [ref EXCEPT ![x] = e]
  BY DEF Answer
<1> HIDE DEF e
<1> QED
  BY <1>1, <1>2, TypeForm

LEMMA InputForm == ASSUME TypeOK, Input PROVE inputs' \in 0..MaxInputs
  BY DEF Input, TypeOK

-----------------------------------------------------------------------------
(* When the parts of the invariant are kept                                *)

LEMMA LockKept ==
  ASSUME LockShape, UNCHANGED lock,
         \A u \in Tabs : ref'[u] = ref[u] /\ run'[u].pc = run[u].pc
  PROVE  LockShape'
  BY DEF LockShape

LEMMA CurrentKept ==
  ASSUME CurrentShape,
         \A u \in Tabs : run'[u].current =>
           \/ /\ run'[u] = run[u] /\ sess'[u] = sess[u]
              /\ ref'[u] = ref[u] /\ gone'[u] = gone[u]
           \/ ref'[u] = NoExchange /\ (run'[u].retry \/ sess'[u] = NoSid)
  PROVE  CurrentShape'
  BY EmptyForm DEF CurrentShape

(* Rows only go from "none" to "active" to "revoked".                      *)
LEMMA RowKept ==
  ASSUME RowShape,
         \A s \in Sids : /\ row'[s].status = "none" => row[s].status = "none" /\ row'[s].cur = row[s].cur
                         /\ row[s].status = "revoked" => row'[s].status = "revoked",
         jar'.sid = jar.sid \/ Known(jar'.sid),
         \A t \in Tabs : sess'[t] = sess[t] \/ Known(sess'[t]),
         \A t \in Tabs : op'[t].tok.sid = op[t].tok.sid \/ Known(op'[t].tok.sid),
         \A x \in Slots : ref'[x].tok.sid = ref[x].tok.sid \/ Known(ref'[x].tok.sid),
         UNCHANGED gone, \A t \in Tabs : gone[t] \subseteq Sids
  PROVE  RowShape'
  BY DEF RowShape, Known

(* A first secret stays unseen while secrets only travel.                  *)
LEMMA LoginKept ==
  ASSUME LoginShape, UNCHANGED gone,
         \A u \in Tabs : op'[u].kind \in Opens =>
           op[u].kind \in Opens /\ op'[u].tok = op[u].tok /\ (op'[u].st = "resp" => op[u].st = "resp"),
         \A s \in Sids : row'[s].cur = row[s].cur \/ \E x \in Slots : ref[x].tok.sid = s,
         jar'.sid \in {NoSid, jar.sid} \/ \E x \in Slots : jar'.sid = ref[x].tok.sid,
         \A x \in Slots : \/ ref'[x].tok.sid \in {NoSid, jar.sid}
                          \/ \E y \in Slots : ref'[x].tok.sid = ref[y].tok.sid
  PROVE  LoginShape'
<1> SUFFICES ASSUME NEW t \in Tabs, op'[t].kind \in Opens
             PROVE  /\ op'[t].tok.sid \in Sids \ gone'[t]
                    /\ op'[t].st = "resp" =>
                       /\ op'[t].tok.gen = 0 /\ row'[op'[t].tok.sid].cur = 0
                       /\ jar'.sid # op'[t].tok.sid
                       /\ \A x \in Slots : ref'[x].tok.sid # op'[t].tok.sid
                       /\ \A u \in Tabs \ {t} : op'[u].kind \in Opens => op'[u].tok.sid # op'[t].tok.sid
  BY DEF LoginShape
<1>1. op[t].kind \in Opens /\ op'[t].tok = op[t].tok /\ op[t].tok.sid \in Sids \ gone[t]
  BY DEF LoginShape
<1>2. SUFFICES ASSUME op'[t].st = "resp"
               PROVE  /\ op'[t].tok.gen = 0 /\ row'[op'[t].tok.sid].cur = 0
                      /\ jar'.sid # op'[t].tok.sid
                      /\ \A x \in Slots : ref'[x].tok.sid # op'[t].tok.sid
                      /\ \A u \in Tabs \ {t} : op'[u].kind \in Opens => op'[u].tok.sid # op'[t].tok.sid
  BY <1>1
<1>3. /\ op[t].st = "resp" /\ op[t].tok.gen = 0 /\ row[op[t].tok.sid].cur = 0
      /\ jar.sid # op[t].tok.sid
      /\ \A x \in Slots : ref[x].tok.sid # op[t].tok.sid
      /\ \A u \in Tabs \ {t} : op[u].kind \in Opens => op[u].tok.sid # op[t].tok.sid
  BY <1>1, <1>2 DEF LoginShape
<1> HIDE DEF Opens
<1>4. op'[t].tok.gen = 0 /\ row'[op'[t].tok.sid].cur = 0
  BY <1>1, <1>3, ZenonT(60)
<1>5. jar'.sid # op'[t].tok.sid
  BY <1>1, <1>3, EmptyForm
<1>6. \A x \in Slots : ref'[x].tok.sid # op'[t].tok.sid
  BY <1>1, <1>3, EmptyForm
<1>7. \A u \in Tabs \ {t} : op'[u].kind \in Opens => op'[u].tok.sid # op'[t].tok.sid
  BY <1>1, <1>3
<1> QED
  BY <1>4, <1>5, <1>6, <1>7

(* The two sides of a step: what SecretShape says of the next state.       *)
Lives(s) == s \in Sids /\ row'[s].status = "active"
HonestNext(x) ==
  /\ ref'[x].st # "reuse"
  /\ ref'[x].ans = "unauth" => ~Lives(ref'[x].tok.sid)
  /\ ref'[x].st \in {"req", "read", "checked"} /\ Lives(ref'[x].tok.sid) =>
       ref'[x].tok.gen = row'[ref'[x].tok.sid].cur
  /\ Granted(ref'[x]) /\ Lives(ref'[x].tok.sid) =>
       ref'[x].tok.gen + 1 = row'[ref'[x].tok.sid].cur

LEMMA SecretForm ==
  ASSUME ref'[Ghost] = NoExchange, \A x \in Slots : HonestNext(x),
         \/ ~Lives(jar'.sid) \/ jar'.gen = row'[jar'.sid].cur
         \/ \E x \in Slots : Granted(ref'[x]) /\ ref'[x].tok.sid = jar'.sid
  PROVE  SecretShape'
  BY DEF SecretShape, HonestNext, Lives, Active

LEMMA SecretKept ==
  ASSUME TypeOK, RowShape, SecretShape, UNCHANGED jar, Orderly' => Orderly,
         \A x \in Slots : ref'[x] = ref[x] \/ (ref'[x] = NoExchange /\ ~Granted(ref[x])),
         \A s \in Sids : row'[s].status = "active" =>
           row[s].status = "none" \/ (row[s].status = "active" /\ row'[s].cur = row[s].cur)
  PROVE  SecretShape'
<1> SUFFICES ASSUME Orderly
             PROVE  SecretShape'
  BY DEF SecretShape
<1>1. \A s \in 0..MaxSid : Known(s) /\ Lives(s) => Active(s) /\ row'[s].cur = row[s].cur
  BY DEF Known, Active, Lives
<1>2. \A x \in Slots : Lives(ref[x].tok.sid) =>
         Active(ref[x].tok.sid) /\ row'[ref[x].tok.sid].cur = row[ref[x].tok.sid].cur
  BY <1>1, TypeForm DEF RowShape, Exchange, Token
<1>3. Lives(jar.sid) => Active(jar.sid) /\ row'[jar.sid].cur = row[jar.sid].cur
  BY <1>1, TypeForm DEF RowShape, Token
<1>4. ~Lives(NoExchange.tok.sid)
  BY EmptyForm DEF Lives
<1>5. ref'[Ghost] = NoExchange
  BY TypeForm DEF SecretShape
<1>6. \A x \in Slots : HonestNext(x)
  BY <1>2, <1>4, EmptyForm DEF SecretShape, HonestNext
<1>7. \/ ~Lives(jar'.sid) \/ jar'.gen = row'[jar'.sid].cur
      \/ \E x \in Slots : Granted(ref'[x]) /\ ref'[x].tok.sid = jar'.sid
  BY <1>3 DEF SecretShape
<1> QED
  BY <1>5, <1>6, <1>7, SecretForm

(* A step of a page that leaves the exchanges and the rows alone.          *)
LEMMA QuietKept ==
  ASSUME IInv, UNCHANGED <<row, jar, ref, gone, faults, torn>>,
         \A u \in Tabs : sess'[u] = sess[u] \/ Known(sess'[u]),
         \A u \in Tabs : op'[u] = op[u] \/ (op'[u].kind \notin Opens /\ Known(op'[u].tok.sid))
  PROVE  ExchangeShape' /\ RowShape' /\ LoginShape' /\ SecretShape'
<1>0. /\ TypeOK /\ ExchangeShape /\ RowShape /\ LoginShape /\ SecretShape
      /\ \A u \in Tabs : gone[u] \subseteq Sids
  BY DEF IInv, TypeOK
<1>1. ExchangeShape'
  BY <1>0 DEF ExchangeShape
<1>2. RowShape'
  BY <1>0, RowKept
<1>3. LoginShape'
  BY <1>0, LoginKept
<1>4. SecretShape'
  BY <1>0, SecretKept
<1> QED
  BY <1>1, <1>2, <1>3, <1>4

LEMMA BeginKept ==
  ASSUME TypeOK, LockShape, CurrentShape, NEW t \in Tabs, BeginRefresh(t),
         UNCHANGED <<sess, ref, lock, gone>>
  PROVE  LockShape' /\ CurrentShape'
<1>1. LockShape'
  BY BeginForm DEF LockShape
<1>2. CurrentShape'
  BY BeginForm, CurrentKept DEF LockShape
<1> QED
  BY <1>1, <1>2

(* A superseded refresh no longer has to know what its tab shows.          *)
LEMMA BumpKept ==
  ASSUME TypeOK, LockShape, CurrentShape, NEW t \in Tabs, run' = BumpEpoch(t),
         UNCHANGED <<ref, lock>>, \A u \in Tabs : u # t => sess'[u] = sess[u] /\ gone'[u] = gone[u]
  PROVE  LockShape' /\ CurrentShape'
<1>1. LockShape'
  BY BumpForm, LockKept
<1>2. CurrentShape'
  BY BumpForm, CurrentKept
<1> QED
  BY <1>1, <1>2

-----------------------------------------------------------------------------
(* The actions of a page                                                   *)

LEMMA AskStep == ASSUME IInv, NEW t \in Tabs, Resolve(t) \/ CallUnauthorized(t) PROVE IInv'
<1>1. /\ BeginRefresh(t) /\ UNCHANGED <<row, jar, sess, ref, op, bus, lock, faults, gone, torn>>
      /\ inputs' = inputs \/ Input
      /\ boot' \in {boot, [boot EXCEPT ![t] = "checking"]}
      /\ call' \in {call, [call EXCEPT ![t] = "wait"]}
  BY DEF Resolve, CallUnauthorized
<1>2. TypeOK'
  BY <1>1, BeginForm, InputForm DEF IInv, TypeOK
<1> QED
  BY <1>1, <1>2, BeginKept, QuietKept DEF IInv

LEMMA AcquireStep == ASSUME IInv, NEW t \in Tabs, AcquireLock(t) PROVE IInv'
<1> DEFINE r == [run[t] EXCEPT !.pc = "ready"]
<1>0. TypeOK /\ LockShape /\ CurrentShape
  BY DEF IInv
<1>1. r \in Runner /\ r.pc = "ready" /\ r.current = run[t].current /\ r.retry = run[t].retry
  BY <1>0, TypeForm DEF Runner
<1>2. /\ run' = [run EXCEPT ![t] = r] /\ run[t].pc = "lock" /\ lock = NoTab /\ lock' = t
      /\ UNCHANGED <<row, jar, sess, boot, ref, op, call, bus, inputs, faults, gone, torn>>
  BY DEF AcquireLock, LockFree
<1> HIDE DEF r
<1>3. TypeOK'
  BY <1>0, <1>1, <1>2 DEF TypeOK
<1>4. run'[t] = r /\ \A u \in Tabs : u # t => run'[u] = run[u]
  BY <1>0, <1>2, TypeForm
<1>5. LockShape'
  BY <1>0, <1>1, <1>2, <1>4 DEF LockShape
<1>6. CurrentShape'
  BY <1>0, <1>1, <1>2, <1>4 DEF CurrentShape
<1> QED
  BY <1>2, <1>3, <1>5, <1>6, QuietKept DEF IInv

LEMMA ReplayStep == ASSUME IInv, NEW t \in Tabs, ReplayCall(t) PROVE IInv'
<1>0. TypeOK /\ LockShape /\ CurrentShape
  BY DEF IInv
<1>1. UNCHANGED <<row, jar, ref, op, bus, lock, inputs, faults, gone, torn>>
  BY DEF ReplayCall
<1>a. CASE UNCHANGED <<sess, boot, run>> /\ call' = [call EXCEPT ![t] = "none"]
  <2>1. TypeOK'
    BY <1>0, <1>1, <1>a DEF TypeOK
  <2> QED
    BY <1>0, <1>1, <1>a, <2>1, LockKept, CurrentKept, QuietKept DEF IInv
<1>b. CASE /\ call' = [call EXCEPT ![t] = "leave"] /\ sess' = [sess EXCEPT ![t] = NoSid]
           /\ boot' = [boot EXCEPT ![t] = "complete"] /\ run' = BumpEpoch(t)
  <2>1. TypeOK'
    BY <1>0, <1>1, <1>b, BumpForm, EmptyForm DEF TypeOK
  <2>2. \A u \in Tabs : sess'[u] \in {NoSid, sess[u]} /\ (u # t => sess'[u] = sess[u])
    BY <1>0, <1>b, TypeForm
  <2>3. LockShape' /\ CurrentShape'
    BY <1>0, <1>1, <1>b, <2>2, BumpKept
  <2>4. \A u \in Tabs : sess'[u] = sess[u] \/ Known(sess'[u])
    BY <2>2, EmptyForm DEF Known
  <2> QED
    BY <1>1, <2>1, <2>3, <2>4, QuietKept DEF IInv
<1> QED
  BY <1>a, <1>b DEF ReplayCall

-----------------------------------------------------------------------------
(* A refresh ends                                                          *)

Kinds == {"authenticated", "anonymous", "out_of_sync", "transient_error"}

LEMMA AfterOpForm ==
  ASSUME TypeOK, NEW t \in Tabs, NEW k \in Kinds
  PROVE  /\ AfterOp(t, k) \in [Tabs -> Operation]
         /\ \A u \in Tabs : \/ AfterOp(t, k)[u] \in {op[u], NoOp}
                            \/ /\ AfterOp(t, k)[u].tok = op[u].tok
                               /\ AfterOp(t, k)[u].kind = op[u].kind
                               /\ AfterOp(t, k)[u].st # "resp"
<1> DEFINE a == [op[t] EXCEPT !.st = "again"]
           b == [op[t] EXCEPT !.st = "back", !.ans = "done"]
           o == CASE k = "authenticated" -> a [] k = "anonymous" -> b [] OTHER -> NoOp
<1>1. /\ a \in Operation /\ a.tok = op[t].tok /\ a.kind = op[t].kind /\ a.st = "again"
      /\ b \in Operation /\ b.tok = op[t].tok /\ b.kind = op[t].kind /\ b.st = "back"
  BY TypeForm, ZenonT(60) DEF Operation
<1>2. AfterOp(t, k) = IF op[t].st # "refresh" THEN op ELSE [op EXCEPT ![t] = o]
  BY DEF AfterOp
<1> HIDE DEF a, b
<1>3. o \in {a, b, NoOp}
  OBVIOUS
<1> HIDE DEF o
<1>4. o \in Operation
  BY <1>1, <1>3, EmptyForm
<1>5. AfterOp(t, k) \in [Tabs -> Operation] /\ AfterOp(t, k)[t] \in {op[t], o}
  BY <1>2, <1>4, TypeForm
<1>6. \A u \in Tabs : u # t => AfterOp(t, k)[u] = op[u]
  BY <1>2, TypeForm
<1> HIDE DEF Operation, Token
<1> QED
  BY <1>1, <1>3, <1>5, <1>6

LEMMA FinishForm ==
  ASSUME TypeOK, NEW t \in Tabs, NEW k \in Kinds, Finish(t, k)
  PROVE  /\ run' \in [Tabs -> Runner] /\ run'[t] = NoRun
         /\ ref' \in [Slots -> Exchange] /\ ref'[t] = NoExchange
         /\ \A u \in Tabs : u # t => run'[u] = run[u] /\ ref'[u] = ref[u]
         /\ \A x \in Slots : x # t => ref'[x] = ref[x]
         /\ lock' = IF lock = t THEN NoTab ELSE lock
         /\ call' \in [Tabs -> {"none", "wait", "replay", "leave"}]
         /\ op' = AfterOp(t, k)
<1>1. /\ run' = [run EXCEPT ![t] = NoRun] /\ ref' = [ref EXCEPT ![t] = NoExchange]
      /\ lock' = (IF lock = t THEN NoTab ELSE lock) /\ op' = AfterOp(t, k)
      /\ call' = AfterCall(t, k)
  BY DEF Finish, ReleaseLock
<1>2. call' \in [Tabs -> {"none", "wait", "replay", "leave"}]
  BY <1>1 DEF AfterCall, TypeOK
<1> QED
  BY <1>1, <1>2, TypeForm, EmptyForm

LEMMA FinishKept ==
  ASSUME IInv, NEW t \in Tabs, NEW k \in Kinds, Finish(t, k), ~Granted(ref[t]),
         UNCHANGED <<row, jar, gone, faults, torn>>,
         \A u \in Tabs : u # t => sess'[u] = sess[u], sess'[t] = sess[t] \/ Known(sess'[t])
  PROVE  ExchangeShape' /\ LockShape' /\ CurrentShape' /\ RowShape' /\ LoginShape' /\ SecretShape'
<1>0. /\ TypeOK /\ ExchangeShape /\ LockShape /\ CurrentShape
      /\ RowShape /\ LoginShape /\ SecretShape
      /\ \A u \in Tabs : gone[u] \subseteq Sids
  BY DEF IInv, TypeOK
<1>1. ExchangeShape'
  BY <1>0, FinishForm, EmptyForm DEF ExchangeShape
<1>2. LockShape'
  BY <1>0, FinishForm, EmptyForm DEF LockShape
<1>3. CurrentShape'
  BY <1>0, FinishForm, EmptyForm, CurrentKept
<1>4. \A u \in Tabs : op'[u] = op[u] \/ op'[u] = NoOp
                      \/ (op'[u].tok = op[u].tok /\ op'[u].kind = op[u].kind /\ op'[u].st # "resp")
  BY <1>0, FinishForm, AfterOpForm
<1>5. RowShape'
  <2>1. \A u \in Tabs : op'[u].tok.sid = op[u].tok.sid \/ Known(op'[u].tok.sid)
    BY <1>4, EmptyForm DEF Known
  <2>2. \A x \in Slots : ref'[x].tok.sid = ref[x].tok.sid \/ Known(ref'[x].tok.sid)
    BY <1>0, FinishForm, EmptyForm DEF Known
  <2> QED
    BY <1>0, <2>1, <2>2, RowKept
<1>6. LoginShape'
  <2>1. \A u \in Tabs : op'[u].kind \in Opens =>
           op[u].kind \in Opens /\ op'[u].tok = op[u].tok /\ (op'[u].st = "resp" => op[u].st = "resp")
    BY <1>4, EmptyForm
  <2>2. \A x \in Slots : ref'[x].tok.sid = NoSid \/ ref'[x].tok.sid = ref[x].tok.sid
    BY <1>0, FinishForm, EmptyForm
  <2> QED
    BY <1>0, <2>1, <2>2, LoginKept
<1>7. SecretShape'
  BY <1>0, FinishForm, SecretKept
<1> QED
  BY <1>1, <1>2, <1>3, <1>5, <1>6, <1>7

(* While the lock serialises refreshes and no page has gone, a refresh that *)
(* is about to send is alone.                                              *)
LEMMA SenderAlone ==
  ASSUME IInv, Orderly, NEW t \in Tabs, run[t].pc \in {"ready", "sent"}
  PROVE  \A x \in Slots : x # t => ref[x] = NoExchange
  BY DEF IInv, LockShape, SecretShape, Slots

LEMMA SendStep == ASSUME IInv, NEW t \in Tabs, SendRefresh(t) PROVE IInv'
<1>0. /\ TypeOK /\ ExchangeShape /\ LockShape /\ CurrentShape
      /\ RowShape /\ LoginShape /\ SecretShape
      /\ \A u \in Tabs : gone[u] \subseteq Sids
  BY DEF IInv, TypeOK
<1>1. /\ UNCHANGED <<row, jar, sess, boot, bus, inputs, faults, gone, torn>>
      /\ run[t].pc = "ready" /\ ref[t] = NoExchange /\ t \in Slots
  BY <1>0 DEF SendRefresh, LockShape, Slots
<1>a. CASE ~run[t].current
  <2>1. Finish(t, "transient_error") /\ "transient_error" \in Kinds
    BY <1>a DEF SendRefresh, Kinds
  <2>2. TypeOK'
    BY <1>0, <1>1, <2>1, FinishForm, AfterOpForm, SMTT(30) DEF TypeOK
  <2> QED
    BY <1>1, <2>1, <2>2, FinishKept, EmptyForm DEF IInv
<1>b. CASE run[t].current
  <2> DEFINE e == [NoExchange EXCEPT !.st = "req", !.exp = sess[t], !.tok = jar]
             r == [run[t] EXCEPT !.pc = "sent"]
  <2>1. e \in Exchange /\ e.st = "req" /\ e.exp = sess[t] /\ e.tok = jar /\ e.ans = "none"
    BY <1>0, TypeForm, EmptyForm DEF Exchange
  <2>2. r \in Runner /\ r.pc = "sent" /\ r.current = run[t].current /\ r.retry = run[t].retry
    BY <1>0, TypeForm DEF Runner
  <2>3. /\ ref' = [ref EXCEPT ![t] = e] /\ run' = [run EXCEPT ![t] = r]
        /\ UNCHANGED <<op, call, lock>>
    BY <1>b DEF SendRefresh
  <2> HIDE DEF e, r
  <2>4. TypeOK'
    BY <1>0, <1>1, <2>1, <2>2, <2>3 DEF TypeOK
  <2>5. /\ ref'[t] = e /\ run'[t] = r
        /\ \A u \in Tabs : u # t => run'[u] = run[u] /\ ref'[u] = ref[u]
        /\ \A x \in Slots : x # t => ref'[x] = ref[x]
    BY <1>0, <1>1, <2>3, TypeForm
  <2>6. ExchangeShape'
    BY <1>0, <2>1, <2>5 DEF ExchangeShape
  <2>7. LockShape'
    BY <1>0, <1>1, <2>2, <2>3, <2>5 DEF LockShape
  <2>8. CurrentShape'
    BY <1>0, <1>1, <2>1, <2>2, <2>5 DEF CurrentShape
  <2>9. RowShape'
    <3>1. \A x \in Slots : ref'[x].tok.sid = ref[x].tok.sid \/ Known(ref'[x].tok.sid)
      BY <1>0, <2>1, <2>5 DEF RowShape
    <3> QED
      BY <1>0, <1>1, <2>3, <3>1, RowKept
  <2>10. LoginShape'
    <3>1. \A x \in Slots : ref'[x].tok.sid = jar.sid \/ ref'[x].tok.sid = ref[x].tok.sid
      BY <2>1, <2>5
    <3> QED
      BY <1>0, <1>1, <2>3, <3>1, LoginKept
  <2>11. SecretShape'
    <3> SUFFICES ASSUME Orderly PROVE SecretShape'
      BY <1>1 DEF SecretShape
    <3>1. \A x \in Slots : x # t => ref'[x] = NoExchange
      BY <1>1, <2>5, SenderAlone
    <3>2. ~Active(jar.sid) \/ jar.gen = row[jar.sid].cur
      BY <1>0, <1>1, SenderAlone, EmptyForm DEF SecretShape
    <3>3. \A x \in Slots : HonestNext(x)
      BY <1>1, <2>1, <2>5, <3>1, <3>2, EmptyForm DEF HonestNext, Lives, Active
    <3>4. ref'[Ghost] = NoExchange
      BY <3>1 DEF Slots
    <3> QED
      BY <1>1, <3>2, <3>3, <3>4, SecretForm DEF Lives, Active
  <2> QED
    BY <2>4, <2>6, <2>7, <2>8, <2>9, <2>10, <2>11 DEF IInv
<1> QED
  BY <1>a, <1>b, TypeForm DEF IInv, Runner

(* Another attempt after a race or a first mismatch: a stale SID is gone.  *)
LEMMA RetryStep ==
  ASSUME IInv, NEW t \in Tabs, HandleRefresh(t), run[t].current, RetriesRace(t) \/ RetriesMismatch(t)
  PROVE  IInv'
<1>0. /\ TypeOK /\ ExchangeShape /\ LockShape /\ CurrentShape
      /\ RowShape /\ LoginShape /\ SecretShape
      /\ \A u \in Tabs : gone[u] \subseteq Sids
  BY DEF IInv, TypeOK
<1>1. ref[t].ans = "mismatch" /\ run[t].retry /\ RetriesMismatch(t) /\ ~RetriesRace(t) /\ t \in Slots
  BY <1>0 DEF ExchangeShape, RetriesRace, RetriesMismatch, Slots
<1> DEFINE r == [run[t] EXCEPT !.pc = "ready", !.race = 0, !.retry = FALSE]
<1>2. r \in Runner /\ r.pc = "ready"
  <2>1. run[t] \in Runner /\ 0 \in 0..RaceRetries
    BY <1>0, TypeForm DEF RaceRetries
  <2> QED
    BY <2>1 DEF Runner
<1>3. /\ run' = [run EXCEPT ![t] = r] /\ ref' = [ref EXCEPT ![t] = NoExchange]
      /\ sess' = [sess EXCEPT ![t] = NoSid] /\ boot' = [boot EXCEPT ![t] = "idle"]
      /\ UNCHANGED <<op, call, bus, lock, row, jar, inputs, faults, gone, torn>>
      /\ run[t].pc = "sent" /\ ref[t].st = "back"
  BY <1>1 DEF HandleRefresh, StillCurrent
<1> HIDE DEF r
<1>4. TypeOK'
  BY <1>0, <1>2, <1>3, EmptyForm DEF TypeOK
<1>5. /\ ref'[t] = NoExchange /\ run'[t] = r /\ sess'[t] = NoSid
      /\ \A u \in Tabs : u # t => run'[u] = run[u] /\ ref'[u] = ref[u] /\ sess'[u] = sess[u]
      /\ \A x \in Slots : x # t => ref'[x] = ref[x]
  BY <1>0, <1>1, <1>3, TypeForm
<1>6. ExchangeShape'
  BY <1>0, <1>5, EmptyForm DEF ExchangeShape
<1>7. LockShape'
  BY <1>0, <1>2, <1>3, <1>5 DEF LockShape
<1>8. CurrentShape'
  BY <1>0, <1>3, <1>5, CurrentKept
<1>9. RowShape'
  <2>1. /\ \A x \in Slots : ref'[x].tok.sid = ref[x].tok.sid \/ Known(ref'[x].tok.sid)
        /\ \A u \in Tabs : sess'[u] = sess[u] \/ Known(sess'[u])
    BY <1>5, EmptyForm DEF Known
  <2> QED
    BY <1>0, <1>3, <2>1, RowKept
<1>10. LoginShape'
  <2>1. \A x \in Slots : ref'[x].tok.sid = NoSid \/ ref'[x].tok.sid = ref[x].tok.sid
    BY <1>5, EmptyForm
  <2> QED
    BY <1>0, <1>3, <2>1, LoginKept
<1>11. SecretShape'
  BY <1>0, <1>3, <1>5, SecretKept
<1> QED
  BY <1>4, <1>6, <1>7, <1>8, <1>9, <1>10, <1>11 DEF IInv

LEMMA HandleStep == ASSUME IInv, NEW t \in Tabs, HandleRefresh(t) PROVE IInv'
<1>0. TypeOK /\ RowShape /\ t \in Slots
  BY DEF IInv, Slots
<1>1. /\ UNCHANGED <<row, jar, inputs, faults, gone, torn>>
      /\ run[t].pc = "sent" /\ ref[t].st = "back"
  BY DEF HandleRefresh
<1>a. CASE ~run[t].current
  <2>1. /\ Finish(t, "transient_error") /\ "transient_error" \in Kinds
        /\ UNCHANGED <<sess, boot, bus>>
    BY <1>a DEF HandleRefresh, StillCurrent, Kinds
  <2>2. TypeOK'
    BY <1>0, <1>1, <2>1, FinishForm, AfterOpForm, SMTT(30) DEF TypeOK
  <2> QED
    BY <1>1, <2>1, <2>2, FinishKept DEF IInv
<1>b. CASE run[t].current /\ ~RetriesRace(t) /\ ~RetriesMismatch(t)
  <2> DEFINE k == OutcomeKind(t)
             s == CASE k = "authenticated" -> [sess EXCEPT ![t] = ref[t].tok.sid]
                    [] k = "transient_error" -> sess
                    [] OTHER -> [sess EXCEPT ![t] = NoSid]
  <2>1. k \in Kinds
    BY DEF OutcomeKind, Kinds
  <2>2. /\ Finish(t, k) /\ sess' = s
        /\ boot' = [boot EXCEPT ![t] = BootAfter(t, k)]
        /\ bus' = IF k = "anonymous" THEN Publish(t, "signed_out", sess[t]) ELSE bus
    BY <1>b DEF HandleRefresh, StillCurrent
  <2> HIDE DEF k
  <2>3. sess' \in {[sess EXCEPT ![t] = ref[t].tok.sid], sess, [sess EXCEPT ![t] = NoSid]}
    BY <2>2
  <2> HIDE DEF s
  <2>4. ref[t].tok.sid \in 0..MaxSid /\ sess[t] \in 0..MaxSid
    BY <1>0, TypeForm DEF Exchange, Token
  <2>5. TypeOK'
    <3>1. bus' \in [Tabs -> Seq(Event)]
      BY <1>0, <2>2, <2>4, PublishForm DEF TypeOK
    <3>2. boot' \in [Tabs -> {"idle", "checking", "complete"}]
      BY <1>0, <2>2 DEF TypeOK, BootAfter
    <3>3. sess' \in [Tabs -> 0..MaxSid]
      BY <1>0, <2>3, <2>4, EmptyForm, TypeForm
    <3>4. /\ run' \in [Tabs -> Runner] /\ ref' \in [Slots -> Exchange]
          /\ call' \in [Tabs -> {"none", "wait", "replay", "leave"}]
          /\ op' \in [Tabs -> Operation] /\ lock' \in {lock, NoTab}
      BY <1>0, <2>1, <2>2, FinishForm, AfterOpForm
    <3> QED
      BY <1>0, <1>1, <3>1, <3>2, <3>3, <3>4 DEF TypeOK
  <2>6. \A u \in Tabs : u # t => sess'[u] = sess[u]
    BY <1>0, <2>3, TypeForm
  <2>7. sess'[t] = sess[t] \/ Known(sess'[t])
    BY <1>0, <2>3, TypeForm, EmptyForm DEF RowShape, Known
  <2> QED
    BY <1>1, <2>1, <2>2, <2>5, <2>6, <2>7, FinishKept DEF IInv
<1> QED
  BY <1>a, <1>b, RetryStep DEF HandleRefresh, StillCurrent

-----------------------------------------------------------------------------
(* The server answers a refresh                                            *)

(* The rows of sessions already open only end, and only the session of the *)
(* exchange rotates.                                                       *)
RowsEnd(x) ==
  \A s \in Sids : /\ row'[s].status = row[s].status
                     \/ (row[s].status = "active" /\ row'[s].status = "revoked")
                  /\ row'[s].cur = row[s].cur \/ (s = ref[x].tok.sid /\ row[s].status = "active")

LEMMA AnswerKept ==
  ASSUME IInv, NEW x \in Slots, ref[x].st \in {"req"} \cup Accepted, RowsEnd(x),
         \A y \in Slots : y # x => ref'[y] = ref[y], ref'[x].tok = ref[x].tok,
         \/ /\ ref'[x].st = "resp" /\ ref'[x].exp = NoSid
            /\ ref'[x].ans \in {"ok", "mismatch", "unauth", "error"}
         \/ ref'[x].st = "rotated" /\ ref'[x].exp = ref[x].exp /\ ref'[x].ans = "none",
         UNCHANGED <<jar, sess, run, op, lock, gone>>,
         Granted(ref'[x]) =>
           \/ ref[x].st = "checked" /\ Active(ref[x].tok.sid) /\ ref[x].tok.gen < MaxGen
           \/ ref[x].st = "rotated",
         ref'[x].ans = "mismatch" => ref[x].st = "req" /\ ref[x].exp # NoSid
  PROVE  ExchangeShape' /\ LockShape' /\ CurrentShape' /\ RowShape' /\ LoginShape'
<1>0. /\ TypeOK /\ ExchangeShape /\ LockShape /\ CurrentShape
      /\ RowShape /\ LoginShape
      /\ \A u \in Tabs : gone[u] \subseteq Sids /\ u \in Slots
  BY DEF IInv, TypeOK, Slots
<1>2. ExchangeShape'
  BY <1>0 DEF ExchangeShape, Active
<1>3. LockShape'
  BY <1>0, EmptyForm DEF LockShape
<1>4. CurrentShape'
  <2> SUFFICES ASSUME NEW t \in Tabs, run[t].current
               PROVE  /\ ~run[t].retry => /\ sess[t] = NoSid /\ ref'[t].exp = NoSid
                                          /\ ref'[t].ans # "mismatch"
                      /\ ref'[t].st = "req" => ref'[t].exp = sess[t]
                      /\ ref'[t].st \in Accepted \/ ref'[t].ans = "ok" =>
                           sess[t] \in {NoSid, ref'[t].tok.sid}
                      /\ ref'[t].st = "rotated" \/ ref'[t].ans = "ok" =>
                           ref'[t].tok.sid \notin gone[t]
    BY DEF CurrentShape
  <2>1. CASE t # x
    BY <1>0, <2>1 DEF CurrentShape
  <2>2. CASE t = x
    <3>1. Granted(ref'[t]) => ref[t].tok.sid \notin gone[t]
      BY <1>0, <2>2 DEF RowShape, Active, CurrentShape
    <3>2. ref'[t].ans = "ok" => Granted(ref'[t])
      BY <2>2
    <3> QED
      BY <1>0, <2>2, <3>1, <3>2 DEF CurrentShape
  <2> QED
    BY <2>1, <2>2
<1>5. \A y \in Slots : ref'[y].tok = ref[y].tok
  OBVIOUS
<1>6. RowShape'
  <2>1. \A s \in Sids : /\ row'[s].status = "none" => row[s].status = "none" /\ row'[s].cur = row[s].cur
                        /\ row[s].status = "revoked" => row'[s].status = "revoked"
    BY DEF RowsEnd
  <2> QED
    BY <1>0, <1>5, <2>1, RowKept
<1>7. LoginShape'
  BY <1>0, <1>5, LoginKept DEF RowsEnd
<1> QED
  BY <1>2, <1>3, <1>4, <1>6, <1>7

LEMMA RefusalSecret ==
  ASSUME IInv, NEW x \in Slots, NEW a \in {"mismatch", "unauth", "error"}, Answer(x, a),
         ref[x].st \in {"req", "read", "checked", "reuse"} \/ (ref[x].st = "rotated" /\ ~Orderly'),
         Orderly' => Orderly, a = "unauth" /\ Orderly' => ~Lives(ref[x].tok.sid),
         \A s \in Sids : row'[s].status = "active" => row[s].status = "active" /\ row'[s].cur = row[s].cur,
         UNCHANGED jar
  PROVE  SecretShape'
<1> SUFFICES ASSUME Orderly, Orderly' PROVE SecretShape'
  BY DEF SecretShape
<1>0. TypeOK /\ SecretShape
  BY DEF IInv
<1>1. /\ ref'[x].st = "resp" /\ ref'[x].ans = a /\ ref'[x].tok = ref[x].tok
      /\ \A y \in Slots : y # x => ref'[y] = ref[y]
  BY <1>0, AnswerForm
<1>2. ref'[Ghost] = NoExchange
  BY <1>0, <1>1, TypeForm, EmptyForm DEF SecretShape
<1>3. \A s : Lives(s) => Active(s) /\ row'[s].cur = row[s].cur
  BY DEF Lives, Active
<1>4. \A y \in Slots : HonestNext(y)
  BY <1>0, <1>1, <1>3 DEF SecretShape, HonestNext
<1>5. \/ ~Lives(jar'.sid) \/ jar'.gen = row'[jar'.sid].cur
      \/ \E y \in Slots : Granted(ref'[y]) /\ ref'[y].tok.sid = jar'.sid
  BY <1>0, <1>1, <1>3 DEF SecretShape
<1> QED
  BY <1>2, <1>4, <1>5, SecretForm

(* Revoking a live session.                                                *)
LEMMA RevokedForm ==
  ASSUME TypeOK, NEW s, Active(s), row' = Revoked(s)
  PROVE  /\ row' \in [Sids -> RowType] /\ ~Lives(s)
         /\ \A q \in Sids : /\ row'[q].status = row[q].status
                               \/ (row[q].status = "active" /\ row'[q].status = "revoked")
                            /\ row'[q].cur = row[q].cur
<1> DEFINE r == [row[s] EXCEPT !.status = "revoked"]
<1>0. s \in Sids /\ row \in [Sids -> RowType] /\ row[s].status = "active"
  BY TypeForm DEF Active
<1>1. r \in RowType /\ r.status = "revoked" /\ r.cur = row[s].cur
  BY <1>0 DEF RowType
<1>2. row' = [row EXCEPT ![s] = r]
  BY DEF Revoked
<1> HIDE DEF r
<1>3. row' \in [Sids -> RowType] /\ row'[s] = r /\ \A q \in Sids : q # s => row'[q] = row[q]
  BY <1>0, <1>1, <1>2
<1> QED
  BY <1>0, <1>1, <1>3 DEF Lives

(* A refusal: the session, if it was live, may end with it.                *)
LEMMA RefuseStep ==
  ASSUME IInv, NEW x \in Slots, NEW a \in {"unauth", "error"}, Answer(x, a),
         ref[x].st \in {"req", "read", "checked", "reuse"} \/ (ref[x].st = "rotated" /\ ~Orderly'),
         UNCHANGED <<jar, sess, boot, run, op, call, bus, lock, inputs, gone>>,
         row' \in [Sids -> RowType], faults' \in 0..MaxFaults, torn' \in BOOLEAN,
         \A s \in Sids : /\ row'[s].status = row[s].status
                            \/ (row[s].status = "active" /\ row'[s].status = "revoked")
                         /\ row'[s].cur = row[s].cur,
         Orderly' => Orderly, a = "unauth" /\ Orderly' => ~Lives(ref[x].tok.sid)
  PROVE  IInv'
<1>0. TypeOK
  BY DEF IInv
<1>1. TypeOK'
  BY <1>0, AnswerForm DEF TypeOK, RowType
<1>2. RowsEnd(x)
  BY DEF RowsEnd
<1>3. /\ ref'[x].st = "resp" /\ ref'[x].ans = a /\ ref'[x].exp = NoSid
      /\ ref'[x].tok = ref[x].tok /\ \A y \in Slots : y # x => ref'[y] = ref[y]
  BY <1>0, AnswerForm
<1>4. ExchangeShape' /\ LockShape' /\ CurrentShape' /\ RowShape' /\ LoginShape'
  BY <1>2, <1>3, AnswerKept
<1>5. \A s \in Sids : row'[s].status = "active" => row[s].status = "active" /\ row'[s].cur = row[s].cur
  OBVIOUS
<1>6. SecretShape'
  BY <1>5, RefusalSecret
<1> QED
  BY <1>1, <1>4, <1>6 DEF IInv

(* The request passes a check.                                             *)
LEMMA PassStep ==
  ASSUME IInv, NEW x \in Slots, NEW e \in Exchange, ref' = [ref EXCEPT ![x] = e],
         e.tok = ref[x].tok, e.ans = ref[x].ans, e.exp \in {NoSid, ref[x].exp},
         \/ /\ ref[x].st = "req" /\ e.st = "read" /\ e.exp = NoSid
            /\ Active(ref[x].tok.sid) /\ ExpectMatches(ref[x])
         \/ ref[x].st = "read" /\ e.st = "checked",
         UNCHANGED <<row, jar, sess, boot, run, op, call, bus, lock, inputs, faults, gone, torn>>
  PROVE  IInv'
<1>0. /\ TypeOK /\ ExchangeShape /\ LockShape /\ CurrentShape
      /\ RowShape /\ LoginShape /\ SecretShape
      /\ \A u \in Tabs : gone[u] \subseteq Sids
  BY DEF IInv, TypeOK
<1>1. ref' \in [Slots -> Exchange] /\ ref'[x] = e /\ \A y \in Slots : y # x => ref'[y] = ref[y]
  BY <1>0, TypeForm
<1>2. TypeOK'
  BY <1>0, <1>1 DEF TypeOK
<1>3. ref[x].ans = "none" /\ ref[x].tok.sid \in Sids
  BY <1>0 DEF ExchangeShape, Active
<1>4. ExchangeShape'
  BY <1>0, <1>1, <1>3 DEF ExchangeShape
<1>5. LockShape'
  BY <1>0, <1>1, EmptyForm DEF LockShape, Slots
<1>6. CurrentShape'
  <2>1. CASE ref[x].st = "req"
    <3>1. ref[x].exp \in {NoSid, ref[x].tok.sid} /\ e.st = "read" /\ e.exp = NoSid
      BY <2>1 DEF ExpectMatches
    <3> QED
      BY <1>0, <1>1, <1>3, <2>1, <3>1 DEF CurrentShape, Slots
  <2>2. CASE ref[x].st = "read"
    BY <1>0, <1>1, <1>3, <2>2 DEF CurrentShape, Slots
  <2> QED
    BY <2>1, <2>2
<1>7. \A y \in Slots : ref'[y].tok = ref[y].tok
  BY <1>1
<1>8. RowShape' /\ LoginShape'
  BY <1>0, <1>7, RowKept, LoginKept
<1>9. SecretShape'
  <2> SUFFICES ASSUME Orderly PROVE SecretShape'
    BY DEF SecretShape
  <2>1. ref'[Ghost] = NoExchange
    BY <1>0, <1>1, TypeForm, EmptyForm DEF SecretShape
  <2>2. \A y \in Slots : HonestNext(y)
    BY <1>0, <1>1, <1>3, <1>7 DEF SecretShape, HonestNext, Lives, Active
  <2>3. \/ ~Lives(jar'.sid) \/ jar'.gen = row'[jar'.sid].cur
        \/ \E y \in Slots : Granted(ref'[y]) /\ ref'[y].tok.sid = jar'.sid
    BY <1>0, <1>1, <1>7 DEF SecretShape, Lives, Active
  <2> QED
    BY <2>1, <2>2, <2>3, SecretForm
<1> QED
  BY <1>2, <1>4, <1>5, <1>6, <1>8, <1>9 DEF IInv

LEMMA CheckStep == ASSUME IInv, NEW x \in Slots, CheckRefresh(x) PROVE IInv'
<1>0. TypeOK /\ row \in [Sids -> RowType] /\ ref[x] \in Exchange
  BY TypeForm DEF IInv
<1>1. /\ ref[x].st = "req"
      /\ UNCHANGED <<row, jar, sess, boot, run, op, call, bus, lock, inputs, gone, torn>>
  BY DEF CheckRefresh
<1>2. RowsEnd(x)
  BY <1>1 DEF RowsEnd
<1>m. CASE Answer(x, "mismatch") /\ ~ExpectMatches(ref[x]) /\ UNCHANGED faults
  <2>1. TypeOK'
    BY <1>0, <1>1, <1>m, AnswerForm DEF TypeOK
  <2>2. /\ ref'[x].st = "resp" /\ ref'[x].ans = "mismatch" /\ ref'[x].exp = NoSid
        /\ ref'[x].tok = ref[x].tok /\ \A y \in Slots : y # x => ref'[y] = ref[y]
    BY <1>0, <1>m, AnswerForm
  <2>3. SecretShape'
    BY <1>1, <1>m, RefusalSecret
  <2>4. ExchangeShape' /\ LockShape' /\ CurrentShape' /\ RowShape' /\ LoginShape'
    BY <1>1, <1>2, <1>m, <2>2, AnswerKept DEF ExpectMatches
  <2> QED
    BY <2>1, <2>3, <2>4 DEF IInv
<1>u. CASE Answer(x, "unauth") /\ ~Active(ref[x].tok.sid) /\ UNCHANGED faults
  <2>1. ~Lives(ref[x].tok.sid) /\ faults \in 0..MaxFaults /\ torn \in BOOLEAN
    BY <1>0, <1>1, <1>u DEF Lives, Active, TypeOK
  <2> QED
    BY <1>0, <1>1, <1>u, <2>1, RefuseStep
<1>f. CASE /\ Answer(x, "unauth")
           /\ faults < MaxFaults /\ faults' = faults + 1
  <2>1. faults' \in 0..MaxFaults /\ faults' # 0 /\ torn \in BOOLEAN
    BY <1>0, <1>f DEF TypeOK
  <2> QED
    BY <1>0, <1>1, <1>f, <2>1, RefuseStep
<1>b. CASE /\ ref' = [ref EXCEPT ![x].st = "read", ![x].exp = NoSid, ![x].ver = row[ref[x].tok.sid].ver]
           /\ Active(ref[x].tok.sid) /\ ExpectMatches(ref[x]) /\ UNCHANGED faults
  <2> DEFINE v == row[ref[x].tok.sid].ver
             e == [ref[x] EXCEPT !.st = "read", !.exp = NoSid, !.ver = v]
  <2>1. Active(ref[x].tok.sid) /\ ExpectMatches(ref[x]) /\ UNCHANGED faults
    BY <1>b
  <2>2. v \in Nat
    BY <1>0, <2>1 DEF Active, RowType
  <2>3. ref' = [ref EXCEPT ![x] = e]
    BY <1>b
  <2> HIDE DEF v
  <2>4. e \in Exchange /\ e.st = "read" /\ e.exp = NoSid /\ e.ans = ref[x].ans /\ e.tok = ref[x].tok
    BY <1>0, <2>2, EmptyForm DEF Exchange
  <2> HIDE DEF e
  <2> QED
    BY <1>1, <2>1, <2>3, <2>4, PassStep
<1>3. ~Active(NoSid)
  BY EmptyForm DEF Active
<1> QED
  BY <1>m, <1>u, <1>f, <1>b, <1>3 DEF CheckRefresh, ExpectMatches

LEMMA UserStep == ASSUME IInv, NEW x \in Slots, CheckUser(x) PROVE IInv'
<1> DEFINE s == ref[x].tok.sid
<1>0. /\ TypeOK /\ row \in [Sids -> RowType] /\ ref[x] \in Exchange /\ ref[x].st = "read"
      /\ faults \in 0..MaxFaults /\ torn \in BOOLEAN
  BY TypeForm DEF IInv, TypeOK, CheckUser
<1>1. UNCHANGED <<jar, sess, boot, run, op, call, bus, lock, inputs, faults, gone, torn>>
  BY DEF CheckUser
<1>a. CASE ref' = [ref EXCEPT ![x].st = "checked", ![x].ver = 0] /\ UNCHANGED row
  <2> DEFINE e == [ref[x] EXCEPT !.st = "checked", !.ver = 0]
  <2>1. e \in Exchange /\ e.st = "checked" /\ e.exp = ref[x].exp /\ e.ans = ref[x].ans /\ e.tok = ref[x].tok
    BY <1>0 DEF Exchange
  <2>2. ref' = [ref EXCEPT ![x] = e] /\ UNCHANGED row
    BY <1>a
  <2> HIDE DEF e
  <2> QED
    BY <1>0, <1>1, <2>1, <2>2, PassStep
<1>b. CASE Active(s) /\ row' = Revoked(s) /\ Answer(x, "unauth")
  BY <1>0, <1>1, <1>b, RevokedForm, RefuseStep
<1>c. CASE ~Active(s) /\ UNCHANGED row /\ Answer(x, "unauth")
  <2>1. ~Lives(s)
    BY <1>c DEF Lives, Active
  <2> QED
    BY <1>0, <1>1, <1>c, <2>1, RefuseStep
<1> QED
  BY <1>a, <1>b, <1>c DEF CheckUser

(* A successor is committed: the rotation of the current secret, or, in its *)
(* window, the replay of the previous one, which derives to the same.      *)
LEMMA GrantStep ==
  ASSUME IInv, NEW x \in Slots, ref' \in [Slots -> Exchange], Granted(ref'[x]),
         \A y \in Slots : y # x => ref'[y] = ref[y], ref'[x].tok = ref[x].tok,
         \/ ref'[x].st = "resp" /\ ref'[x].exp = NoSid /\ ref'[x].ans = "ok"
         \/ ref'[x].st = "rotated" /\ ref'[x].exp = ref[x].exp /\ ref'[x].ans = "none",
         ref[x].st = "checked", Active(ref[x].tok.sid),
         UNCHANGED <<jar, sess, boot, run, op, call, bus, lock, inputs, faults, gone, torn>>,
         \/ /\ ref[x].tok.gen = row[ref[x].tok.sid].cur /\ ref[x].tok.gen < MaxGen
            /\ row' = [row EXCEPT ![ref[x].tok.sid].cur = @ + 1, ![ref[x].tok.sid].grace = TRUE]
         \/ /\ ref[x].tok.gen + 1 = row[ref[x].tok.sid].cur
            /\ UNCHANGED row
  PROVE  IInv'
<1> DEFINE s == ref[x].tok.sid
           r == [row[s] EXCEPT !.cur = row[s].cur + 1, !.grace = TRUE]
<1>0. /\ TypeOK /\ SecretShape /\ s \in Sids /\ row[s] \in RowType /\ row[s].status = "active"
      /\ ref[x].tok.gen \in 0..MaxGen
  BY TypeForm DEF IInv, Active, Exchange, Token
<1> HIDE DEF s
<1>1. /\ row[s].cur < MaxGen => r \in RowType /\ r.cur = row[s].cur + 1 /\ r.status = "active"
      /\ ref[x].tok.gen + 1 = row[s].cur => ref[x].tok.gen < MaxGen
  <2>1. row[s].cur \in 0..MaxGen
    BY <1>0 DEF RowType
  <2>2. ASSUME NEW c \in 0..MaxGen
        PROVE  LET q == [row[s] EXCEPT !.cur = c, !.grace = TRUE]
               IN  q \in RowType /\ q.cur = c /\ q.status = row[s].status
    BY <1>0 DEF RowType
  <2>3. row[s].cur < MaxGen => row[s].cur + 1 \in 0..MaxGen
    BY <2>1
  <2>4. ref[x].tok.gen + 1 = row[s].cur => ref[x].tok.gen < MaxGen
    BY <1>0, <2>1
  <2> QED
    BY <1>0, <2>2, <2>3, <2>4
<1>2. \/ row' = [row EXCEPT ![s] = r] /\ ref[x].tok.gen = row[s].cur /\ ref[x].tok.gen < MaxGen
      \/ row' = row /\ ref[x].tok.gen + 1 = row[s].cur
  BY DEF s
<1> HIDE DEF r
<1>3. /\ row' \in [Sids -> RowType] /\ row'[s].status = "active"
      /\ row'[s].cur = ref[x].tok.gen + 1 /\ ref[x].tok.gen < MaxGen
      /\ row'[s].cur = row[s].cur \/ ref[x].tok.gen = row[s].cur
      /\ \A q \in Sids : q # s => row'[q] = row[q]
  BY <1>0, <1>1, <1>2, TypeForm
<1>4. TypeOK'
  BY <1>0, <1>3 DEF TypeOK, RowType
<1>5. RowsEnd(x)
  BY <1>0, <1>3 DEF RowsEnd, s
<1>6. ExchangeShape' /\ LockShape' /\ CurrentShape' /\ RowShape' /\ LoginShape'
  BY <1>3, <1>5, AnswerKept
<1>7. SecretShape'
  <2> SUFFICES ASSUME Orderly PROVE SecretShape'
    BY DEF SecretShape
  <2>2. x \in Tabs
    BY <1>0, EmptyForm DEF SecretShape, Slots
  <2>3. \A y \in Slots : y # x => ref[y] = NoExchange /\ ref'[y] = NoExchange
    <3>1. run[x].pc = "sent"
      BY <2>2, EmptyForm DEF IInv, LockShape
    <3> QED
      BY <2>2, <3>1, SenderAlone
  <2>4. ref'[Ghost] = NoExchange
    BY <2>2, <2>3 DEF Slots
  <2>5. \A y \in Slots : HonestNext(y)
    BY <1>3, <2>3, EmptyForm DEF HonestNext, s
  <2>6. \/ ~Lives(jar'.sid) \/ jar'.gen = row'[jar'.sid].cur
        \/ \E y \in Slots : Granted(ref'[y]) /\ ref'[y].tok.sid = jar'.sid
    <3>1. CASE jar.sid = s
      BY <3>1 DEF s
    <3>2. CASE jar.sid # s
      <4>1. \A y \in Slots : ~Granted(ref[y])
        BY <2>3, EmptyForm
      <4>2. ~Active(jar.sid) \/ jar.gen = row[jar.sid].cur
        BY <1>0, <4>1 DEF SecretShape
      <4> QED
        BY <1>3, <3>2, <4>2 DEF Lives, Active
    <3> QED
      BY <3>1, <3>2
  <2> QED
    BY <2>4, <2>5, <2>6, SecretForm
<1> QED
  BY <1>4, <1>6, <1>7 DEF IInv

(* A previous secret outside its window: never while refreshes are         *)
(* serialised and nothing is lost.                                         *)
LEMMA ReuseStep ==
  ASSUME IInv, NEW x \in Slots, ref' = [ref EXCEPT ![x].st = "reuse"], ref[x].st = "checked",
         UNCHANGED <<row, jar, sess, boot, run, op, call, bus, lock, inputs, faults, gone, torn>>,
         Active(ref[x].tok.sid), ref[x].tok.gen # row[ref[x].tok.sid].cur
  PROVE  IInv'
<1>0. /\ TypeOK /\ ExchangeShape /\ LockShape /\ CurrentShape
      /\ RowShape /\ LoginShape /\ SecretShape
      /\ \A u \in Tabs : gone[u] \subseteq Sids
  BY DEF IInv, TypeOK
<1> DEFINE e == [ref[x] EXCEPT !.st = "reuse"]
<1>1. /\ e \in Exchange /\ e.st = "reuse" /\ e.exp = ref[x].exp
      /\ e.ans = ref[x].ans /\ e.tok = ref[x].tok
  BY <1>0, TypeForm DEF Exchange
<1>2. ref' = [ref EXCEPT ![x] = e]
  OBVIOUS
<1> HIDE DEF e
<1>3. TypeOK'
  BY <1>0, <1>1, <1>2 DEF TypeOK
<1>4. ref'[x] = e /\ \A y \in Slots : y # x => ref'[y] = ref[y]
  BY <1>0, <1>2, TypeForm
<1>5. ExchangeShape'
  BY <1>0, <1>1, <1>4 DEF ExchangeShape
<1>6. LockShape'
  BY <1>0, <1>4, EmptyForm DEF LockShape, Slots
<1>7. CurrentShape'
  BY <1>0, <1>1, <1>4 DEF CurrentShape, Slots
<1>8. \A y \in Slots : ref'[y].tok = ref[y].tok
  BY <1>1, <1>4
<1>9. RowShape'
  BY <1>0, <1>8, RowKept
<1>10. LoginShape'
  BY <1>0, <1>8, LoginKept
<1>11. SecretShape'
  BY <1>0 DEF SecretShape
<1> QED
  BY <1>3, <1>5, <1>6, <1>7, <1>9, <1>10, <1>11 DEF IInv

LEMMA RotateStep == ASSUME IInv, NEW x \in Slots, RotateRefresh(x) PROVE IInv'
<1> DEFINE s == ref[x].tok.sid
<1>0. /\ ref[x].st = "checked" /\ s \in Sids /\ row[s].cur \in 0..MaxGen /\ ref[x].tok.gen \in 0..MaxGen
      /\ row \in [Sids -> RowType]
  BY TypeForm DEF IInv, RotateRefresh, ExchangeShape, Exchange, Token, RowType
<1>1. UNCHANGED <<jar, sess, boot, run, op, call, bus, lock, inputs, faults, gone, torn>>
  BY DEF RotateRefresh
<1>2. faults \in 0..MaxFaults /\ torn \in BOOLEAN /\ TypeOK
  BY DEF IInv, TypeOK
<1>a. CASE Answer(x, "error") /\ UNCHANGED row
  BY <1>0, <1>1, <1>2, <1>a, RefuseStep
<1>b. CASE /\ Active(s) /\ ref[x].tok.gen = row[s].cur /\ ref[x].tok.gen < MaxGen
           /\ row' = [row EXCEPT ![s].cur = @ + 1, ![s].grace = TRUE]
           /\ ref' = [ref EXCEPT ![x].st = "rotated", ![x].ver = row[s].ver]
  <2> DEFINE v == row[s].ver
             e == [ref[x] EXCEPT !.st = "rotated", !.ver = v]
  <2>1. v \in Nat
    BY <1>0 DEF RowType
  <2>2. ref' = [ref EXCEPT ![x] = e] /\ ref[x].ans = "none"
    BY <1>0, <1>b DEF IInv, ExchangeShape
  <2> HIDE DEF v
  <2>3. e \in Exchange /\ e.st = "rotated" /\ e.ans = ref[x].ans /\ e.exp = ref[x].exp /\ e.tok = ref[x].tok
    BY <1>2, <2>1, TypeForm DEF Exchange
  <2> HIDE DEF e
  <2>4. ref' \in [Slots -> Exchange] /\ ref'[x] = e /\ \A y \in Slots : y # x => ref'[y] = ref[y]
    BY <1>2, <2>2, <2>3, TypeForm
  <2> QED
    BY <1>0, <1>1, <1>b, <2>2, <2>3, <2>4, GrantStep
<1>c. CASE /\ Active(s) /\ row[s].cur > 0 /\ ref[x].tok.gen = row[s].cur - 1 /\ UNCHANGED row
           /\ Answer(x, IF DerivedIsCurrent(ref[x].tok) THEN "ok" ELSE "race")
  <2>1. ref[x].tok.gen + 1 = row[s].cur
    BY <1>0, <1>c
  <2>2. Answer(x, "ok")
    BY <1>c, <2>1 DEF DerivedIsCurrent
  <2>3. /\ ref' \in [Slots -> Exchange]
        /\ ref'[x].st = "resp" /\ ref'[x].ans = "ok" /\ ref'[x].exp = NoSid
        /\ ref'[x].tok = ref[x].tok
        /\ \A y \in Slots : y # x => ref'[y] = ref[y]
    BY <1>2, <2>2, AnswerForm
  <2> QED
    BY <1>0, <1>1, <1>c, <2>1, <2>3, GrantStep
<1>d. CASE /\ Active(s) /\ row[s].cur > 0 /\ ref[x].tok.gen = row[s].cur - 1 /\ UNCHANGED row
           /\ ref' = [ref EXCEPT ![x].st = "reuse"]
  <2>1. ref[x].tok.gen # row[s].cur
    BY <1>0, <1>d
  <2> QED
    BY <1>0, <1>1, <1>d, <2>1, ReuseStep
<1>e. CASE /\ Active(s) /\ ref[x].tok.gen # row[s].cur /\ UNCHANGED row /\ Answer(x, "unauth")
  <2>1. ~Orderly
    BY <1>0, <1>e DEF IInv, SecretShape
  <2> QED
    BY <1>0, <1>1, <1>2, <1>e, <2>1, RefuseStep
<1> QED
  BY <1>a, <1>b, <1>c, <1>d, <1>e DEF RotateRefresh

(* The committed rotation is answered, or withheld from its browser.       *)
LEMMA PublishStep == ASSUME IInv, NEW x \in Slots, PublishRotation(x) PROVE IInv'
<1>0. /\ TypeOK /\ SecretShape /\ row \in [Sids -> RowType] /\ ref[x].st = "rotated"
      /\ faults \in 0..MaxFaults /\ torn \in BOOLEAN
  BY TypeForm DEF IInv, TypeOK, PublishRotation
<1>1. UNCHANGED <<row, jar, sess, boot, run, op, call, bus, lock, inputs, faults, gone>>
  BY DEF PublishRotation
<1>a. CASE Answer(x, "error") /\ torn' = TRUE
  BY <1>0, <1>1, <1>a, RefuseStep
<1>b. CASE Answer(x, "ok") /\ UNCHANGED torn
  <2>1. /\ ref' \in [Slots -> Exchange]
        /\ ref'[x].st = "resp" /\ ref'[x].ans = "ok" /\ ref'[x].exp = NoSid
        /\ ref'[x].tok = ref[x].tok
        /\ \A y \in Slots : y # x => ref'[y] = ref[y]
    BY <1>0, <1>b, AnswerForm
  <2>2. TypeOK'
    BY <1>0, <1>1, <1>b, <2>1 DEF TypeOK
  <2>3. RowsEnd(x)
    BY <1>1 DEF RowsEnd
  <2>4. ExchangeShape' /\ LockShape' /\ CurrentShape' /\ RowShape' /\ LoginShape'
    BY <1>0, <1>1, <2>1, <2>3, AnswerKept
  <2>5. SecretShape'
    <3> SUFFICES ASSUME Orderly PROVE SecretShape'
      BY <1>1, <1>b DEF SecretShape
    <3>1. ref'[Ghost] = NoExchange
      BY <1>0, <2>1, TypeForm, EmptyForm DEF SecretShape
    <3>2. \A y \in Slots : Granted(ref'[y]) <=> Granted(ref[y])
      BY <1>0, <2>1
    <3>3. \A y \in Slots : HonestNext(y)
      BY <1>0, <1>1, <2>1 DEF SecretShape, HonestNext, Lives, Active
    <3>4. \/ ~Lives(jar'.sid) \/ jar'.gen = row'[jar'.sid].cur
          \/ \E y \in Slots : Granted(ref'[y]) /\ ref'[y].tok.sid = jar'.sid
      <4>1. \A y \in Slots : ref'[y].tok = ref[y].tok
        BY <2>1
      <4> HIDE DEF Granted
      <4> QED
        BY <1>0, <1>1, <3>2, <4>1 DEF SecretShape, Lives, Active
    <3> QED
      BY <3>1, <3>3, <3>4, SecretForm
  <2> QED
    BY <2>2, <2>4, <2>5 DEF IInv
<1> QED
  BY <1>a, <1>b DEF PublishRotation

LEMMA RevokeReusedStep == ASSUME IInv, NEW x \in Slots, RevokeReused(x) PROVE IInv'
<1> DEFINE s == ref[x].tok.sid
<1>0. /\ ref[x].st = "reuse" /\ s \in Sids /\ row \in [Sids -> RowType] /\ TypeOK
      /\ faults \in 0..MaxFaults /\ torn \in BOOLEAN
  BY TypeForm DEF IInv, RevokeReused, ExchangeShape, TypeOK
<1>1. UNCHANGED <<jar, sess, boot, run, op, call, bus, lock, inputs, faults, gone, torn>>
  BY DEF RevokeReused
<1>a. CASE Answer(x, "error") /\ UNCHANGED row
  BY <1>0, <1>1, <1>a, RefuseStep
<1>b. CASE Active(s) /\ row' = Revoked(s) /\ Answer(x, "unauth")
  BY <1>0, <1>1, <1>b, RevokedForm, RefuseStep
<1> QED
  BY <1>a, <1>b DEF RevokeReused

(* The answer reaches the browser, with or without its page.               *)
LEMMA ArriveStep == ASSUME IInv, NEW x \in Slots, ArriveRefresh(x) PROVE IInv'
<1>0. /\ TypeOK /\ ExchangeShape /\ LockShape /\ CurrentShape
      /\ RowShape /\ LoginShape /\ SecretShape
      /\ \A u \in Tabs : gone[u] \subseteq Sids
  BY DEF IInv, TypeOK
<1> DEFINE k == [ref[x].tok EXCEPT !.gen = ref[x].tok.gen + 1]
           b == [ref[x] EXCEPT !.st = "back", !.tok = [ref[x].tok EXCEPT !.gen = 0]]
           e == IF x = Ghost THEN NoExchange ELSE b
<1>1. /\ ref[x].st = "resp" /\ ref' = [ref EXCEPT ![x] = e]
      /\ jar' = CASE ref[x].ans = "ok" -> k [] ref[x].ans = "unauth" -> NoToken [] OTHER -> jar
      /\ UNCHANGED <<row, sess, boot, run, op, call, bus, lock, inputs, faults, gone, torn>>
  BY DEF ArriveRefresh
<1>2. ref[x] \in Exchange /\ ref[x].tok \in Token
  BY <1>0, TypeForm DEF Exchange
<1>3. ref[x].ans = "ok" => k \in Token /\ k.sid = ref[x].tok.sid /\ k.gen = ref[x].tok.gen + 1
  <2>1. ref[x].ans = "ok" => ref[x].tok.gen + 1 \in 0..MaxGen
    BY <1>0, <1>1, <1>2 DEF ExchangeShape, Token
  <2>2. ASSUME NEW g \in 0..MaxGen
        PROVE  LET q == [ref[x].tok EXCEPT !.gen = g] IN q \in Token /\ q.sid = ref[x].tok.sid /\ q.gen = g
    BY <1>2 DEF Token
  <2> QED
    BY <2>1, <2>2
<1>4. b \in Exchange /\ b.st = "back" /\ b.exp = ref[x].exp /\ b.ans = ref[x].ans /\ b.tok.sid = ref[x].tok.sid
  <2> DEFINE z == [ref[x].tok EXCEPT !.gen = 0]
  <2>1. z \in Token /\ z.sid = ref[x].tok.sid
    BY <1>2 DEF Token
  <2> HIDE DEF z
  <2>2. b = [ref[x] EXCEPT !.st = "back", !.tok = z]
    BY DEF z
  <2> QED
    BY <1>2, <2>1, <2>2 DEF Exchange
<1> HIDE DEF k, b
<1>5. /\ ref[x].ans = "ok" => jar' = k
      /\ ref[x].ans = "unauth" => jar' = NoToken
      /\ ref[x].ans \notin {"ok", "unauth"} => jar' = jar
  BY <1>1
<1>6. TypeOK'
  <2>1. jar' \in Token
    BY <1>0, <1>3, <1>5, EmptyForm, TypeForm
  <2>2. ref' \in [Slots -> Exchange]
    BY <1>0, <1>1, <1>4, EmptyForm, TypeForm
  <2> QED
    BY <1>0, <1>1, <2>1, <2>2 DEF TypeOK
<1>7. ref'[x] \in {b, NoExchange} /\ (x # Ghost => ref'[x] = b) /\ \A y \in Slots : y # x => ref'[y] = ref[y]
  BY <1>0, <1>1, TypeForm
<1>8. ExchangeShape'
  BY <1>0, <1>1, <1>4, <1>7, EmptyForm DEF ExchangeShape
<1>9. LockShape'
  BY <1>0, <1>1, <1>7, EmptyForm DEF LockShape, Slots
<1>10. CurrentShape'
  BY <1>0, <1>1, <1>4, <1>7 DEF CurrentShape, Slots
<1>11. \A y \in Slots : ref'[y].tok.sid = ref[y].tok.sid \/ ref'[y].tok.sid = NoSid
  BY <1>4, <1>7, EmptyForm
<1>12. jar'.sid \in {jar.sid, NoSid, ref[x].tok.sid}
  BY <1>3, <1>5, EmptyForm
<1>13. RowShape'
  <2>1. jar'.sid = jar.sid \/ Known(jar'.sid)
    BY <1>0, <1>12, EmptyForm DEF RowShape, Known
  <2>2. \A y \in Slots : ref'[y].tok.sid = ref[y].tok.sid \/ Known(ref'[y].tok.sid)
    BY <1>11, EmptyForm DEF Known
  <2> QED
    BY <1>0, <1>1, <2>1, <2>2, RowKept
<1>14. LoginShape'
  BY <1>0, <1>1, <1>11, <1>12, LoginKept
<1>15. SecretShape'
  <2> SUFFICES ASSUME Orderly PROVE SecretShape'
    BY <1>1 DEF SecretShape
  <2>1. x \in Tabs
    BY <1>0, <1>1, EmptyForm DEF SecretShape, Slots
  <2>2. \A y \in Slots : y # x => ref[y] = NoExchange
    <3>1. run[x].pc = "sent"
      BY <1>0, <1>1, <2>1, EmptyForm DEF LockShape
    <3> QED
      BY <2>1, <3>1, SenderAlone
  <2>3. ref'[Ghost] = NoExchange
    BY <1>7, <2>1, <2>2 DEF Slots
  <2>4. \A y \in Slots : HonestNext(y)
    BY <1>0, <1>1, <1>4, <1>7, <2>1, <2>2, EmptyForm DEF HonestNext, SecretShape, Lives, Active
  <2>5. ~Lives(jar'.sid) \/ jar'.gen = row'[jar'.sid].cur
    <3>1. CASE ref[x].ans = "ok"
      BY <1>0, <1>1, <1>3, <1>5, <3>1 DEF SecretShape, Lives, Active
    <3>2. CASE ref[x].ans = "unauth"
      BY <1>5, <3>2, EmptyForm DEF Lives
    <3>3. CASE ref[x].ans \notin {"ok", "unauth"}
      BY <1>0, <1>1, <1>5, <2>2, <3>3, EmptyForm DEF SecretShape, Lives, Active
    <3> QED
      BY <3>1, <3>2, <3>3
  <2> QED
    BY <2>3, <2>4, <2>5, SecretForm
<1> QED
  BY <1>6, <1>8, <1>9, <1>10, <1>13, <1>14, <1>15 DEF IInv

LEMMA LoseStep == ASSUME IInv, NEW x \in Slots, LoseRefresh(x) PROVE IInv'
<1>0. /\ TypeOK /\ ExchangeShape /\ LockShape /\ CurrentShape
      /\ RowShape /\ LoginShape
      /\ \A u \in Tabs : gone[u] \subseteq Sids
  BY DEF IInv, TypeOK
<1> DEFINE b == [NoExchange EXCEPT !.st = "back", !.ans = "error"]
<1>1. b \in Exchange /\ b.st = "back" /\ b.ans = "error" /\ b.exp = NoSid /\ b.tok = NoToken
  BY EmptyForm DEF Exchange
<1>2. /\ ref[x].st # "none" /\ ref' = [ref EXCEPT ![x] = IF x = Ghost THEN NoExchange ELSE b]
      /\ faults < MaxFaults /\ faults' = faults + 1
      /\ UNCHANGED <<row, jar, sess, boot, run, op, call, bus, lock, inputs, gone, torn>>
  BY DEF LoseRefresh
<1> HIDE DEF b
<1>3. TypeOK'
  BY <1>0, <1>1, <1>2, EmptyForm DEF TypeOK
<1>4. ref'[x] \in {b, NoExchange} /\ (x # Ghost => ref'[x] = b) /\ \A y \in Slots : y # x => ref'[y] = ref[y]
  BY <1>0, <1>2, TypeForm
<1>5. ExchangeShape'
  BY <1>0, <1>1, <1>4, EmptyForm DEF ExchangeShape
<1>6. LockShape'
  BY <1>0, <1>2, <1>4, EmptyForm DEF LockShape, Slots
<1>7. CurrentShape'
  BY <1>0, <1>1, <1>2, <1>4 DEF CurrentShape, Slots
<1>8. \A y \in Slots : ref'[y].tok.sid = ref[y].tok.sid \/ ref'[y].tok.sid = NoSid
  BY <1>1, <1>4, EmptyForm
<1>9. RowShape'
  <2>1. \A y \in Slots : ref'[y].tok.sid = ref[y].tok.sid \/ Known(ref'[y].tok.sid)
    BY <1>8, EmptyForm DEF Known
  <2> QED
    BY <1>0, <1>2, <2>1, RowKept
<1>10. LoginShape'
  BY <1>0, <1>2, <1>8, LoginKept
<1>11. SecretShape'
  BY <1>0, <1>2 DEF SecretShape, TypeOK
<1> QED
  BY <1>3, <1>5, <1>6, <1>7, <1>9, <1>10, <1>11 DEF IInv

-----------------------------------------------------------------------------
(* Sessions end                                                            *)

LEMMA ShutKept ==
  ASSUME IInv, UNCHANGED <<jar, sess, run, ref, lock, gone>>, Orderly' => Orderly,
         \A s \in Sids : /\ row'[s].status = row[s].status
                            \/ (row[s].status = "active" /\ row'[s].status = "revoked")
                         /\ row'[s].cur = row[s].cur,
         \A u \in Tabs : op'[u] = op[u] \/ (op'[u].kind \notin Opens /\ Known(op'[u].tok.sid))
  PROVE  ExchangeShape' /\ LockShape' /\ CurrentShape' /\ RowShape' /\ LoginShape' /\ SecretShape'
<1>0. /\ TypeOK /\ ExchangeShape /\ LockShape /\ CurrentShape
      /\ RowShape /\ LoginShape /\ SecretShape
      /\ \A u \in Tabs : gone[u] \subseteq Sids
  BY DEF IInv, TypeOK
<1>1. ExchangeShape' /\ LockShape' /\ CurrentShape'
  BY <1>0, LockKept, CurrentKept DEF ExchangeShape
<1>2. RowShape'
  BY <1>0, RowKept
<1>3. LoginShape'
  BY <1>0, LoginKept
<1>4. SecretShape'
  BY <1>0, SecretKept
<1> QED
  BY <1>1, <1>2, <1>3, <1>4

LEMMA LapseStep == ASSUME IInv, NEW s \in Sids, GraceLapses(s) \/ RevokeElsewhere(s) PROVE IInv'
<1> DEFINE g == [row[s] EXCEPT !.grace = FALSE]
           v == [row[s] EXCEPT !.status = "revoked"]
<1>0. TypeOK
  BY DEF IInv
<1>1. /\ g \in RowType /\ g.status = row[s].status /\ g.cur = row[s].cur
      /\ v \in RowType /\ v.status = "revoked" /\ v.cur = row[s].cur
  BY <1>0, TypeForm, ZenonT(60) DEF RowType
<1>2. /\ \/ row' = [row EXCEPT ![s] = g] /\ UNCHANGED inputs
         \/ row' = [row EXCEPT ![s] = v] /\ row[s].status = "active" /\ Input
      /\ UNCHANGED <<jar, sess, boot, run, ref, op, call, bus, lock, faults, gone, torn>>
  BY DEF GraceLapses, RevokeElsewhere, Active, Revoked
<1> HIDE DEF g, v
<1>3. TypeOK'
  <2>1. row' \in [Sids -> RowType]
    BY <1>0, <1>1, <1>2, TypeForm
  <2>2. inputs' \in 0..MaxInputs
    BY <1>0, <1>2, InputForm DEF TypeOK
  <2> QED
    BY <1>0, <1>2, <2>1, <2>2 DEF TypeOK, RowType
<1>4. \A q \in Sids : /\ row'[q].status = row[q].status
                         \/ (row[q].status = "active" /\ row'[q].status = "revoked")
                      /\ row'[q].cur = row[q].cur
  BY <1>0, <1>1, <1>2, TypeForm
<1> QED
  BY <1>2, <1>3, <1>4, ShutKept DEF IInv

(* Revoking a set of active rows.                                          *)
LEMMA RowsShut ==
  ASSUME TypeOK, NEW S, \A s \in S : s \in Sids /\ row[s].status = "active",
         \/ UNCHANGED row
         \/ row' = [s \in Sids |-> IF s \in S THEN [row[s] EXCEPT !.status = "revoked"] ELSE row[s]]
  PROVE  /\ row' \in [Sids -> RowType]
         /\ \A s \in Sids : /\ row'[s].status = row[s].status
                               \/ (row[s].status = "active" /\ row'[s].status = "revoked")
                            /\ row'[s].cur = row[s].cur
<1> DEFINE v(s) == [row[s] EXCEPT !.status = "revoked"]
<1>1. \A s \in Sids : v(s) \in RowType /\ v(s).status = "revoked" /\ v(s).cur = row[s].cur
  BY TypeForm DEF RowType
<1>2. row' = row \/ row' = [s \in Sids |-> IF s \in S THEN v(s) ELSE row[s]]
  OBVIOUS
<1> HIDE DEF v
<1>3. row' \in [Sids -> RowType]
  BY <1>1, <1>2, TypeForm
<1>4. \A s \in Sids : row'[s] = row[s] \/ (s \in S /\ row'[s] = v(s))
  BY <1>2
<1> QED
  BY <1>1, <1>3, <1>4

(* A sign-out or a security change ends sessions.                          *)
LEMMA LogoutStep == ASSUME IInv, NEW t \in Tabs, AuthLogout(t) PROVE IInv'
<1> DEFINE o == op[t]
           revokes == IF o.bearer THEN IF Active(o.exp) THEN {o.exp} ELSE {}
                      ELSE IF HoldsSession(o.tok) THEN {o.tok.sid} ELSE {}
           m == [NoOp EXCEPT !.kind = "logout", !.st = "resp", !.ans = "mismatch", !.first = o.first]
           d == [NoOp EXCEPT !.kind = "logout", !.st = "resp", !.ans = "done",
                             !.clear = ~(o.bearer /\ o.tok.sid = NoSid)]
<1>0. TypeOK /\ o \in Operation
  BY TypeForm DEF IInv
<1>1. m \in Operation /\ m.kind = "logout" /\ m.tok = NoToken
  <2>1. o.first \in BOOLEAN
    BY <1>0 DEF Operation
  <2> HIDE DEF o
  <2> QED
    BY <2>1, EmptyForm DEF Operation
<1>2. d \in Operation /\ d.kind = "logout" /\ d.tok = NoToken
  BY EmptyForm DEF Operation
<1>3. \A s \in revokes : s \in Sids /\ row[s].status = "active"
  BY DEF Active, HoldsSession
<1>4. /\ \/ op' = [op EXCEPT ![t] = m] /\ UNCHANGED row
         \/ /\ op' = [op EXCEPT ![t] = d]
            /\ row' = [s \in Sids |-> IF s \in revokes THEN [row[s] EXCEPT !.status = "revoked"] ELSE row[s]]
      /\ UNCHANGED <<jar, sess, boot, run, ref, call, bus, lock, inputs, faults, gone, torn>>
  BY DEF AuthLogout
<1> HIDE DEF o, m, d, revokes
<1>5. op' \in [Tabs -> Operation] /\ \A u \in Tabs : op'[u] \in {op[u], m, d}
  BY <1>0, <1>1, <1>2, <1>4, TypeForm
<1>6. \A u \in Tabs : op'[u] = op[u] \/ (op'[u].kind \notin Opens /\ Known(op'[u].tok.sid))
  BY <1>1, <1>2, <1>5, EmptyForm DEF Known
<1>7. /\ row' \in [Sids -> RowType]
      /\ \A s \in Sids : /\ row'[s].status = row[s].status
                            \/ (row[s].status = "active" /\ row'[s].status = "revoked")
                         /\ row'[s].cur = row[s].cur
  BY <1>0, <1>3, <1>4, RowsShut
<1>8. TypeOK'
  BY <1>0, <1>4, <1>5, <1>7 DEF TypeOK, RowType
<1> QED
  BY <1>4, <1>6, <1>7, <1>8, ShutKept DEF IInv

(* A security change: the user's version moves, the session follows, the   *)
(* others end.                                                             *)
LEMMA SecurityStep == ASSUME IInv, NEW t \in Tabs, ChangeSecurity(t) PROVE IInv'
<1> DEFINE n == row[sess[t]].auth + 1
           o == [NoOp EXCEPT !.kind = "rotate", !.st = "bumped", !.exp = sess[t], !.next = n]
           a(s) == [row[s] EXCEPT !.auth = row[s].auth + 1]
<1>0. TypeOK /\ row \in [Sids -> RowType]
  BY TypeForm DEF IInv
<1>1. n \in Nat /\ sess[t] \in 0..MaxSid
  BY <1>0, TypeForm DEF ChangeSecurity, Active, RowType
<1>2. /\ op' = [op EXCEPT ![t] = o] /\ Input
      /\ UNCHANGED <<jar, sess, boot, run, ref, call, bus, lock, faults, gone, torn>>
  BY DEF ChangeSecurity
<1>3. PICK same \in SUBSET {s \in Sids \ {sess[t]} : Active(s)} :
        row' = [s \in Sids |-> IF s \in same \cup {sess[t]} THEN a(s) ELSE row[s]]
  BY DEF ChangeSecurity
<1>4. \A s \in Sids : a(s) \in RowType /\ a(s).status = row[s].status /\ a(s).cur = row[s].cur
  <2>1. ASSUME NEW s \in Sids, NEW v \in Nat
        PROVE  LET q == [row[s] EXCEPT !.auth = v]
               IN  q \in RowType /\ q.status = row[s].status /\ q.cur = row[s].cur
    BY <1>0 DEF RowType
  <2>2. \A s \in Sids : row[s].auth + 1 \in Nat
    BY <1>0 DEF RowType
  <2> QED
    BY <2>1, <2>2
<1> HIDE DEF n, a
<1>5. o \in Operation /\ o.kind = "rotate" /\ o.tok = NoToken
  BY <1>1, EmptyForm DEF Operation
<1> HIDE DEF o
<1>6. row' \in [Sids -> RowType] /\ \A s \in Sids : row'[s].status = row[s].status /\ row'[s].cur = row[s].cur
  BY <1>0, <1>3, <1>4
<1>7. op' \in [Tabs -> Operation] /\ \A u \in Tabs : op'[u] \in {op[u], o}
  BY <1>0, <1>2, <1>5, TypeForm
<1>8. \A u \in Tabs : op'[u] = op[u] \/ (op'[u].kind \notin Opens /\ Known(op'[u].tok.sid))
  BY <1>5, <1>7, EmptyForm DEF Known
<1>9. TypeOK'
  <2>1. inputs' \in 0..MaxInputs
    BY <1>0, <1>2, InputForm
  <2> QED
    BY <1>0, <1>2, <1>6, <1>7, <2>1 DEF TypeOK, RowType
<1> QED
  BY <1>2, <1>6, <1>8, <1>9, ShutKept DEF IInv

(* The operation moves on; sessions may end, and a database may fail.      *)
LEMMA OperationKept ==
  ASSUME IInv, NEW t \in Tabs, op[t].kind = "rotate", NEW o \in Operation,
         o.kind = op[t].kind, o.tok = op[t].tok, op' = [op EXCEPT ![t] = o],
         UNCHANGED <<jar, sess, boot, run, ref, call, bus, lock, inputs, gone, torn>>,
         faults' = faults \/ (faults < MaxFaults /\ faults' = faults + 1),
         row' \in [Sids -> RowType],
         \A s \in Sids : /\ row'[s].status = row[s].status
                            \/ (row[s].status = "active" /\ row'[s].status = "revoked")
                         /\ row'[s].cur = row[s].cur
  PROVE  IInv'
<1>0. TypeOK /\ RowShape
  BY DEF IInv
<1>1. op' \in [Tabs -> Operation] /\ op'[t] = o /\ \A u \in Tabs : u # t => op'[u] = op[u]
  BY <1>0, TypeForm
<1>2. faults' \in 0..MaxFaults /\ (faults' = 0 => faults = 0)
  BY <1>0 DEF TypeOK
<1>3. TypeOK'
  BY <1>0, <1>1, <1>2 DEF TypeOK, RowType
<1>4. \A u \in Tabs : op'[u] = op[u] \/ (op'[u].kind \notin Opens /\ Known(op'[u].tok.sid))
  BY <1>0, <1>1 DEF RowShape
<1> QED
  BY <1>2, <1>3, <1>4, ShutKept DEF IInv

LEMMA AdvanceStep == ASSUME IInv, NEW t \in Tabs, AdvanceSession(t) PROVE IInv'
<1> DEFINE s == op[t].exp
           d == [op[t] EXCEPT !.st = "advanced", !.next = 0]
           f == [op[t] EXCEPT !.st = "resp", !.ans = "error", !.next = 0]
<1>0. TypeOK /\ row \in [Sids -> RowType] /\ op[t] \in Operation
  BY TypeForm DEF IInv
<1>1. d \in Operation /\ d.kind = op[t].kind /\ d.tok = op[t].tok
  BY <1>0, ZenonT(60) DEF Operation
<1>2. f \in Operation /\ f.kind = op[t].kind /\ f.tok = op[t].tok
  BY <1>0, ZenonT(60) DEF Operation
<1>3. /\ op[t].kind = "rotate"
      /\ UNCHANGED <<jar, sess, boot, run, ref, call, bus, lock, inputs, gone, torn>>
  BY DEF AdvanceSession
<1>a. CASE /\ Active(s) /\ op' = [op EXCEPT ![t] = d] /\ UNCHANGED faults
           /\ \E v \in {op[t].next, row[s].auth} : row' = [row EXCEPT ![s].ver = v]
  <2>1. PICK v \in {op[t].next, row[s].auth} : row' = [row EXCEPT ![s].ver = v]
    BY <1>a
  <2>2. s \in Sids /\ v \in Nat
    BY <1>0, <1>a DEF Active, Operation, RowType
  <2> DEFINE r == [row[s] EXCEPT !.ver = v]
  <2> HIDE DEF s
  <2>3. r \in RowType /\ r.status = row[s].status /\ r.cur = row[s].cur
    BY <1>0, <2>2 DEF RowType
  <2>4. row' = [row EXCEPT ![s] = r]
    BY <2>1
  <2> HIDE DEF r, d, f
  <2>5. row' \in [Sids -> RowType] /\ \A q \in Sids : row'[q].status = row[q].status /\ row'[q].cur = row[q].cur
    BY <1>0, <2>2, <2>3, <2>4
  <2> QED
    BY <1>1, <1>3, <1>a, <2>5, OperationKept
<1>b. CASE /\ op' = [op EXCEPT ![t] = f] /\ UNCHANGED row
           /\ faults' = faults \/ (faults < MaxFaults /\ faults' = faults + 1)
  <2> HIDE DEF d, f, s
  <2> QED
    BY <1>0, <1>2, <1>3, <1>b, OperationKept
<1> QED
  BY <1>a, <1>b DEF AdvanceSession

LEMMA RevokeOthersStep == ASSUME IInv, NEW t \in Tabs, RevokeOthers(t) PROVE IInv'
<1> DEFINE d == [op[t] EXCEPT !.st = "resp", !.ans = "done"]
           f == [op[t] EXCEPT !.st = "resp", !.ans = "error"]
           others == {s \in Sids \ {op[t].exp} : Active(s)}
<1>0. TypeOK /\ row \in [Sids -> RowType] /\ op[t] \in Operation
  BY TypeForm DEF IInv
<1>1. d \in Operation /\ d.kind = op[t].kind /\ d.tok = op[t].tok
  BY <1>0, ZenonT(60) DEF Operation
<1>2. f \in Operation /\ f.kind = op[t].kind /\ f.tok = op[t].tok
  BY <1>0, ZenonT(60) DEF Operation
<1>3. /\ op[t].kind = "rotate"
      /\ UNCHANGED <<jar, sess, boot, run, ref, call, bus, lock, inputs, gone, torn>>
  BY DEF RevokeOthers
<1>a. CASE /\ op' = [op EXCEPT ![t] = d] /\ UNCHANGED faults
           /\ \E since \in SUBSET others :
                row' = [s \in Sids |-> IF s \in since \/ (s \in others /\ Outdated(s))
                                       THEN [row[s] EXCEPT !.status = "revoked"] ELSE row[s]]
  <2>1. PICK since \in SUBSET others :
          row' = [s \in Sids |-> IF s \in since \/ (s \in others /\ Outdated(s))
                                 THEN [row[s] EXCEPT !.status = "revoked"] ELSE row[s]]
    BY <1>a
  <2> DEFINE S == {s \in others : s \in since \/ Outdated(s)}
  <2>2. row' = [s \in Sids |-> IF s \in S THEN [row[s] EXCEPT !.status = "revoked"] ELSE row[s]]
    BY <2>1
  <2>3. \A s \in S : s \in Sids /\ row[s].status = "active"
    BY DEF Active
  <2> HIDE DEF S, d, f, others
  <2>4. /\ row' \in [Sids -> RowType]
        /\ \A s \in Sids : /\ row'[s].status = row[s].status
                              \/ (row[s].status = "active" /\ row'[s].status = "revoked")
                           /\ row'[s].cur = row[s].cur
    BY <1>0, <2>2, <2>3, RowsShut
  <2> QED
    BY <1>1, <1>3, <1>a, <2>4, OperationKept
<1>b. CASE /\ op' = [op EXCEPT ![t] = f] /\ UNCHANGED row
           /\ faults < MaxFaults /\ faults' = faults + 1
  <2> HIDE DEF d, f, others
  <2> QED
    BY <1>0, <1>2, <1>3, <1>b, OperationKept
<1> QED
  BY <1>a, <1>b DEF RevokeOthers

-----------------------------------------------------------------------------
(* Sign-in and sign-out in the browser                                     *)

LEMMA LoginStep == ASSUME IInv, NEW t \in Tabs, Login(t) PROVE IInv'
<1>0. /\ TypeOK /\ ExchangeShape /\ LockShape /\ CurrentShape
      /\ RowShape /\ LoginShape /\ SecretShape
      /\ \A u \in Tabs : gone[u] \subseteq Sids
  BY DEF IInv, TypeOK
<1>1. /\ Input /\ op[t].kind = "none"
      /\ UNCHANGED <<jar, sess, boot, run, ref, call, bus, lock, faults, gone, torn>>
  BY DEF Login
<1>2. PICK s \in Sids, way \in Opens :
       /\ row[s].status = "none"
       /\ row' = [row EXCEPT ![s].status = "active"]
       /\ op' = [op EXCEPT ![t] = [NoOp EXCEPT !.kind = way, !.st = "resp",
                                               !.tok = [sid |-> s, gen |-> 0]]]
  BY DEF Login
<1> DEFINE k == [sid |-> s, gen |-> 0]
           o == [NoOp EXCEPT !.kind = way, !.st = "resp", !.tok = k]
           r == [row[s] EXCEPT !.status = "active"]
<1>3. k \in Token /\ k.sid = s /\ k.gen = 0
  BY EmptyForm DEF Token
<1>4. r \in RowType /\ r.status = "active" /\ r.cur = row[s].cur
  BY <1>0, TypeForm DEF RowType
<1>5. op' = [op EXCEPT ![t] = o] /\ row' = [row EXCEPT ![s] = r]
  BY <1>2
<1> HIDE DEF k, r
<1>6. o \in Operation /\ o.kind \in Opens /\ o.st = "resp" /\ o.tok = k
  BY <1>3, EmptyForm DEF Operation
<1> HIDE DEF o
<1>7. /\ op' \in [Tabs -> Operation] /\ op'[t] = o /\ \A u \in Tabs : u # t => op'[u] = op[u]
      /\ row' \in [Sids -> RowType] /\ row'[s] = r /\ \A q \in Sids : q # s => row'[q] = row[q]
  BY <1>0, <1>4, <1>5, <1>6, TypeForm
<1>8. TypeOK'
  <2>1. inputs' \in 0..MaxInputs
    BY <1>0, <1>1, InputForm
  <2> QED
    BY <1>0, <1>1, <1>7, <2>1 DEF TypeOK, RowType
<1>9. ExchangeShape' /\ LockShape' /\ CurrentShape'
  BY <1>0, <1>1, LockKept, CurrentKept DEF ExchangeShape
<1>10. RowShape'
  BY <1>0, <1>1, <1>2, <1>3, <1>4, <1>6, <1>7 DEF RowShape, Known
<1>11. LoginShape'
  <2>1. /\ row'[s].cur = 0 /\ jar.sid # s
        /\ \A x \in Slots : ref[x].tok.sid # s
        /\ \A u \in Tabs : op[u].tok.sid # s /\ s \notin gone[u]
    BY <1>0, <1>2, <1>4, <1>7 DEF RowShape, Known
  <2> QED
    BY <1>0, <1>1, <1>3, <1>6, <1>7, <2>1 DEF LoginShape
<1>12. SecretShape'
  BY <1>0, <1>1, <1>2, <1>7, SecretKept
<1> QED
  BY <1>8, <1>9, <1>10, <1>11, <1>12 DEF IInv

(* What an operation shows when it is handled: nothing, or a session that  *)
(* has been opened; a refresh under way is superseded.                     *)
LEMMA ShowStep ==
  ASSUME IInv, NEW t \in Tabs, NEW s \in 0..MaxSid, Known(s),
         op' = [op EXCEPT ![t] = NoOp], bus' \in [Tabs -> Seq(Event)],
         UNCHANGED <<row, jar, ref, call, lock, inputs, faults, gone, torn>>,
         \/ UNCHANGED <<sess, boot, run>>
         \/ /\ sess' = [sess EXCEPT ![t] = s]
            /\ boot' = [boot EXCEPT ![t] = "complete"]
            /\ run' = BumpEpoch(t)
  PROVE  IInv'
<1>0. TypeOK /\ LockShape /\ CurrentShape
  BY DEF IInv
<1>1. /\ op' \in [Tabs -> Operation] /\ \A u \in Tabs : op'[u] \in {op[u], NoOp}
      /\ sess' \in [Tabs -> 0..MaxSid] /\ \A u \in Tabs : sess'[u] = sess[u] \/ (u = t /\ sess'[u] = s)
  <2>1. op' \in [Tabs -> Operation] /\ \A u \in Tabs : op'[u] \in {op[u], NoOp}
    BY <1>0, TypeForm, EmptyForm
  <2>2. sess' = sess \/ sess' = [sess EXCEPT ![t] = s]
    OBVIOUS
  <2>3. sess' \in [Tabs -> 0..MaxSid] /\ \A u \in Tabs : sess'[u] = sess[u] \/ (u = t /\ sess'[u] = s)
    <3>1. sess \in [Tabs -> 0..MaxSid]
      BY <1>0, TypeForm
    <3>2. CASE sess' = sess
      BY <3>1, <3>2
    <3>3. CASE sess' = [sess EXCEPT ![t] = s]
      BY <3>1, <3>3
    <3> QED
      BY <2>2, <3>2, <3>3
  <2> QED
    BY <2>1, <2>3
<1>2. run' \in [Tabs -> Runner] /\ boot' \in [Tabs -> {"idle", "checking", "complete"}]
  <2>1. CASE UNCHANGED <<sess, boot, run>>
    BY <1>0, <2>1 DEF TypeOK
  <2>2. CASE boot' = [boot EXCEPT ![t] = "complete"] /\ run' = BumpEpoch(t)
    BY <1>0, <2>2, BumpForm DEF TypeOK
  <2> QED
    BY <2>1, <2>2
<1>3. TypeOK'
  BY <1>0, <1>1, <1>2 DEF TypeOK
<1>4. LockShape' /\ CurrentShape'
  BY <1>0, <1>1, LockKept, CurrentKept, BumpKept
<1>5. \A u \in Tabs : op'[u] = op[u] \/ (op'[u].kind \notin Opens /\ Known(op'[u].tok.sid))
  BY <1>1, EmptyForm DEF Known
<1>6. ExchangeShape' /\ RowShape' /\ LoginShape' /\ SecretShape'
  BY <1>1, <1>5, QuietKept
<1> QED
  BY <1>3, <1>4, <1>6 DEF IInv

LEMMA HandleLoginStep == ASSUME IInv, NEW t \in Tabs, HandleLogin(t) PROVE IInv'
<1> DEFINE s == op[t].tok.sid
<1>0. TypeOK /\ s \in 0..MaxSid /\ Known(s)
  BY TypeForm DEF IInv, RowShape, Operation, Token
<1>1. /\ op' = [op EXCEPT ![t] = NoOp]
      /\ UNCHANGED <<row, jar, ref, call, lock, inputs, faults, gone, torn>>
      /\ \/ /\ sess' = [sess EXCEPT ![t] = s] /\ boot' = [boot EXCEPT ![t] = "complete"]
            /\ run' = BumpEpoch(t) /\ bus' = Publish(t, "authenticated", s)
         \/ UNCHANGED <<sess, boot, run, bus>>
  BY DEF HandleLogin
<1> HIDE DEF s
<1>2. bus' \in [Tabs -> Seq(Event)]
  BY <1>0, <1>1, PublishForm DEF TypeOK
<1> QED
  BY <1>0, <1>1, <1>2, ShowStep

LEMMA HandleRotationStep == ASSUME IInv, NEW t \in Tabs, HandleRotation(t) PROVE IInv'
<1>0. TypeOK /\ sess[t] \in 0..MaxSid /\ Known(sess[t])
  BY TypeForm DEF IInv, RowShape
<1>1. /\ op' = [op EXCEPT ![t] = NoOp]
      /\ UNCHANGED <<row, jar, ref, call, bus, lock, inputs, faults, gone, torn>>
      /\ \/ /\ sess' = [sess EXCEPT ![t] = sess[t]] /\ boot' = [boot EXCEPT ![t] = "complete"]
            /\ run' = BumpEpoch(t)
         \/ UNCHANGED <<sess, boot, run>>
  BY DEF HandleRotation
<1>2. bus' \in [Tabs -> Seq(Event)]
  BY <1>0, <1>1 DEF TypeOK
<1> QED
  BY <1>0, <1>1, <1>2, ShowStep

LEMMA SendLogoutStep == ASSUME IInv, NEW t \in Tabs, SendLogout(t) PROVE IInv'
<1>0. TypeOK /\ LockShape /\ CurrentShape /\ RowShape
  BY DEF IInv
<1>1. PICK b \in BOOLEAN :
        op' = [op EXCEPT ![t] = [NoOp EXCEPT !.kind = "logout", !.st = "req",
                !.exp = sess[t], !.bearer = b, !.tok = jar,
                !.first = (op[t].kind = "none")]]
  BY DEF SendLogout
<1>2. /\ inputs' = inputs \/ Input
      /\ UNCHANGED <<row, jar, sess, boot, run, ref, call, bus, lock, faults, gone, torn>>
  BY DEF SendLogout
<1> DEFINE f == (op[t].kind = "none")
           o == [NoOp EXCEPT !.kind = "logout", !.st = "req", !.exp = sess[t],
                             !.bearer = b, !.tok = jar, !.first = f]
<1>3. op' = [op EXCEPT ![t] = o] /\ f \in BOOLEAN
  BY <1>1
<1> HIDE DEF f
<1>4. o \in Operation /\ o.kind = "logout" /\ o.tok = jar
  <2>1. sess[t] \in 0..MaxSid /\ jar \in Token
    BY <1>0, TypeForm
  <2> QED
    BY <1>3, <2>1, EmptyForm DEF Operation
<1> HIDE DEF o
<1>5. op' \in [Tabs -> Operation] /\ \A u \in Tabs : op'[u] \in {op[u], o}
  BY <1>0, <1>3, <1>4, TypeForm
<1>6. TypeOK'
  <2>1. inputs' \in 0..MaxInputs
    BY <1>0, <1>2, InputForm DEF TypeOK
  <2> QED
    BY <1>0, <1>2, <1>5, <2>1 DEF TypeOK
<1>7. \A u \in Tabs : op'[u] = op[u] \/ (op'[u].kind \notin Opens /\ Known(op'[u].tok.sid))
  BY <1>0, <1>4, <1>5 DEF RowShape
<1>8. LockShape' /\ CurrentShape'
  BY <1>0, <1>2, LockKept, CurrentKept
<1> QED
  BY <1>2, <1>6, <1>7, <1>8, QuietKept DEF IInv

(* The cookie of a sign-in arrives: until now nobody has used its secret.  *)
LEMMA ArriveOpStep == ASSUME IInv, NEW t \in Tabs, ArriveOp(t) PROVE IInv'
<1>0. /\ TypeOK /\ ExchangeShape /\ LockShape /\ CurrentShape
      /\ RowShape /\ LoginShape /\ SecretShape
      /\ \A u \in Tabs : gone[u] \subseteq Sids
  BY DEF IInv, TypeOK
<1> DEFINE o == [op[t] EXCEPT !.st = "back", !.clear = FALSE]
<1>1. o \in Operation /\ o.st = "back" /\ o.kind = op[t].kind /\ o.tok = op[t].tok
  BY <1>0, TypeForm, ZenonT(60) DEF Operation
<1>2. /\ op[t].st = "resp" /\ op' = [op EXCEPT ![t] = o]
      /\ jar' \in {NoToken, jar} \/ (op[t].kind \in Opens /\ jar' = op[t].tok)
      /\ UNCHANGED <<row, sess, boot, run, ref, call, bus, lock, inputs, faults, gone, torn>>
  BY DEF ArriveOp
<1> HIDE DEF o
<1>3. op[t].tok \in Token
  BY <1>0, TypeForm DEF Operation
<1>4. TypeOK'
  <2>1. jar' \in Token
    BY <1>0, <1>2, <1>3, EmptyForm, TypeForm
  <2> QED
    BY <1>0, <1>1, <1>2, <2>1 DEF TypeOK
<1>5. op'[t] = o /\ \A u \in Tabs : u # t => op'[u] = op[u]
  BY <1>0, <1>2, TypeForm
<1>6. ExchangeShape' /\ LockShape' /\ CurrentShape'
  BY <1>0, <1>2, LockKept, CurrentKept DEF ExchangeShape
<1>7. RowShape'
  <2>1. jar'.sid = jar.sid \/ Known(jar'.sid)
    BY <1>0, <1>2, EmptyForm DEF RowShape, Known
  <2>2. \A u \in Tabs : op'[u].tok.sid = op[u].tok.sid
    BY <1>1, <1>5
  <2> QED
    BY <1>0, <1>2, <2>1, <2>2, RowKept
<1>8. LoginShape'
  <2>1. jar'.sid \in {NoSid, jar.sid} \/ (op[t].kind \in Opens /\ jar'.sid = op[t].tok.sid)
    BY <1>2, EmptyForm
  <2> QED
    BY <1>0, <1>1, <1>2, <1>5, <2>1, EmptyForm DEF LoginShape
<1>9. SecretShape'
  <2> SUFFICES ASSUME Orderly PROVE SecretShape'
    BY <1>2 DEF SecretShape
  <2>1. ref'[Ghost] = NoExchange /\ \A x \in Slots : HonestNext(x)
    BY <1>0, <1>2 DEF SecretShape, HonestNext, Lives, Active
  <2>2. \/ ~Lives(jar'.sid) \/ jar'.gen = row'[jar'.sid].cur
        \/ \E x \in Slots : Granted(ref'[x]) /\ ref'[x].tok.sid = jar'.sid
    <3>1. CASE jar' = NoToken
      BY <3>1, EmptyForm DEF Lives
    <3>2. CASE jar' = jar
      BY <1>0, <1>2, <3>2 DEF SecretShape, Lives, Active
    <3>3. CASE op[t].kind \in Opens /\ jar' = op[t].tok
      BY <1>0, <1>2, <3>3 DEF LoginShape
    <3> QED
      BY <1>2, <3>1, <3>2, <3>3
  <2> QED
    BY <2>1, <2>2, SecretForm
<1> QED
  BY <1>4, <1>6, <1>7, <1>8, <1>9 DEF IInv

LEMMA LoseOpStep == ASSUME IInv, NEW t \in Tabs, LoseOp(t) PROVE IInv'
<1>0. /\ TypeOK /\ ExchangeShape /\ LockShape /\ CurrentShape
      /\ RowShape /\ LoginShape
      /\ \A u \in Tabs : gone[u] \subseteq Sids
  BY DEF IInv, TypeOK
<1>1. /\ op' = [op EXCEPT ![t] = NoOp] /\ faults < MaxFaults /\ faults' = faults + 1
      /\ UNCHANGED <<row, jar, sess, boot, run, ref, call, bus, lock, inputs, gone, torn>>
  BY DEF LoseOp
<1>2. TypeOK'
  BY <1>0, <1>1, EmptyForm DEF TypeOK
<1>3. \A u \in Tabs : op'[u] \in {op[u], NoOp}
  BY <1>0, <1>1, TypeForm
<1>4. ExchangeShape' /\ LockShape' /\ CurrentShape'
  BY <1>0, <1>1, LockKept, CurrentKept DEF ExchangeShape
<1>5. RowShape'
  <2>1. \A u \in Tabs : op'[u].tok.sid = op[u].tok.sid \/ Known(op'[u].tok.sid)
    BY <1>3, EmptyForm DEF Known
  <2> QED
    BY <1>0, <1>1, <2>1, RowKept
<1>6. LoginShape'
  <2>1. \A u \in Tabs : op'[u].kind \in Opens => op'[u] = op[u]
    BY <1>3, EmptyForm
  <2> QED
    BY <1>0, <1>1, <2>1, LoginKept
<1>7. SecretShape'
  BY <1>0, <1>1 DEF SecretShape, TypeOK
<1> QED
  BY <1>2, <1>4, <1>5, <1>6, <1>7 DEF IInv

(* A sign-out is handled: what the tab showed is revoked, or was not       *)
(* active when it was; a first mismatch asks refresh.                      *)
LEMMA HandleLogoutStep == ASSUME IInv, NEW t \in Tabs, HandleLogout(t) PROVE IInv'
<1>0. /\ TypeOK /\ ExchangeShape /\ LockShape /\ CurrentShape
      /\ RowShape /\ LoginShape /\ SecretShape
      /\ \A u \in Tabs : gone[u] \subseteq Sids
      /\ sess[t] \in 0..MaxSid
  BY TypeForm DEF IInv, TypeOK
<1>1. UNCHANGED <<row, jar, ref, call, lock, inputs, faults, torn>> /\ op[t].kind = "logout"
  BY DEF HandleLogout
<1>a. CASE /\ op' = [op EXCEPT ![t] = NoOp] /\ sess' = [sess EXCEPT ![t] = NoSid]
           /\ boot' = [boot EXCEPT ![t] = "complete"] /\ run' = BumpEpoch(t)
           /\ bus' = Publish(t, "signed_out", sess[t])
           /\ gone' = [gone EXCEPT ![t] = @ \cup (IF sess[t] # NoSid /\ ~Active(sess[t])
                                                  THEN {sess[t]} ELSE {})]
  <2> DEFINE more == IF sess[t] # NoSid /\ ~Active(sess[t]) THEN {sess[t]} ELSE {}
  <2>1. \A s \in more : s \in Sids /\ row[s].status = "revoked"
    <3>1. Known(sess[t])
      BY <1>0 DEF RowShape
    <3>2. sess[t] \in Sids => row[sess[t]].status \in {"none", "active", "revoked"}
      BY <1>0, TypeForm DEF RowType
    <3> QED
      BY <1>0, <3>1, <3>2, SidForm DEF Known, Active
  <2>2. gone' = [gone EXCEPT ![t] = gone[t] \cup more]
    BY <1>a
  <2> HIDE DEF more
  <2>3. gone' \in [Tabs -> SUBSET Sids] /\ gone'[t] = gone[t] \cup more
        /\ \A u \in Tabs : u # t => gone'[u] = gone[u]
    BY <1>0, <2>1, <2>2 DEF TypeOK
  <2>4. /\ \A u \in Tabs : op'[u] \in {op[u], NoOp} /\ sess'[u] \in {sess[u], NoSid}
        /\ \A u \in Tabs : u # t => sess'[u] = sess[u]
    BY <1>0, <1>a, TypeForm
  <2>5. TypeOK'
    <3>1. bus' \in [Tabs -> Seq(Event)]
      BY <1>0, <1>a, PublishForm
    <3>2. run' \in [Tabs -> Runner]
      BY <1>0, <1>a, BumpForm
    <3> QED
      BY <1>0, <1>1, <1>a, <2>3, <3>1, <3>2, EmptyForm DEF TypeOK
  <2>6. LockShape' /\ CurrentShape'
    BY <1>0, <1>1, <1>a, <2>3, <2>4, BumpKept
  <2>7. ExchangeShape' /\ SecretShape'
    BY <1>0, <1>1, SecretKept DEF ExchangeShape
  <2>8. RowShape'
    BY <1>0, <1>1, <2>1, <2>3, <2>4, EmptyForm DEF RowShape, Known
  <2>9. LoginShape'
    <3>1. op'[t].kind = "none" /\ \A u \in Tabs : op'[u].kind \in Opens => op'[u] = op[u] /\ u # t
      BY <1>0, <1>1, <1>a, <2>4, EmptyForm, TypeForm
    <3> QED
      BY <1>0, <1>1, <2>3, <3>1 DEF LoginShape
  <2> QED
    BY <2>5, <2>6, <2>7, <2>8, <2>9 DEF IInv
<1>b. CASE /\ \/ op' = [op EXCEPT ![t].st = "refresh"] /\ BeginRefresh(t)
              \/ op' = [op EXCEPT ![t] = NoOp] /\ UNCHANGED run
           /\ UNCHANGED <<sess, boot, bus, gone>>
  <2> DEFINE o == [op[t] EXCEPT !.st = "refresh"]
  <2>1. o \in Operation /\ o.kind = "logout" /\ o.tok = op[t].tok
    BY <1>0, <1>1, TypeForm DEF Operation
  <2>2. op' = [op EXCEPT ![t] = o] \/ op' = [op EXCEPT ![t] = NoOp]
    BY <1>b
  <2> HIDE DEF o
  <2>3. op' \in [Tabs -> Operation] /\ \A u \in Tabs : op'[u] \in {op[u], NoOp} \/ (u = t /\ op'[u] = o)
    BY <1>0, <2>1, <2>2, TypeForm, EmptyForm
  <2>4. \A u \in Tabs : op'[u] = op[u] \/ (op'[u].kind \notin Opens /\ Known(op'[u].tok.sid))
    BY <1>0, <2>1, <2>3, EmptyForm DEF RowShape, Known
  <2>5. BeginRefresh(t) \/ UNCHANGED run
    BY <1>b
  <2>6. run' \in [Tabs -> Runner]
    BY <1>0, <2>5, BeginForm, TypeForm
  <2>7. TypeOK'
    BY <1>0, <1>1, <1>b, <2>3, <2>6 DEF TypeOK
  <2>8. LockShape' /\ CurrentShape'
    BY <1>0, <1>1, <1>b, <2>5, BeginKept, LockKept, CurrentKept
  <2> QED
    BY <1>1, <1>b, <2>4, <2>7, <2>8, QuietKept DEF IInv
<1> QED
  BY <1>a, <1>b DEF HandleLogout

-----------------------------------------------------------------------------
(* Page loads and events                                                   *)

LEMMA PageLoadStep ==
  ASSUME IInv, NEW t \in Tabs, PageLoad(t), inputs' \in 0..MaxInputs
  PROVE  IInv'
<1>0. /\ TypeOK /\ ExchangeShape /\ LockShape /\ CurrentShape
      /\ RowShape /\ LoginShape /\ SecretShape
      /\ \A u \in Tabs : gone[u] \subseteq Sids
      /\ t \in Slots /\ Ghost \in Slots /\ t # Ghost
  BY DEF IInv, TypeOK, Slots
<1>1. /\ sess' = [sess EXCEPT ![t] = NoSid] /\ boot' = [boot EXCEPT ![t] = "idle"]
      /\ run' = [run EXCEPT ![t] = NoRun] /\ op' = [op EXCEPT ![t] = NoOp]
      /\ call' = [call EXCEPT ![t] = "none"] /\ bus' = [bus EXCEPT ![t] = <<>>]
      /\ lock' = (IF lock = t THEN NoTab ELSE lock)
      /\ UNCHANGED <<row, jar, gone, torn>>
      /\ faults' = faults \/ (faults < MaxFaults /\ faults' = faults + 1)
  BY DEF PageLoad, ReleaseLock
<1>2. /\ ref' \in [Slots -> Exchange] /\ ref'[t] = NoExchange
      /\ ref'[Ghost] = (IF InFlight(t) THEN ref[t] ELSE ref[Ghost])
      /\ \A x \in Slots : x \notin {t, Ghost} => ref'[x] = ref[x]
  <2>1. ref' = [[ref EXCEPT ![t] = NoExchange] EXCEPT ![Ghost] = IF InFlight(t) THEN ref[t] ELSE ref[Ghost]]
    BY <1>0 DEF PageLoad
  <2> QED
    BY <1>0, <2>1, TypeForm, EmptyForm
<1>3. TypeOK'
  <2>1. faults' \in 0..MaxFaults
    BY <1>0, <1>1 DEF TypeOK
  <2>2. bus' \in [Tabs -> Seq(Event)]
    BY <1>0, <1>1 DEF TypeOK
  <2> QED
    BY <1>0, <1>1, <1>2, <2>1, <2>2, EmptyForm DEF TypeOK
<1>4. /\ run'[t] = NoRun
      /\ \A u \in Tabs : u # t => run'[u] = run[u] /\ ref'[u] = ref[u] /\ sess'[u] = sess[u]
      /\ \A u \in Tabs : op'[u] \in {op[u], NoOp} /\ sess'[u] \in {sess[u], NoSid}
  BY <1>0, <1>1, <1>2, TypeForm
<1>5. ExchangeShape'
  BY <1>0, <1>2, EmptyForm DEF ExchangeShape
<1>6. LockShape'
  BY <1>0, <1>1, <1>2, <1>4, EmptyForm DEF LockShape
<1>7. CurrentShape'
  BY <1>0, <1>1, <1>4, EmptyForm, CurrentKept
<1>8. \A x \in Slots : \/ ref'[x].tok.sid = NoSid
                       \/ \E y \in Slots : ref'[x].tok.sid = ref[y].tok.sid
  BY <1>0, <1>2, EmptyForm
<1>9. RowShape'
  <2>1. \A x \in Slots : Known(ref'[x].tok.sid)
    BY <1>0, <1>8, EmptyForm DEF RowShape, Known
  <2>2. \A u \in Tabs : sess'[u] = sess[u] \/ Known(sess'[u])
    BY <1>4, EmptyForm DEF Known
  <2>3. \A u \in Tabs : op'[u].tok.sid = op[u].tok.sid \/ Known(op'[u].tok.sid)
    BY <1>4, EmptyForm DEF Known
  <2> QED
    BY <1>0, <1>1, <2>1, <2>2, <2>3, RowKept
<1>10. LoginShape'
  <2>1. \A u \in Tabs : op'[u].kind \in Opens => op'[u] = op[u]
    BY <1>4, EmptyForm
  <2> QED
    BY <1>0, <1>1, <1>8, <2>1, LoginKept
<1>11. SecretShape'
  <2>1. CASE InFlight(t)
    <3>1. faults' = faults + 1
      BY <2>1 DEF PageLoad
    <3> QED
      BY <1>0, <3>1 DEF SecretShape, TypeOK
  <2>2. CASE ~InFlight(t)
    <3>1. faults' = faults
      BY <2>2 DEF PageLoad
    <3>2. \A x \in Slots : ref'[x] = ref[x] \/ (ref'[x] = NoExchange /\ ~Granted(ref[x]))
      BY <1>2, <2>2 DEF InFlight
    <3> QED
      BY <1>0, <1>1, <3>1, <3>2, SecretKept
  <2> QED
    BY <2>1, <2>2
<1> QED
  BY <1>3, <1>5, <1>6, <1>7, <1>9, <1>10, <1>11 DEF IInv

LEMMA ReloadStep == ASSUME IInv, NEW t \in Tabs, Reload(t) PROVE IInv'
<1>1. inputs' \in 0..MaxInputs
  BY InputForm DEF IInv, TypeOK, Reload
<1> QED
  BY <1>1, PageLoadStep DEF Reload

LEMMA TailForm ==
  ASSUME TypeOK, NEW t \in Tabs, bus[t] # <<>>
  PROVE  [bus EXCEPT ![t] = Tail(@)] \in [Tabs -> Seq(Event)]
<1>1. bus \in [Tabs -> Seq(Event)] /\ Tail(bus[t]) \in Seq(Event)
  BY HeadTailProperties DEF TypeOK
<1> QED
  BY <1>1

LEMMA DeliverStep == ASSUME IInv, NEW t \in Tabs, DeliverEvent(t) PROVE IInv'
<1>0. /\ TypeOK /\ LockShape /\ CurrentShape /\ bus[t] # <<>>
      /\ [bus EXCEPT ![t] = Tail(@)] \in [Tabs -> Seq(Event)]
  BY TailForm DEF IInv, DeliverEvent
<1>a. CASE PageLoad(t) /\ UNCHANGED inputs
  BY <1>a, PageLoadStep DEF IInv, TypeOK
<1>b. CASE /\ sess' = [sess EXCEPT ![t] = NoSid] /\ boot' = [boot EXCEPT ![t] = "complete"]
           /\ run' = BumpEpoch(t) /\ bus' = [bus EXCEPT ![t] = Tail(@)]
           /\ UNCHANGED <<row, jar, ref, op, call, lock, inputs, faults, gone, torn>>
  <2>1. TypeOK'
    BY <1>0, <1>b, BumpForm, EmptyForm DEF TypeOK
  <2>2. \A u \in Tabs : sess'[u] \in {NoSid, sess[u]} /\ (u # t => sess'[u] = sess[u])
    BY <1>0, <1>b, TypeForm
  <2>3. LockShape' /\ CurrentShape'
    BY <1>0, <1>b, <2>2, BumpKept
  <2>4. \A u \in Tabs : sess'[u] = sess[u] \/ Known(sess'[u])
    BY <2>2, EmptyForm DEF Known
  <2> QED
    BY <1>b, <2>1, <2>3, <2>4, QuietKept DEF IInv
<1>c. CASE /\ bus' = [bus EXCEPT ![t] = Tail(@)]
           /\ UNCHANGED <<row, jar, sess, boot, run, ref, op, call, lock, inputs, faults, gone, torn>>
  <2>1. TypeOK'
    BY <1>0, <1>c DEF TypeOK
  <2> QED
    BY <1>0, <1>c, <2>1, LockKept, CurrentKept, QuietKept DEF IInv
<1> QED
  BY <1>a, <1>b, <1>c DEF DeliverEvent

LEMMA DropStep == ASSUME IInv, NEW t \in Tabs, DropEvent(t) PROVE IInv'
<1>0. /\ TypeOK /\ ExchangeShape /\ LockShape /\ CurrentShape
      /\ RowShape /\ LoginShape
      /\ \A u \in Tabs : gone[u] \subseteq Sids
      /\ [bus EXCEPT ![t] = Tail(@)] \in [Tabs -> Seq(Event)]
  BY TailForm DEF IInv, TypeOK, DropEvent
<1>1. /\ bus' = [bus EXCEPT ![t] = Tail(@)] /\ faults < MaxFaults /\ faults' = faults + 1
      /\ UNCHANGED <<row, jar, sess, boot, run, ref, op, call, lock, inputs, gone, torn>>
  BY DEF DropEvent
<1>2. TypeOK'
  BY <1>0, <1>1 DEF TypeOK
<1>3. ExchangeShape' /\ LockShape' /\ CurrentShape' /\ RowShape' /\ LoginShape'
  BY <1>0, <1>1, LockKept, CurrentKept, RowKept, LoginKept DEF ExchangeShape
<1>4. SecretShape'
  BY <1>0, <1>1 DEF SecretShape, TypeOK
<1> QED
  BY <1>2, <1>3, <1>4 DEF IInv

-----------------------------------------------------------------------------
(* The theorems                                                            *)

LEMMA NextIInv == ASSUME IInv, [Next]_vars PROVE IInv'
<1>1. ASSUME NEW t \in Tabs, TabStep(t) PROVE IInv'
  BY <1>1, AskStep, AcquireStep, SendStep, HandleStep, ReplayStep, LoginStep, HandleLoginStep,
     SendLogoutStep, HandleLogoutStep, SecurityStep, AdvanceStep, RevokeOthersStep,
     HandleRotationStep, ReloadStep, DeliverStep, DropStep DEF TabStep
<1>2. CASE ServerStep
  BY <1>2, CheckStep, UserStep, RotateStep, PublishStep, RevokeReusedStep, ArriveStep, LoseStep, LogoutStep, ArriveOpStep,
     LoseOpStep, LapseStep DEF ServerStep
<1>3. CASE UNCHANGED vars
  <2>1. UNCHANGED <<row, jar, sess, boot, run, ref, op, call, bus, lock, inputs, faults, gone, torn>>
    BY <1>3 DEF vars
  <2>2. TypeOK'
    BY <2>1 DEF IInv, TypeOK
  <2> QED
    BY <2>1, <2>2, LockKept, CurrentKept, QuietKept DEF IInv
<1> QED
  BY <1>1, <1>2, <1>3 DEF Next

(* The inductive invariant of the browser session and its server rows.     *)
THEOREM SessionInvariance == Spec => []IInv
<1>1. IInv /\ [Next]_vars => IInv'
  BY NextIInv
<1> QED
  BY InitIInv, <1>1, PTL DEF Spec

(* Type correctness: no tab, page or exchange leaves the states the code   *)
(* knows; the successor of a secret stays in its bound.                    *)
THEOREM SessionTypeCorrect == Spec => []TypeOK
<1>1. IInv => TypeOK
  BY DEF IInv
<1> QED
  BY <1>1, SessionInvariance, PTL

(* navigator.locks: whatever ends a refresh - an outcome, a supersession,  *)
(* a page load - its lock goes with it, and the holder has steps to take.  *)
THEOREM LockHoldersRun == Spec => []LockHolderRuns
<1>1. IInv => LockHolderRuns
  BY DEF IInv, TypeOK, LockShape, LockHolderRuns
<1> QED
  BY <1>1, SessionInvariance, PTL

(* createRefreshRunner never runs out of retries: no 409 RACE is sent, and *)
(* a second AUTH_SESSION_MISMATCH cannot follow the reset.                 *)
THEOREM RefreshStaysInSync == Spec => []NeverOutOfSync
<1>1. ASSUME IInv, NEW t \in Tabs, run[t].pc = "sent", ref[t].st = "back", run[t].current
      PROVE  RetriesRace(t) \/ RetriesMismatch(t) \/ OutcomeKind(t) # "out_of_sync"
  <2>1. ref[t].ans \in {"ok", "mismatch", "unauth", "error"} /\ t \in Slots
    BY <1>1, TypeForm DEF IInv, ExchangeShape, Exchange, Slots
  <2>2. ref[t].ans = "mismatch" => run[t].retry
    BY <1>1 DEF IInv, CurrentShape
  <2> QED
    BY <2>1, <2>2 DEF RetriesMismatch, OutcomeKind
<1>2. IInv => NeverOutOfSync
  BY <1>1 DEF NeverOutOfSync
<1> QED
  BY <1>2, SessionInvariance, PTL

(* What goes wrong is never mended: order, once lost, stays lost.          *)
LEMMA OrderLost == ASSUME IInv, [Next]_vars, Orderly' PROVE Orderly
<1>0. faults \in Nat /\ torn \in BOOLEAN
  BY DEF IInv, TypeOK
<1>1. faults' \in {faults, faults + 1}
  <2>1. ASSUME NEW t \in Tabs, TabStep(t) PROVE faults' \in {faults, faults + 1}
    BY <2>1 DEF TabStep, Resolve, CallUnauthorized, AcquireLock, SendRefresh, HandleRefresh, ReplayCall,
       Login, HandleLogin, SendLogout, HandleLogout, ChangeSecurity, AdvanceSession, RevokeOthers,
       HandleRotation, Reload, PageLoad, DeliverEvent, DropEvent
  <2>2. CASE ServerStep
    BY <2>2 DEF ServerStep, CheckRefresh, CheckUser, RotateRefresh, PublishRotation, RevokeReused, ArriveRefresh,
       LoseRefresh, AuthLogout, ArriveOp, LoseOp, GraceLapses, RevokeElsewhere
  <2> QED
    BY <2>1, <2>2 DEF Next, vars
<1>2. torn' \in {torn, TRUE}
  <2>1. ASSUME NEW t \in Tabs, TabStep(t) PROVE torn' = torn
    BY <2>1 DEF TabStep, Resolve, CallUnauthorized, AcquireLock, SendRefresh, HandleRefresh, ReplayCall,
       Login, HandleLogin, SendLogout, HandleLogout, ChangeSecurity, AdvanceSession, RevokeOthers,
       HandleRotation, Reload, PageLoad, DeliverEvent, DropEvent
  <2>2. CASE ServerStep
    BY <2>2 DEF ServerStep, CheckRefresh, CheckUser, RotateRefresh, PublishRotation, RevokeReused, ArriveRefresh,
       LoseRefresh, AuthLogout, ArriveOp, LoseOp, GraceLapses, RevokeElsewhere
  <2> QED
    BY <2>1, <2>2 DEF Next, vars
<1>3. faults = 0
  BY <1>0, <1>1
<1>4. ~torn
  BY <1>2, Zenon
<1> QED
  BY <1>3, <1>4

(* Only the server's own two steps turn an open request into a refusal.    *)
LEMMA RefusalByServer ==
  ASSUME IInv, [Next]_vars, Orderly', NEW x \in Slots, ref[x].st \in {"req", "read", "checked"},
         ref'[x].ans = "unauth" \/ ref'[x].st = "reuse"
  PROVE  CheckRefresh(x) \/ CheckUser(x) \/ RotateRefresh(x)
<1>0. /\ ref \in [Slots -> Exchange] /\ ref[x].ans = "none" /\ ref[x] # NoExchange
      /\ \A t \in Tabs : run[t].pc # "sent" => ref[t] = NoExchange
      /\ \A t \in Tabs : t \in Slots /\ t # Ghost
  BY TypeForm, EmptyForm DEF IInv, ExchangeShape, LockShape
<1>1. x # Ghost
  BY OrderLost, EmptyForm DEF IInv, SecretShape
<1>2. ref'[x] \notin {ref[x], NoExchange}
  BY <1>0, EmptyForm
<1>3. ASSUME NEW t \in Tabs, ref' = [ref EXCEPT ![t] = NoExchange] PROVE FALSE
  BY <1>0, <1>2, <1>3
<1>4. ASSUME NEW t \in Tabs, TabStep(t) PROVE FALSE
  <2>1. CASE PageLoad(t)
    <3>1. ref' = [[ref EXCEPT ![t] = NoExchange] EXCEPT ![Ghost] = IF InFlight(t) THEN ref[t] ELSE ref[Ghost]]
      BY <1>0, <2>1 DEF PageLoad
    <3> QED
      BY <1>0, <1>1, <1>2, <3>1
  <2>2. CASE HandleRefresh(t)
    BY <1>3, <2>2 DEF HandleRefresh, Finish
  <2>3. CASE SendRefresh(t)
    <3>1. CASE Finish(t, "transient_error")
      BY <1>3, <3>1 DEF Finish
    <3>2. CASE ref' = [ref EXCEPT ![t] = [NoExchange EXCEPT !.st = "req", !.exp = sess[t], !.tok = jar]]
      <4>1. run[t].pc # "sent"
        BY <2>3 DEF SendRefresh
      <4>2. t # x
        BY <1>0, <4>1
      <4> QED
        BY <1>0, <1>2, <3>2, <4>2
    <3> QED
      BY <2>3, <3>1, <3>2 DEF SendRefresh
  <2>4. CASE UNCHANGED ref
    BY <1>2, <2>4
  <2> QED
    BY <1>4, <2>1, <2>2, <2>3, <2>4 DEF TabStep, Resolve, CallUnauthorized, AcquireLock, ReplayCall,
       Login, HandleLogin, SendLogout, HandleLogout, ChangeSecurity, AdvanceSession, RevokeOthers,
       HandleRotation, Reload, DeliverEvent, DropEvent
<1>5. ASSUME NEW y \in Slots, ~(CheckRefresh(x) \/ CheckUser(x) \/ RotateRefresh(x)),
             CheckRefresh(y) \/ CheckUser(y) \/ RotateRefresh(y) \/ PublishRotation(y)
             \/ RevokeReused(y) \/ ArriveRefresh(y) \/ LoseRefresh(y)
      PROVE  FALSE
  <2>1. x # y
    <3>1. CASE LoseRefresh(x)
      <4>1. ref'[x] = IF x = Ghost THEN NoExchange ELSE [NoExchange EXCEPT !.st = "back", !.ans = "error"]
        BY <1>0, <3>1 DEF LoseRefresh
      <4> QED
        BY <1>1, <4>1 DEF NoExchange
    <3> QED
      BY <1>5, <3>1 DEF PublishRotation, RevokeReused, ArriveRefresh
  <2>2. ref'[x] = ref[x]
    BY <1>0, <1>5, <2>1 DEF CheckRefresh, CheckUser, RotateRefresh, PublishRotation, RevokeReused, ArriveRefresh,
       LoseRefresh, Answer
  <2> QED
    BY <1>2, <2>2
<1>6. ~UNCHANGED ref
  BY <1>2
<1> QED
  BY <1>4, <1>5, <1>6 DEF Next, ServerStep, vars, AuthLogout, ArriveOp, LoseOp, GraceLapses, RevokeElsewhere

(* RotateUserSessionRefresh: with Web Locks, nothing lost and no committed *)
(* secret withheld, an honest browser is never taken for a thief of its    *)
(* own secret; only a security change overtaking it costs it its session.  *)
THEOREM HonestRefreshAccepted == Spec => HonestRefresh
<1>1. ASSUME IInv, [Next]_vars, Orderly', NEW x \in Slots, ref[x].st \in {"req", "read", "checked"},
             Active(ref[x].tok.sid), ref'[x].ans = "unauth" \/ ref'[x].st = "reuse"
      PROVE  ref[x].st = "read" /\ ref[x].ver # row[ref[x].tok.sid].auth
  <2>a. IInv' /\ Orderly
    BY <1>1, NextIInv, OrderLost, Zenon
  <2>0. TypeOK /\ SecretShape /\ Orderly /\ SecretShape' /\ faults \in Nat /\ ref \in [Slots -> Exchange]
        /\ ref[x].ans = "none"
    BY <1>1, <2>a DEF IInv, TypeOK, ExchangeShape
  <2>1. ref'[x].ans = "unauth" /\ ~Lives(ref'[x].tok.sid)
    BY <1>1, <2>0 DEF SecretShape, Lives, Active
  <2>2. CASE CheckRefresh(x)
    <3>1. faults' # faults + 1
      BY <1>1, <2>0
    <3>2. ref' # [ref EXCEPT ![x].st = "read", ![x].exp = NoSid, ![x].ver = row[ref[x].tok.sid].ver]
      BY <2>0, <2>1 DEF Exchange
    <3>3. Answer(x, "mismatch") => ref'[x].ans = "mismatch"
      BY <2>0, AnswerForm
    <3> QED
      BY <1>1, <2>1, <2>2, <3>1, <3>2, <3>3 DEF CheckRefresh
  <2>4. CASE CheckUser(x)
    <3>1. ref' # [ref EXCEPT ![x].st = "checked", ![x].ver = 0]
      BY <2>0, <2>1 DEF Exchange
    <3> QED
      BY <2>4, <3>1 DEF CheckUser
  <2>3. CASE RotateRefresh(x)
    <3>0. ref[x].st = "checked" /\ ref[x].tok.gen = row[ref[x].tok.sid].cur
      BY <1>1, <2>0, <2>3 DEF RotateRefresh, SecretShape
    <3>1. \A a \in {"ok", "race", "error"} : Answer(x, a) => ref'[x].ans = a
      BY <2>0, AnswerForm
    <3>2. ref[x].tok.gen \in 0..MaxGen /\ row[ref[x].tok.sid].cur \in 0..MaxGen
      BY <1>1, <2>0, TypeForm DEF Exchange, Token, Active, RowType
    <3>3. ~(row[ref[x].tok.sid].cur > 0 /\ ref[x].tok.gen = row[ref[x].tok.sid].cur - 1)
      BY <3>0, <3>2
    <3>4. ref' # [ref EXCEPT ![x].st = "rotated", ![x].ver = row[ref[x].tok.sid].ver]
      BY <2>0, <2>1 DEF Exchange
    <3> QED
      BY <2>1, <2>3, <3>0, <3>1, <3>3, <3>4 DEF RotateRefresh
  <2> QED
    BY <1>1, <2>2, <2>3, <2>4, RefusalByServer
<1>2. IInv /\ [Next]_vars => [HonestStep]_vars
  BY <1>1 DEF HonestStep
<1> QED
  BY <1>2, SessionInvariance, PTL DEF Spec, HonestRefresh

(* What a tab shows changes to nothing, or to a session it has not signed  *)
(* out of: from nothing, or on the page of an OAuth redirect.              *)
LEMMA ShownMoves ==
  ASSUME IInv, [Next]_vars, NEW t \in Tabs, sess'[t] # sess[t]
  PROVE  \/ sess'[t] = NoSid
         \/ /\ sess[t] = NoSid \/ (op[t].kind = "oauth" /\ op[t].st = "back")
            /\ sess'[t] \notin gone[t]
<1>0. sess \in [Tabs -> 0..MaxSid]
  BY TypeForm DEF IInv
<1>1. sess' # sess
  OBVIOUS
<1>2. PICK u \in Tabs : TabStep(u)
  BY <1>1 DEF Next, vars, ServerStep, CheckRefresh, CheckUser, RotateRefresh, PublishRotation, RevokeReused, ArriveRefresh,
     LoseRefresh, AuthLogout, ArriveOp, LoseOp, GraceLapses, RevokeElsewhere
<1>a. CASE sess' = [sess EXCEPT ![u] = NoSid]
  BY <1>0, <1>a
<1>b. CASE HandleRefresh(u)
  <2>1. ref[u].ans = "ok" /\ run[u].current => /\ sess[u] \in {NoSid, ref[u].tok.sid}
                                               /\ ref[u].tok.sid \notin gone[u]
    BY DEF IInv, CurrentShape
  <2>2. \/ sess' = [sess EXCEPT ![u] = NoSid]
        \/ run[u].current /\ ref[u].ans = "ok" /\ sess' = [sess EXCEPT ![u] = ref[u].tok.sid]
    BY <1>1, <1>b DEF HandleRefresh, StillCurrent, OutcomeKind
  <2> QED
    BY <1>0, <1>a, <2>1, <2>2
<1>c. CASE HandleLogin(u)
  <2>1. /\ sess[u] = NoSid \/ (op[u].kind = "oauth" /\ op[u].st = "back")
        /\ sess' = [sess EXCEPT ![u] = op[u].tok.sid] /\ op[u].tok.sid \notin gone[u]
    BY <1>1, <1>c DEF HandleLogin, IInv, LoginShape
  <2> QED
    BY <1>0, <2>1
<1>d. CASE HandleRotation(u)
  BY <1>0, <1>d DEF HandleRotation
<1>e. CASE ReplayCall(u) \/ HandleLogout(u) \/ Reload(u) \/ DeliverEvent(u)
  <2>1. sess' = [sess EXCEPT ![u] = NoSid]
    BY <1>1, <1>e DEF ReplayCall, HandleLogout, Reload, PageLoad, DeliverEvent
  <2> QED
    BY <1>a, <2>1
<1>f. CASE \/ Resolve(u) \/ CallUnauthorized(u) \/ AcquireLock(u) \/ SendRefresh(u)
           \/ Login(u) \/ SendLogout(u) \/ ChangeSecurity(u) \/ AdvanceSession(u)
           \/ RevokeOthers(u) \/ DropEvent(u)
  BY <1>1, <1>f DEF Resolve, CallUnauthorized, AcquireLock, SendRefresh, Login, SendLogout,
     ChangeSecurity, AdvanceSession, RevokeOthers, DropEvent
<1> QED
  BY <1>2, <1>b, <1>c, <1>d, <1>e, <1>f DEF TabStep

(* refreshAuthentication's epoch and X-Auth-Session: no tab is moved from  *)
(* one session straight to another, the page of an OAuth redirect apart.   *)
THEOREM SessionsNeverSwap == Spec => NoSessionSwap
<1>1. IInv /\ [Next]_vars => [\A t \in Tabs : sess[t] # NoSid /\ sess'[t] # NoSid =>
          sess'[t] = sess[t] \/ (op[t].kind = "oauth" /\ op[t].st = "back")]_vars
  BY ShownMoves
<1> QED
  BY <1>1, SessionInvariance, PTL DEF Spec, NoSessionSwap

(* No refresh response, late sign-in answer or event brings back a session *)
(* the tab has signed out of.                                              *)
THEOREM SignOutsLast == Spec => SignedOutStays
<1>1. ASSUME IInv, [Next]_vars, NEW t \in Tabs, sess'[t] # sess[t] PROVE sess'[t] \notin gone[t]
  BY <1>1, ShownMoves, EmptyForm DEF IInv, TypeOK
<1>2. IInv /\ [Next]_vars => [\A t \in Tabs : sess'[t] # sess[t] => sess'[t] \notin gone[t]]_vars
  BY <1>1
<1> QED
  BY <1>2, SessionInvariance, PTL DEF Spec, SignedOutStays
=============================================================================

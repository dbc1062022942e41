------------------------ MODULE PlaygroundChatProofs ------------------------
(***************************************************************************)
(* Proofs about PlaygroundChat for any accounts, replies, requests and     *)
(* gestures, whatever the replies spell: the inductive invariant IInv and  *)
(* what follows from it.                                                   *)
(***************************************************************************)
EXTENDS PlaygroundChat, SequenceTheorems, WellFoundedInduction, TLAPS

-----------------------------------------------------------------------------
(* The inductive invariant                                                 *)

\* Every generation was counted by a gesture, and the buffer is the one of the
\* current request.
GenShape == gen <= gestures /\ ctl <= gestures /\ pend.gen = gen

\* A send of the current controller generation that waits for its headers is
\* the only one, belongs to the current request and has no source beside it.
HeaderShape ==
  /\ \A h \in headers : h.ctl <= ctl
  /\ \A h, k \in headers : h.ctl = k.ctl => h = k
  /\ \A h \in headers : h.ctl = ctl => mounted /\ h.gen = gen /\ sources = {} /\ got = 0

\* The one source that is open is the active one of the current request, and
\* the handler has taken exactly the pieces it dispatched.
SourceShape ==
  /\ \A s, t \in sources : s = t
  /\ \A s \in sources :
       mounted /\ busy.stream /\ s.ctl = active /\ s.ctl = ctl /\ s.gen = gen /\ s.sent = got

\* A page that was left has nothing under way, and latestMessagesRef differs
\* from what is shown only while an update waits for its render.
PageShape ==
  /\ ~mounted => queue = <<>> /\ post = 0
  /\ mounted /\ queue = <<>> => latest = shown

Held(by) == {m \in Message : m.by = by}

\* Unless an account is adopted under a mounted page, everything the page of a
\* signed-in user holds was said by that user.
OwnerShape ==
  ~AdoptsAccounts =>
    /\ OwnerOnly /\ SavedOrDue
    /\ mounted /\ user # NoUser =>
         /\ shown \in Seq(Held(user)) /\ latest \in Seq(Held(user))
         /\ \A i \in DOMAIN queue : queue[i].val \in Seq(Held(user))

IInv ==
  /\ TypeOK /\ GenShape /\ HeaderShape /\ SourceShape /\ PageShape /\ OwnerShape

-----------------------------------------------------------------------------
USE UserAssumption, ReplyAssumption, ChatBoundAssumption
    DEF UserAssumption, ReplyAssumption, ChatBoundAssumption

-----------------------------------------------------------------------------
(* What a run of the queue computes                                        *)

LEMMA Least ==
  ASSUME NEW T, T \subseteq Nat, T # {}
  PROVE  \E x \in T : \A y \in T : x <= y
<1>1. IsWellFoundedOn(OpToRel(<, Nat), Nat)
  BY NatLessThanWellFounded
<1>2. \E x \in T : \A y \in T : ~ (<<y, x>> \in OpToRel(<, Nat))
  BY <1>1, WFMin
<1>3. \A x, y \in Nat : ~ (<<y, x>> \in OpToRel(<, Nat)) => x <= y
  BY DEF OpToRel
<1> QED
  BY <1>2, <1>3

(* The recursive function of ApplyAll.                                     *)
After(f, n, ms, us, g) ==
  f = [i \in 0..n |-> IF i = 0 THEN ms ELSE Apply(f[i - 1], us[i], g)]

LEMMA AfterExists ==
  ASSUME NEW ms, NEW us, NEW g, NEW k \in Nat
  PROVE  \E f : After(f, k, ms, us, g)
<1> DEFINE T == {n \in Nat : ~ \E f : After(f, n, ms, us, g)}
<1>1. SUFFICES ASSUME T # {} PROVE FALSE
  OBVIOUS
<1>2. PICK n \in T : \A y \in T : n <= y
  <2> HIDE DEF T
  <2>1. T \subseteq Nat
    BY DEF T
  <2> QED
    BY <1>1, <2>1, Least
<1>3. n # 0
  <2>1. After([i \in 0..0 |-> ms], 0, ms, us, g)
    BY DEF After
  <2> QED
    BY <1>2, <2>1
<1>4. n - 1 \in Nat /\ n - 1 \notin T
  BY <1>2, <1>3
<1>5. PICK f : After(f, n - 1, ms, us, g)
  BY <1>4
<1> DEFINE h == [i \in 0..n |-> IF i = n THEN Apply(f[n - 1], us[n], g) ELSE f[i]]
<1>6. After(h, n, ms, us, g)
  <2>1. \A i \in 0..(n - 1) : f[i] = IF i = 0 THEN ms ELSE Apply(f[i - 1], us[i], g)
    BY <1>4, <1>5 DEF After
  <2>2. \A i \in 0..n : h[i] = IF i = 0 THEN ms ELSE Apply(h[i - 1], us[i], g)
    BY <1>3, <1>4, <2>1
  <2> QED
    BY <2>2 DEF After
<1> QED
  BY <1>2, <1>6

LEMMA ApplyAllSteps ==
  ASSUME NEW ms, NEW us, NEW g, Len(us) \in Nat
  PROVE  \E f : /\ \A i \in 0..Len(us) :
                     f[i] = IF i = 0 THEN ms ELSE Apply(f[i - 1], us[i], g)
                /\ ApplyAll(ms, us, g) = f[Len(us)]
<1> DEFINE f == CHOOSE f : After(f, Len(us), ms, us, g)
<1>1. After(f, Len(us), ms, us, g)
  BY AfterExists
<1>2. ApplyAll(ms, us, g) = f[Len(us)]
  BY DEF ApplyAll, After
<1> QED
  <2> HIDE DEF f
  <2> QED BY <1>1, <1>2 DEF After

LEMMA ApplyAllEmpty ==
  ASSUME NEW ms, NEW g
  PROVE  ApplyAll(ms, <<>>, g) = ms
  BY ApplyAllSteps

(* A set of messages that every update of the queue keeps within.          *)
Closed(S) == \A m \in S, u \in Update : u.kind # "set" => Applied(u, m) \in S

LEMMA ApplyStays ==
  ASSUME NEW S, Closed(S), NEW ms \in Seq(S), NEW u \in Update, NEW g, u.val \in Seq(S)
  PROVE  Apply(ms, u, g) \in Seq(S)
<1>1. CASE ms # <<>>
  <2>1. Len(ms) \in 1..Len(ms) /\ ms[Len(ms)] \in S
    BY <1>1
  <2>2. u.kind # "set" => Applied(u, ms[Len(ms)]) \in S
    BY <2>1 DEF Closed
  <2>3. u.kind # "set" => [ms EXCEPT ![Len(ms)] = Applied(u, ms[Len(ms)])] \in Seq(S)
    BY <2>1, <2>2, ExceptSeq
  <2> QED
    BY <2>3 DEF Apply
<1>2. CASE ms = <<>>
  BY <1>2 DEF Apply
<1> QED
  BY <1>1, <1>2

LEMMA ApplyAllStays ==
  ASSUME NEW S, Closed(S), NEW ms \in Seq(S), NEW us \in Seq(Update), NEW g,
         \A i \in DOMAIN us : us[i].val \in Seq(S)
  PROVE  ApplyAll(ms, us, g) \in Seq(S)
<1>1. PICK f : /\ \A i \in 0..Len(us) :
                    f[i] = IF i = 0 THEN ms ELSE Apply(f[i - 1], us[i], g)
               /\ ApplyAll(ms, us, g) = f[Len(us)]
  BY ApplyAllSteps
<1> DEFINE T == {n \in 0..Len(us) : f[n] \notin Seq(S)}
<1>2. SUFFICES ASSUME T # {} PROVE FALSE
  BY <1>1
<1>3. PICK n \in T : \A y \in T : n <= y
  <2>1. T \subseteq Nat
    OBVIOUS
  <2> QED
    BY <1>2, <2>1, Least
<1>4. n # 0
  BY <1>1
<1>5. n - 1 \in 0..Len(us) /\ f[n - 1] \in Seq(S)
  BY <1>3, <1>4
<1>6. n \in 1..Len(us) /\ us[n] \in Update /\ us[n].val \in Seq(S)
  BY <1>3, <1>4
<1>7. Apply(f[n - 1], us[n], g) \in Seq(S)
  BY <1>5, <1>6, ApplyStays
<1> QED
  BY <1>1, <1>4, <1>7

-----------------------------------------------------------------------------
(* The operators on messages                                               *)

Text == Seq(Gens \X (1..ReplyLen))

LEMMA GensForm ==
  /\ MaxGen \in Nat /\ Gens \subseteq Nat
  /\ \A n \in Nat : n <= MaxGestures + 1 => n \in Gens
  BY DEF MaxGen, Gens

LEMMA ReplyType ==
  ASSUME NEW g \in Gens
  PROVE  Reply(g) \in Text /\ Len(Reply(g)) = ReplyLen
<1>1. Reply(g) \in [1..ReplyLen -> Gens \X (1..ReplyLen)]
  BY DEF Reply
<1> QED
  BY <1>1 DEF Text

LEMMA JoinedType ==
  ASSUME NEW t \in Text, NEW c \in Text
  PROVE  Joined(t, c) \in Text
  BY ConcatProperties DEF Joined, Text

(* No update changes who said a message.                                   *)
LEMMA AppliedKeeps ==
  ASSUME NEW m \in Message, NEW u \in Update, u.kind # "set"
  PROVE  Applied(u, m) \in Message /\ Applied(u, m).by = m.by
<1>1. m.text \in Text /\ u.text \in Text /\ <<>> \in Text
  BY DEF Message, Update, Text
<1>2. Joined(m.text, u.text) \in Text
  BY <1>1, JoinedType
<1>3. CASE u.kind = "flush"
  <2>1. Applied(u, m) = ApplyChunk(m, u.text)
    BY <1>3 DEF Applied
  <2> QED
    BY <2>1, <1>2 DEF ApplyChunk, Message, Text
<1>4. CASE u.kind = "complete"
  <2>1. Applied(u, m) = IF Final(m) THEN m ELSE Complete(m)
    BY <1>4 DEF Applied
  <2> QED
    BY <2>1 DEF Complete, Message
<1>5. CASE u.kind = "error"
  <2>1. Applied(u, m) = [m EXCEPT !.st = "error", !.text = <<>>]
    BY <1>5 DEF Applied
  <2> QED
    BY <2>1, <1>1 DEF Message, Text
<1>6. CASE u.kind = "response"
  <2>1. Applied(u, m) = [Complete(m) EXCEPT !.text = u.text]
    BY <1>6 DEF Applied
  <2> QED
    BY <2>1, <1>1 DEF Complete, Message, Text
<1>7. CASE u.kind = "stopped"
  <2>1. Applied(u, m) = IF Pending(m) THEN Complete(m) ELSE m
    BY <1>7 DEF Applied
  <2> QED
    BY <2>1 DEF Complete, Message
<1> QED
  BY <1>3, <1>4, <1>5, <1>6, <1>7 DEF Update

LEMMA ClosedMessage == Closed(Message)
  BY AppliedKeeps DEF Closed

LEMMA ClosedHeld ==
  ASSUME NEW w
  PROVE  Closed(Held(w))
  BY AppliedKeeps DEF Closed, Held

LEMMA SetToType ==
  ASSUME NEW ms \in Seq(Message)
  PROVE  SetTo(ms) \in Update /\ SetTo(ms).val = ms
  BY GensForm DEF SetTo, Update

LEMMA UpdType ==
  ASSUME NEW kind \in {"flush", "complete", "error", "response", "stopped"},
         NEW g \in Gens, NEW t \in Text
  PROVE  Upd(kind, g, t) \in Update /\ Upd(kind, g, t).val = <<>>
  BY DEF Upd, Update, Text

LEMMA NewestType ==
  ASSUME NEW S, NEW ms \in Seq(S), NEW n \in Nat \ {0}
  PROVE  /\ Newest(ms, n) \in Seq(S) /\ Len(Newest(ms, n)) <= n
         /\ Len(Newest(ms, n)) <= Len(ms)
         /\ Len(ms) <= n => Newest(ms, n) = ms
<1>1. CASE Len(ms) <= n
  BY <1>1 DEF Newest
<1>2. CASE ~(Len(ms) <= n)
  <2> DEFINE m == Len(ms) - n + 1
  <2>1. m \in Int /\ m >= 1 /\ m <= Len(ms) /\ Len(ms) \in Int
    BY <1>2
  <2>2. \A i \in m..Len(ms) : ms[i] \in S
    BY <2>1
  <2>3. SubSeq(ms, m, Len(ms)) \in Seq(S) /\ Len(SubSeq(ms, m, Len(ms))) = Len(ms) - m + 1
    BY <2>1, <2>2, SubSeqProperties
  <2> QED
    BY <1>2, <2>3 DEF Newest
<1> QED
  BY <1>1, <1>2

LEMMA TrimType ==
  ASSUME NEW S, NEW ms \in Seq(S)
  PROVE  /\ Trim(ms) \in Seq(S) /\ Len(Trim(ms)) <= MaxStored
         /\ Len(ms) <= MaxStored => Trim(ms) = ms
<1>1. MaxStored \in Nat \ {0}
  OBVIOUS
<1> QED
  BY <1>1, NewestType DEF Trim

LEMMA LoadedType ==
  ASSUME NEW w, NEW S, S \in {Message, Held(w)}, NEW ms \in Seq(S), NEW long,
         NEW n \in 1..MaxStored
  PROVE  Loaded(ms, long, n) \in Seq(S) /\ Len(Loaded(ms, long, n)) <= MaxStored
<1> DEFINE Mended(m) == [m EXCEPT !.st = IF m.text = <<>> THEN "error" ELSE "complete"]
           Normal(m, b, st) == [m EXCEPT !.edited = m.edited \/ b, !.st = st]
<1>1. \A m \in S : Mended(m) \in S
  <2>1. \A m \in Message : Mended(m) \in Message
    BY ZenonT(60) DEF Message
  <2>2. \A m \in Held(w) : Mended(m) \in Held(w)
    BY DEF Held, Message
  <2> QED
    BY <2>1, <2>2
<1>2. ASSUME NEW m \in S, NEW b \in BOOLEAN, NEW st \in {m.st, "complete"}
      PROVE  Normal(m, b, st) \in S
  <2>1. m \in Message
    BY DEF Held
  <2>2. (m.edited \/ b) \in BOOLEAN
    BY Zenon
  <2>3. st \in {"loading", "streaming", "complete", "error"}
    BY <2>1 DEF Message
  <2>4. Normal(m, b, st) \in Message
    BY <2>1, <2>2, <2>3 DEF Message
  <2>5. Normal(m, b, st).by = m.by
    BY <2>1 DEF Message
  <2> QED
    BY <2>4, <2>5 DEF Held
<1> HIDE DEF Mended, Normal
<1>3. ASSUME NEW s \in Seq(S)
      PROVE  Normalized(s, long) \in Seq(S)
  <2> DEFINE St(i) == IF Pending(s[i]) /\ s[i].text # <<>> THEN "complete" ELSE s[i].st
  <2>1. Normalized(s, long) = [i \in DOMAIN s |-> Normal(s[i], i \in long, St(i))]
    BY DEF Normalized, Normal
  <2>2. \A i \in DOMAIN s : s[i] \in S /\ St(i) \in {s[i].st, "complete"} /\ (i \in long) \in BOOLEAN
    OBVIOUS
  <2> HIDE DEF St
  <2>3. \A i \in DOMAIN s : Normal(s[i], i \in long, St(i)) \in S
    BY <1>2, <2>2
  <2>4. Normalized(s, long) \in [1..Len(s) -> S]
    BY <2>1, <2>3
  <2> QED
    BY <2>4
<1>4. \A s \in Seq(S) : Sanitized(s) \in [1..Len(s) -> S]
  <2> SUFFICES ASSUME NEW s \in Seq(S)
               PROVE  Sanitized(s) \in [1..Len(s) -> S]
    OBVIOUS
  <2> DEFINE Hit(i) == Pending(s[i]) /\ \A j \in DOMAIN s : j > i => ~Pending(s[j])
  <2>1. Sanitized(s) = [i \in DOMAIN s |-> IF Hit(i) THEN Mended(s[i]) ELSE s[i]]
    BY DEF Sanitized, Mended
  <2> HIDE DEF Hit
  <2>2. \A i \in DOMAIN s : s[i] \in S /\ Mended(s[i]) \in S
    BY <1>1
  <2> QED
    BY <2>1, <2>2
<1>5. \A s \in Seq(S) : Sanitized(s) \in Seq(S) /\ Len(Sanitized(s)) = Len(s)
  BY <1>4, SMTT(30)
<1> DEFINE kept == Trim(Normalized(ms, long))
<1>6. kept \in Seq(S) /\ Len(kept) <= MaxStored
  BY <1>3, TrimType
<1> HIDE DEF kept
<1>7. Newest(kept, n) \in Seq(S) /\ Len(Newest(kept, n)) <= n
  BY <1>6, NewestType
<1>8. Len(Sanitized(Newest(kept, n))) <= n /\ n <= MaxStored
  BY <1>5, <1>7
<1>9. Sanitized(Newest(kept, n)) \in Seq(S) /\ Len(Sanitized(Newest(kept, n))) <= MaxStored
  BY <1>5, <1>7, <1>8
<1> QED
  BY <1>9 DEF Loaded, kept

-----------------------------------------------------------------------------
(* The invariant in two halves                                             *)

(* What the messages are, where they are kept and whose they are.          *)
MsgType ==
  /\ shown \in Seq(Message) /\ queue \in Seq(Update) /\ latest \in Seq(Message)
  /\ saveTimer \in BOOLEAN /\ failed \in BOOLEAN /\ saved \in [Users -> Seq(Message)]
  /\ \A u \in Users : Len(saved[u]) <= MaxStored

MsgInv == MsgType /\ PageShape /\ OwnerShape

(* The request, the stream controller and the page.                        *)
CtlType ==
  /\ user \in Users \cup {NoUser} /\ mounted \in BOOLEAN
  /\ gen \in Gens /\ timer \in Gens /\ post \in Gens /\ ctl \in Gens /\ active \in Gens
  /\ pend \in [gen : Gens, text : Text]
  /\ headers \subseteq [ctl : Gens, gen : Gens]
  /\ sources \subseteq Source
  /\ busy \in [req : BOOLEAN, stream : BOOLEAN] /\ busyShown \in BOOLEAN
  /\ editing \in [from : {"none", "user", "assistant"}, key : Gens]
  /\ reqs \in 0..MaxReq /\ gestures \in 0..MaxGestures /\ got \in 0..ReplyLen
  /\ raced \in BOOLEAN

CtlInv == CtlType /\ GenShape /\ HeaderShape /\ SourceShape

LEMMA Halves == IInv <=> MsgInv /\ CtlInv
  BY DEF IInv, TypeOK, MsgInv, MsgType, CtlInv, CtlType, Text

LEMMA HalvesNext == IInv' <=> MsgInv' /\ CtlInv'
  BY DEF IInv, TypeOK, MsgInv, MsgType, CtlInv, CtlType, Text

(* Updates that bring no message of their own.                             *)
Bare(us) == us \in Seq(Update) /\ \A i \in DOMAIN us : us[i].val = <<>>

(* Updates whose messages were said by w.                                  *)
Said(us, w) == \A i \in DOMAIN us : us[i].val \in Seq(Held(w))

LEMMA BareSaid ==
  ASSUME NEW us, Bare(us), NEW w
  PROVE  Said(us, w)
  BY EmptySeq DEF Bare, Said

LEMMA SaidConcat ==
  ASSUME NEW us \in Seq(Update), NEW vs \in Seq(Update), NEW w, Said(us, w), Said(vs, w)
  PROVE  us \o vs \in Seq(Update) /\ Said(us \o vs, w)
  BY ConcatProperties DEF Said

LEMMA BareConcat ==
  ASSUME NEW us, NEW vs, Bare(us), Bare(vs)
  PROVE  Bare(us \o vs)
  BY ConcatProperties DEF Bare

LEMMA BareOne ==
  ASSUME NEW u \in Update, u.val = <<>>
  PROVE  Bare(<<u>>)
  BY DEF Bare

LEMMA BareNone == Bare(<<>>)
  BY DEF Bare

LEMMA FlushBare ==
  ASSUME CtlInv, NEW g \in Gens
  PROVE  Bare(FlushOf(g))
<1>1. pend.text \in Text
  BY DEF CtlInv, CtlType
<1>2. Upd("flush", g, pend.text) \in Update /\ Upd("flush", g, pend.text).val = <<>>
  BY <1>1, UpdType
<1> QED
  BY <1>2, BareOne, BareNone DEF FlushOf

LEMMA EndBare ==
  ASSUME CtlInv, NEW g \in Gens, NEW kind \in {"complete", "error", "stopped"}
  PROVE  Bare(<<Upd(kind, g, <<>>)>>) /\ Bare(FlushOf(g) \o <<Upd(kind, g, <<>>)>>)
<1>1. <<>> \in Text
  BY DEF Text
<1>2. Upd(kind, g, <<>>) \in Update /\ Upd(kind, g, <<>>).val = <<>>
  BY <1>1, UpdType
<1>3. Bare(<<Upd(kind, g, <<>>)>>)
  BY <1>2, BareOne
<1> QED
  BY <1>3, FlushBare, BareConcat

(* Under a signed-in user, everything on the page is that user's.          *)
LEMMA HeldForm ==
  ASSUME MsgInv, mounted, user # NoUser, ~AdoptsAccounts
  PROVE  /\ shown \in Seq(Held(user)) /\ latest \in Seq(Held(user)) /\ Said(queue, user)
  BY DEF MsgInv, OwnerShape, Said

(* Posting an update outside of a click.                                   *)
LEMMA PostKeeps ==
  ASSUME IInv, NEW us, Bare(us), Post(us), mounted, UNCHANGED <<shown, user, mounted>>
  PROVE  MsgInv'
<1> DEFINE v == Apply(shown, Head(us), gen)
<1>0. MsgInv /\ CtlInv /\ us \in Seq(Update)
  BY Halves DEF Bare
<1>1. CASE queue' = queue \o us /\ UNCHANGED persist
  <2>1. queue' \in Seq(Update) /\ (queue' = <<>> => queue = <<>>)
    BY <1>0, <1>1, ConcatProperties, ConcatEqualIffEmpty DEF MsgInv, MsgType
  <2>2. \A w : Said(queue, w) => Said(queue', w)
    BY <1>0, <1>1, SaidConcat, BareSaid DEF MsgInv, MsgType
  <2>3. MsgType'
    BY <1>0, <1>1, <2>1 DEF MsgInv, MsgType, persist
  <2>4. PageShape'
    BY <1>0, <1>1, <2>1 DEF MsgInv, PageShape, persist
  <2>5. OwnerShape'
    BY <1>0, <1>1, <2>1, <2>2 DEF MsgInv, OwnerShape, persist, Said, OwnerOnly, SavedOrDue
  <2> QED
    BY <2>3, <2>4, <2>5 DEF MsgInv
<1>2. CASE /\ queue = <<>> /\ us # <<>> /\ queue' = <<SetTo(v)>> \o Tail(us) /\ latest' = v
           /\ saveTimer' = TRUE /\ failed' = FALSE /\ UNCHANGED saved
  <2>1. Head(us) \in Update /\ Head(us).val = <<>> /\ Bare(Tail(us))
    BY <1>0, <1>2, HeadTailProperties DEF Bare
  <2>2. v \in Seq(Message)
    <3>1. Head(us).val \in Seq(Message) /\ shown \in Seq(Message)
      BY <1>0, <2>1, EmptySeq DEF MsgInv, MsgType
    <3> QED
      BY <3>1, <2>1, ClosedMessage, ApplyStays
  <2>3. SetTo(v) \in Update /\ SetTo(v).val = v
    BY <2>2, SetToType
  <2>4. ASSUME NEW w, shown \in Seq(Held(w))
        PROVE  v \in Seq(Held(w)) /\ Said(queue', w)
    <3>1. Head(us).val \in Seq(Held(w))
      BY <2>1, EmptySeq
    <3>2. v \in Seq(Held(w))
      BY <2>1, <2>4, <3>1, ClosedHeld, ApplyStays
    <3> HIDE DEF v
    <3>3. <<SetTo(v)>> \in Seq(Update) /\ Said(<<SetTo(v)>>, w)
      BY <2>3, <3>2 DEF Said
    <3>4. Tail(us) \in Seq(Update) /\ Said(Tail(us), w)
      BY <2>1, BareSaid DEF Bare
    <3> QED
      BY <1>2, <3>2, <3>3, <3>4, SaidConcat
  <2> HIDE DEF v
  <2>5. queue' \in Seq(Update) /\ queue' # <<>>
    BY <1>2, <2>1, <2>3, ConcatProperties, ConcatEqualIffEmpty DEF Bare
  <2>6. MsgType'
    BY <1>0, <1>2, <2>2, <2>5 DEF MsgInv, MsgType
  <2>7. PageShape'
    BY <2>5 DEF PageShape
  <2>8. OwnerShape'
    BY <1>0, <1>2, <2>4, <2>5 DEF MsgInv, OwnerShape, Said, OwnerOnly, SavedOrDue
  <2> QED
    BY <2>6, <2>7, <2>8 DEF MsgInv
<1> QED
  BY <1>1, <1>2 DEF Post, persist

(* What a render shows is of the right type and said by the same user.     *)
LEMMA RunType ==
  ASSUME MsgInv, NEW us \in Seq(Update), NEW g
  PROVE  /\ ApplyAll(shown, us, g) \in Seq(Message)
         /\ \A w : shown \in Seq(Held(w)) /\ Said(us, w) => ApplyAll(shown, us, g) \in Seq(Held(w))
<1>0. \A u \in Update : u.val \in Seq(Message)
  BY DEF Update
<1>1. shown \in Seq(Message) /\ \A i \in DOMAIN us : us[i].val \in Seq(Message)
  BY <1>0, ElementOfSeq, LenProperties DEF MsgInv, MsgType
<1>2. ApplyAll(shown, us, g) \in Seq(Message)
  BY <1>1, ClosedMessage, ApplyAllStays
<1>3. ASSUME NEW w, shown \in Seq(Held(w)), Said(us, w)
      PROVE  ApplyAll(shown, us, g) \in Seq(Held(w))
  BY <1>3, ClosedHeld, ApplyAllStays DEF Said
<1> QED
  BY <1>2, <1>3

(* The synchronous render at the end of a click.                           *)
LEMMA ClickKeeps ==
  ASSUME IInv, NEW us \in Seq(Update), NEW g, mounted, UNCHANGED <<user, mounted>>,
         user # NoUser /\ ~AdoptsAccounts => Said(us, user), ClickRender(us, g)
  PROVE  MsgInv'
<1>0. MsgInv /\ CtlInv
  BY Halves
<1>1. queue \in Seq(Update) /\ queue \o us \in Seq(Update)
  BY <1>0, ConcatProperties DEF MsgInv, MsgType
<1>2. shown' \in Seq(Message)
  BY <1>0, <1>1, RunType DEF ClickRender
<1>3. ASSUME user # NoUser, ~AdoptsAccounts
      PROVE  shown' \in Seq(Held(user))
  <2>1. shown \in Seq(Held(user)) /\ Said(queue, user)
    BY <1>0, <1>3, HeldForm
  <2>2. Said(queue \o us, user)
    BY <1>1, <1>3, <2>1, SaidConcat
  <2> QED
    BY <1>0, <1>1, <2>1, <2>2, RunType DEF ClickRender
<1>4. MsgType'
  <2>1. /\ queue' = <<>> /\ latest' = shown' /\ saveTimer' = TRUE /\ failed' = FALSE
        /\ saved' = saved
    BY DEF ClickRender
  <2>a. queue' \in Seq(Update)
    BY <2>1, EmptySeq
  <2>2. queue' \in Seq(Update) /\ saveTimer' \in BOOLEAN /\ failed' \in BOOLEAN
    BY <2>1, <2>a, Zenon
  <2>3. saved' \in [Users -> Seq(Message)] /\ \A u \in Users : Len(saved'[u]) <= MaxStored
    BY <1>0, <2>1 DEF MsgInv, MsgType
  <2> QED
    BY <1>2, <2>1, <2>2, <2>3, Zenon DEF MsgType
<1>5. PageShape'
  BY DEF PageShape, ClickRender
<1>6. OwnerShape'
  BY <1>0, <1>3 DEF MsgInv, OwnerShape, OwnerOnly, SavedOrDue, ClickRender
<1> QED
  BY <1>4, <1>5, <1>6 DEF MsgInv

(* A click that puts other messages in place.                              *)
LEMMA SetKeeps ==
  ASSUME IInv, NEW ms \in Seq(Message), NEW g, mounted, UNCHANGED <<user, mounted>>,
         user # NoUser /\ ~AdoptsAccounts => ms \in Seq(Held(user)),
         ClickRender(<<SetTo(ms)>>, g)
  PROVE  MsgInv'
<1>1. SetTo(ms) \in Update /\ SetTo(ms).val = ms
  BY SetToType
<1>2. <<SetTo(ms)>> \in Seq(Update)
  BY <1>1
<1>3. user # NoUser /\ ~AdoptsAccounts => Said(<<SetTo(ms)>>, user)
  BY <1>1 DEF Said
<1> QED
  BY <1>2, <1>3, ClickKeeps

LEMMA RenderMsgs == IInv /\ Render => MsgInv'
<1> SUFFICES ASSUME IInv, Render PROVE MsgInv'
  OBVIOUS
<1>0. MsgInv /\ queue \in Seq(Update)
  BY Halves DEF MsgInv, MsgType
<1>1. UNCHANGED <<user, mounted, saved>>
  BY DEF Render, page
<1>2. CASE queue = <<>>
  <2>1. UNCHANGED <<shown, queue, latest, saveTimer, failed>>
    BY <1>2, ApplyAllEmpty DEF Render
  <2>2. MsgType' /\ OwnerShape'
    BY <1>0, <1>1, <2>1 DEF MsgInv, MsgType, OwnerShape, OwnerOnly, SavedOrDue
  <2>3. PageShape'
    BY <1>0, <1>1, <2>1 DEF MsgInv, PageShape, Render
  <2> QED
    BY <2>2, <2>3 DEF MsgInv
<1>3. CASE queue # <<>>
  <2>1. /\ shown' \in Seq(Message) /\ queue' = <<>> /\ latest' = shown' /\ saveTimer' = TRUE
        /\ failed' = FALSE
    BY <1>0, <1>3, RunType DEF Render
  <2>2. user # NoUser /\ ~AdoptsAccounts => shown' \in Seq(Held(user))
    BY <1>0, HeldForm, RunType DEF Render
  <2>3. MsgType'
    <3>a. queue' \in Seq(Update)
      BY <2>1, EmptySeq
    <3>1. queue' \in Seq(Update) /\ saveTimer' \in BOOLEAN /\ failed' \in BOOLEAN
      BY <2>1, <3>a, Zenon
    <3>2. saved' \in [Users -> Seq(Message)] /\ \A u \in Users : Len(saved'[u]) <= MaxStored
      BY <1>0, <1>1 DEF MsgInv, MsgType
    <3> QED
      BY <2>1, <3>1, <3>2, Zenon DEF MsgType
  <2>4. PageShape'
    BY <1>1, <2>1 DEF PageShape, Render
  <2>5. OwnerShape'
    BY <1>0, <1>1, <2>1, <2>2 DEF MsgInv, OwnerShape, OwnerOnly, SavedOrDue
  <2> QED
    BY <2>3, <2>4, <2>5 DEF MsgInv
<1> QED
  BY <1>2, <1>3

(* What the account's storage holds after a save.                          *)
LEMMA SaveForm ==
  ASSUME IInv, mounted, NEW yes \in BOOLEAN,
         saved' = [u \in Users |-> IF yes /\ StoredFor(u) THEN Trim(latest) ELSE saved[u]]
  PROVE  /\ saved' \in [Users -> Seq(Message)]
         /\ \A u \in Users : Len(saved'[u]) <= MaxStored
         /\ ~AdoptsAccounts => \A u \in Users : \A m \in Range(saved'[u]) : m.by = u
<1>0. MsgInv
  BY Halves
<1>1. Trim(latest) \in Seq(Message) /\ Len(Trim(latest)) <= MaxStored
  BY <1>0, TrimType DEF MsgInv, MsgType
<1>2. ASSUME user # NoUser, ~AdoptsAccounts
      PROVE  \A m \in Range(Trim(latest)) : m.by = user
  <2>1. Trim(latest) \in Seq(Held(user))
    BY <1>0, <1>2, HeldForm, TrimType
  <2>2. Range(Trim(latest)) \subseteq Held(user)
    BY <2>1, RangeOfSeq
  <2> QED
    BY <2>2 DEF Held
<1>3. saved' \in [Users -> Seq(Message)]
  BY <1>0, <1>1 DEF MsgInv, MsgType
<1>4. \A u \in Users : Len(saved'[u]) <= MaxStored
  BY <1>0, <1>1 DEF MsgInv, MsgType
<1>5. ASSUME ~AdoptsAccounts, NEW u \in Users, NEW m \in Range(saved'[u])
      PROVE  m.by = u
  <2>1. CASE yes /\ StoredFor(u)
    BY <1>2, <1>5, <2>1 DEF StoredFor
  <2>2. CASE ~(yes /\ StoredFor(u))
    <3>1. saved'[u] = saved[u]
      BY <2>2
    <3> QED
      BY <1>0, <1>5, <3>1 DEF MsgInv, OwnerShape, OwnerOnly
  <2> QED
    BY <2>1, <2>2
<1> QED
  BY <1>3, <1>4, <1>5

LEMMA SaveMsgs == IInv /\ SaveFires => MsgInv'
<1> SUFFICES ASSUME IInv, SaveFires PROVE MsgInv'
  OBVIOUS
<1>0. MsgInv /\ mounted
  BY Halves DEF SaveFires
<1>1. UNCHANGED <<user, mounted, shown, queue, latest, post>> /\ saveTimer' = FALSE
  BY DEF SaveFires, page, chat
<1>2. PICK yes \in BOOLEAN :
        /\ saved' = [u \in Users |-> IF yes /\ StoredFor(u) THEN Trim(latest) ELSE saved[u]]
        /\ failed' = ~yes
  <2>1. CASE /\ saved' = [u \in Users |-> IF StoredFor(u) THEN Trim(latest) ELSE saved[u]]
             /\ failed' = FALSE
    <3>1. saved' = [u \in Users |-> IF TRUE /\ StoredFor(u) THEN Trim(latest) ELSE saved[u]]
      BY <2>1
    <3> QED
      BY <2>1, <3>1
  <2>2. CASE UNCHANGED saved /\ failed' = TRUE
    <3>1. saved' = [u \in Users |-> IF FALSE /\ StoredFor(u) THEN Trim(latest) ELSE saved[u]]
      BY <1>0, <2>2 DEF MsgInv, MsgType
    <3> QED
      BY <2>2, <3>1
  <2> QED
    BY <2>1, <2>2 DEF SaveFires
<1>3. /\ saved' \in [Users -> Seq(Message)] /\ \A u \in Users : Len(saved'[u]) <= MaxStored
      /\ ~AdoptsAccounts => \A u \in Users : \A m \in Range(saved'[u]) : m.by = u
  BY <1>0, <1>2, SaveForm
<1>4. ASSUME user # NoUser, queue = <<>>, ~failed'
      PROVE  saved'[user] = Trim(shown)
  <2>1. user \in Users
    BY <1>4, Halves DEF CtlInv, CtlType
  <2>2. latest = shown
    BY <1>0, <1>4 DEF MsgInv, PageShape
  <2> QED
    BY <1>2, <1>4, <2>1, <2>2 DEF StoredFor
<1>5. MsgType'
  BY <1>0, <1>1, <1>2, <1>3 DEF MsgInv, MsgType
<1>6. PageShape'
  BY <1>0, <1>1 DEF MsgInv, PageShape
<1>7. OwnerShape'
  BY <1>0, <1>1, <1>3, <1>4 DEF MsgInv, OwnerShape, OwnerOnly, SavedOrDue
<1> QED
  BY <1>5, <1>6, <1>7 DEF MsgInv

LEMMA MsgStutter ==
  ASSUME MsgInv, mounted' \/ post' = post,
         UNCHANGED <<user, mounted, shown, queue, latest, saveTimer, saved, failed>>
  PROVE  MsgInv'
<1>1. MsgType' /\ OwnerShape'
  BY DEF MsgInv, MsgType, OwnerShape, OwnerOnly, SavedOrDue
<1>2. PageShape'
  BY DEF MsgInv, PageShape
<1> QED
  BY <1>1, <1>2 DEF MsgInv

LEMMA EndedMsgs ==
  ASSUME IInv, NEW g \in Gens, NEW kind \in {"complete", "error"}, Ended(g, kind),
         mounted, UNCHANGED <<shown, user, mounted>>
  PROVE  MsgInv'
<1>1. CASE g # gen
  BY <1>1, Halves, MsgStutter DEF Ended, persist
<1>2. CASE g = gen
  BY <1>2, Halves, EndBare, PostKeeps DEF Ended
<1> QED
  BY <1>1, <1>2

LEMMA HeadersMsgs == ASSUME IInv, NEW h \in headers, HeadersSettle(h) PROVE MsgInv'
<1>0. CtlInv /\ MsgInv /\ h.gen \in Gens
  BY Halves DEF CtlInv, CtlType
<1>1. UNCHANGED <<user, mounted, shown, post>>
  BY DEF HeadersSettle, page
<1>2. CASE UNCHANGED <<queue, persist>>
  BY <1>0, <1>1, <1>2, MsgStutter DEF persist
<1>3. CASE HeadersCurrent(h) /\ Ended(h.gen, "error")
  <2>1. mounted
    BY <1>0, <1>3 DEF CtlInv, HeaderShape, HeadersCurrent
  <2> QED
    BY <1>0, <1>1, <1>3, <2>1, EndedMsgs
<1> QED
  BY <1>2, <1>3 DEF HeadersSettle

LEMMA DeliverMsgs == ASSUME IInv, NEW s \in sources, Deliver(s) \/ StreamCut(s) PROVE MsgInv'
<1>1. UNCHANGED <<user, mounted, shown, queue, latest, saveTimer, saved, failed, post>>
  BY DEF Deliver, StreamCut, page, persist, chat
<1> QED
  BY <1>1, Halves, MsgStutter

LEMMA EndMsgs == ASSUME IInv, NEW s \in sources, StreamEnds(s) PROVE MsgInv'
<1>1. s.gen \in Gens /\ mounted
  BY Halves DEF CtlInv, CtlType, SourceShape, Source
<1>2. UNCHANGED <<user, mounted, shown>>
  BY DEF StreamEnds, page
<1>3. Ended(s.gen, "complete") \/ Ended(s.gen, "error")
  BY DEF StreamEnds
<1> QED
  BY <1>1, <1>2, <1>3, EndedMsgs

LEMMA FlushMsgs == ASSUME IInv, FlushFires PROVE MsgInv'
<1>1. timer \in Gens /\ CtlInv
  BY Halves DEF CtlInv, CtlType
<1>2. Bare(FlushOf(timer))
  BY <1>1, FlushBare
<1>3. mounted /\ Post(FlushOf(timer)) /\ UNCHANGED <<user, mounted, shown>>
  BY DEF FlushFires, page
<1> QED
  BY <1>2, <1>3, PostKeeps

LEMMA RespondMsgs == ASSUME IInv, Respond PROVE MsgInv'
<1>1. gen \in Gens /\ CtlInv /\ mounted
  BY Halves DEF CtlInv, CtlType, MsgInv, PageShape, Respond
<1>2. UNCHANGED <<user, mounted, shown>>
  BY DEF Respond, page
<1>3. CASE Post(<<Upd("response", gen, Reply(gen))>>)
  <2>1. Upd("response", gen, Reply(gen)) \in Update /\ Upd("response", gen, Reply(gen)).val = <<>>
    BY <1>1, ReplyType, UpdType
  <2> QED
    BY <1>1, <1>2, <1>3, <2>1, BareOne, PostKeeps
<1>4. CASE Ended(gen, "error")
  BY <1>1, <1>2, <1>4, EndedMsgs
<1> QED
  BY <1>3, <1>4 DEF Respond

-----------------------------------------------------------------------------
(* What the gestures put on the page                                       *)

LEMMA NewMessages ==
  ASSUME CtlInv, NEW g \in Gens
  PROVE  UserMessage(g) \in Held(user) /\ LoadingMessage(g) \in Held(user)
<1>1. user \in Users \cup {NoUser} /\ <<>> \in Seq(Gens \X (1..ReplyLen))
  BY EmptySeq DEF CtlInv, CtlType
<1> QED
  BY <1>1 DEF UserMessage, LoadingMessage, Held, Message

LEMMA HeldIsMessage == ASSUME NEW w, NEW ms \in Seq(Held(w)) PROVE ms \in Seq(Message)
<1>1. Held(w) \subseteq Message
  BY DEF Held
<1> QED
  BY <1>1, SeqMonotonic

(* The messages of a page, cut after n, that another message is put after. *)
LEMMA CutType ==
  ASSUME NEW S, NEW ms \in Seq(S), NEW n \in 0..Len(ms), NEW m \in S
  PROVE  SubSeq(ms, 1, n) \o <<m>> \in Seq(S)
<1>1. SubSeq(ms, 1, n) \in Seq(S)
  BY SubSeqProperties
<1> QED
  BY <1>1, ConcatProperties

LEMMA RemoveType ==
  ASSUME NEW S, NEW ms \in Seq(S), NEW i \in 1..Len(ms)
  PROVE  RemoveAt(ms, i) \in Seq(S)
<1>1. SubSeq(ms, 1, i - 1) \in Seq(S)
  BY SubSeqProperties
<1>2. SubSeq(ms, i + 1, Len(ms)) \in Seq(S)
  BY SubSeqProperties
<1> QED
  BY <1>1, <1>2, ConcatProperties DEF RemoveAt

(* What a gesture computes from the messages of the last render is of the  *)
(* right type, and by the user when those are.                             *)
Kept(S) == S \in {Message, Held(user)}

LEMMA KeptForm ==
  ASSUME CtlInv, NEW S, Kept(S), NEW g \in Gens
  PROVE  /\ UserMessage(g) \in S /\ LoadingMessage(g) \in S
         /\ \A m \in S : [m EXCEPT !.edited = TRUE] \in S
<1>1. Held(user) \subseteq Message
  BY DEF Held
<1>2. UserMessage(g) \in S /\ LoadingMessage(g) \in S
  BY <1>1, NewMessages DEF Kept
<1>3. \A m \in Message : [m EXCEPT !.edited = TRUE] \in Message
  BY DEF Message
<1>4. \A m \in Held(user) : [m EXCEPT !.edited = TRUE] \in Held(user)
  BY DEF Message, Held
<1> QED
  BY <1>2, <1>3, <1>4 DEF Kept

LEMMA EditType ==
  ASSUME CtlInv, NEW S, Kept(S), NEW ms \in Seq(S), NEW i \in 1..Len(ms)
  PROVE  /\ [ms EXCEPT ![i].edited = TRUE] \in Seq(S)
         /\ Len([ms EXCEPT ![i].edited = TRUE]) = Len(ms)
<1> DEFINE e == [ms[i] EXCEPT !.edited = TRUE]
<1>1. e \in S
  BY KeptForm, GensForm
<1>2. [ms EXCEPT ![i].edited = TRUE] = [ms EXCEPT ![i] = e]
  OBVIOUS
<1> HIDE DEF e
<1>3. [ms EXCEPT ![i] = e] \in Seq(S) /\ Len([ms EXCEPT ![i] = e]) = Len(ms)
  BY <1>1, ExceptSeq
<1> QED
  BY <1>2, <1>3

(* The same for a click that puts ms in place.                             *)
LEMMA PutKeeps ==
  ASSUME IInv, NEW ms, NEW g, mounted, UNCHANGED <<user, mounted>>,
         \A S : Kept(S) /\ shown \in Seq(S) => ms \in Seq(S),
         ClickRender(<<SetTo(ms)>>, g)
  PROVE  MsgInv'
<1>1. ms \in Seq(Message)
  BY Halves DEF Kept, MsgInv, MsgType
<1>2. user # NoUser /\ ~AdoptsAccounts => ms \in Seq(Held(user))
  BY Halves, HeldForm DEF Kept
<1> QED
  BY <1>1, <1>2, SetKeeps

LEMMA GenRoom ==
  ASSUME IInv, gestures < MaxGestures
  PROVE  /\ gen \in Nat /\ ctl \in Nat /\ gestures \in Nat
         /\ gen + 1 \in Gens /\ ctl + 1 \in Gens /\ gen \in Gens
         /\ gen + 1 <= gestures + 1 /\ ctl + 1 <= gestures + 1
<1>1. gen \in Gens /\ ctl \in Gens /\ gestures \in Nat /\ gen <= gestures /\ ctl <= gestures
  BY Halves DEF CtlInv, CtlType, GenShape
<1>2. gen \in Nat /\ ctl \in Nat
  BY <1>1, GensForm
<1>3. gen + 1 <= MaxGestures + 1 /\ ctl + 1 <= MaxGestures + 1
  BY <1>1, <1>2
<1> QED
  BY <1>1, <1>2, <1>3, GensForm

LEMMA SendMsgs == ASSUME IInv, Send PROVE MsgInv'
<1> DEFINE next == shown \o <<UserMessage(gen + 1), LoadingMessage(gen + 1)>>
<1>1. gen + 1 \in Gens /\ CtlInv
  BY GenRoom, Halves DEF Send, Gesture
<1>2. ASSUME NEW S, Kept(S), shown \in Seq(S) PROVE next \in Seq(S)
  BY <1>1, <1>2, KeptForm, ConcatProperties
<1> HIDE DEF next
<1>3. ClickRender(<<SetTo(next)>>, gen + 1) /\ mounted /\ UNCHANGED <<user, mounted>>
  BY DEF Send, SendChat, Gesture, next
<1> QED
  BY <1>2, <1>3, PutKeeps

LEMMA RegenerateMsgs == ASSUME IInv, NEW i \in DOMAIN shown, Regenerate(i) PROVE MsgInv'
<1> DEFINE n == IF shown[i].from = "user" THEN i ELSE i - 1
           next == SubSeq(shown, 1, n) \o <<LoadingMessage(gen + 1)>>
<1>1. gen + 1 \in Gens /\ CtlInv /\ MsgInv
  BY GenRoom, Halves DEF Regenerate, Gesture
<1>2. n \in 0..Len(shown)
  BY <1>1 DEF MsgInv, MsgType
<1>3. ASSUME NEW S, Kept(S), shown \in Seq(S) PROVE next \in Seq(S)
  <2> HIDE DEF n
  <2> QED
    BY <1>1, <1>2, <1>3, KeptForm, CutType
<1> HIDE DEF next
<1>4. ClickRender(<<SetTo(next)>>, gen + 1) /\ mounted /\ UNCHANGED <<user, mounted>>
  BY DEF Regenerate, SendChat, Gesture, next
<1> QED
  BY <1>3, <1>4, PutKeeps

LEMMA EditMsgs == ASSUME IInv, NEW i \in DOMAIN shown, ApplyEdit(i) PROVE MsgInv'
<1> DEFINE edited == [shown EXCEPT ![i].edited = TRUE]
           again == SubSeq(edited, 1, i) \o <<LoadingMessage(gen + 1)>>
<1>1. gen + 1 \in Gens /\ CtlInv /\ MsgInv
  BY GenRoom, Halves DEF ApplyEdit, Gesture
<1>2. i \in 1..Len(shown)
  BY <1>1 DEF MsgInv, MsgType
<1>3. ASSUME NEW S, Kept(S), shown \in Seq(S)
      PROVE  edited \in Seq(S) /\ Len(edited) = Len(shown)
  BY <1>1, <1>2, <1>3, EditType
<1>4. ASSUME NEW S, Kept(S), shown \in Seq(S) PROVE again \in Seq(S)
  <2> HIDE DEF edited
  <2>1. edited \in Seq(S) /\ i \in 0..Len(edited)
    BY <1>2, <1>3, <1>4
  <2> QED
    BY <1>1, <1>4, <2>1, KeptForm, CutType
<1> HIDE DEF edited, again
<1>5. mounted /\ UNCHANGED <<user, mounted>>
  BY DEF ApplyEdit, Gesture
<1>6. \/ ClickRender(<<SetTo(edited)>>, gen) \/ ClickRender(<<SetTo(again)>>, gen + 1)
  BY DEF ApplyEdit, SendChat, edited, again
<1> QED
  BY <1>3, <1>4, <1>5, <1>6, PutKeeps

LEMMA DeleteMsgs == ASSUME IInv, Delete PROVE MsgInv'
<1>1. mounted /\ UNCHANGED <<user, mounted>> /\ shown \in Seq(Message)
  BY Halves DEF Delete, Gesture, MsgInv, MsgType
<1>2. ASSUME NEW i \in DOMAIN shown, ClickRender(<<SetTo(RemoveAt(shown, i))>>, gen)
      PROVE  MsgInv'
  <2>1. i \in 1..Len(shown)
    BY <1>1, <1>2
  <2>2. \A S : Kept(S) /\ shown \in Seq(S) => RemoveAt(shown, i) \in Seq(S)
    BY <2>1, RemoveType
  <2> QED
    BY <1>1, <1>2, <2>2, PutKeeps
<1>3. CASE ClickRender(<<SetTo(<<>>)>>, gen)
  <2>1. \A S : <<>> \in Seq(S)
    BY EmptySeq
  <2> QED
    BY <1>1, <1>3, <2>1, PutKeeps
<1> QED
  BY <1>2, <1>3 DEF Delete

LEMMA StopMsgs == ASSUME IInv, Stop PROVE MsgInv'
<1> DEFINE flush == FlushOf(gen)
           eager == Apply(shown, Head(flush), gen)
<1>1. gen \in Gens /\ gen + 1 \in Gens /\ CtlInv /\ MsgInv
  BY GenRoom, Halves DEF Stop, Gesture
<1>2. Bare(flush) /\ Bare(StopUpdate(gen + 1))
  BY <1>1, FlushBare, EndBare DEF StopUpdate
<1>3. mounted /\ UNCHANGED <<user, mounted>>
  BY DEF Stop, Gesture
<1>4. CASE ClickRender(flush \o StopUpdate(gen + 1), gen + 1)
  <2> DEFINE us == flush \o StopUpdate(gen + 1)
  <2>1. Bare(us)
    BY <1>2, BareConcat
  <2> HIDE DEF us
  <2>2. us \in Seq(Update) /\ Said(us, user)
    BY <2>1, BareSaid DEF Bare
  <2>3. ClickRender(us, gen + 1)
    BY <1>4 DEF us
  <2> QED
    BY <1>3, <2>2, <2>3, ClickKeeps
<1>5. CASE flush # <<>> /\ ClickRender(<<SetTo(eager)>> \o StopUpdate(gen + 1), gen + 1)
  <2> DEFINE us == <<SetTo(eager)>> \o StopUpdate(gen + 1)
  <2> HIDE DEF flush
  <2>1. Head(flush) \in Update /\ Head(flush).val = <<>>
    BY <1>2, <1>5, HeadTailProperties DEF Bare
  <2>2. \A S : Kept(S) /\ shown \in Seq(S) => eager \in Seq(S)
    <3>1. \A S : Head(flush).val \in Seq(S)
      BY <2>1, EmptySeq
    <3>2. Closed(Message) /\ Closed(Held(user))
      BY ClosedMessage, ClosedHeld
    <3>3. \A S : Kept(S) => Closed(S)
      BY <3>2 DEF Kept
    <3> QED
      BY <2>1, <3>1, <3>3, ApplyStays
  <2> HIDE DEF eager
  <2>3. eager \in Seq(Message)
    BY <1>1, <2>2 DEF Kept, MsgInv, MsgType
  <2>4. SetTo(eager) \in Update /\ SetTo(eager).val = eager
    BY <2>3, SetToType
  <2>5. user # NoUser /\ ~AdoptsAccounts => Said(<<SetTo(eager)>>, user)
    <3>1. user # NoUser /\ ~AdoptsAccounts => eager \in Seq(Held(user))
      BY <1>1, <1>3, <2>2, HeldForm DEF Kept
    <3> QED
      BY <2>4, <3>1 DEF Said
  <2>6. <<SetTo(eager)>> \in Seq(Update)
    BY <2>4
  <2>7. StopUpdate(gen + 1) \in Seq(Update) /\ Said(StopUpdate(gen + 1), user)
    BY <1>2, BareSaid DEF Bare
  <2>8. us \in Seq(Update)
    BY <2>6, <2>7, ConcatProperties
  <2>9. user # NoUser /\ ~AdoptsAccounts => Said(us, user)
    BY <2>5, <2>6, <2>7, SaidConcat
  <2>10. ClickRender(us, gen + 1)
    BY <1>5
  <2> HIDE DEF us
  <2> QED
    BY <1>3, <2>8, <2>9, <2>10, ClickKeeps
<1> QED
  BY <1>4, <1>5 DEF Stop

LEMMA LeaveMsgs == ASSUME IInv, NEW saves \in BOOLEAN, Leave(saves) PROVE MsgInv'
<1>0. MsgInv /\ CtlInv /\ mounted
  BY Halves DEF Leave, Gesture
<1>1. /\ mounted' = FALSE /\ shown' = <<>> /\ queue' = <<>> /\ latest' = <<>> /\ post' = 0
      /\ saveTimer' = FALSE /\ failed' = FALSE /\ UNCHANGED user
  BY DEF Leave
<1> DEFINE yes == saves /\ saveTimer
<1>2. /\ yes \in BOOLEAN
      /\ saved' = [u \in Users |-> IF yes /\ StoredFor(u) THEN Trim(latest) ELSE saved[u]]
  BY DEF Leave
<1> HIDE DEF yes
<1>3. /\ saved' \in [Users -> Seq(Message)] /\ \A u \in Users : Len(saved'[u]) <= MaxStored
      /\ ~AdoptsAccounts => \A u \in Users : \A m \in Range(saved'[u]) : m.by = u
  BY <1>0, <1>2, SaveForm
<1>4. MsgType'
  <2>1. shown' \in Seq(Message) /\ latest' \in Seq(Message) /\ queue' \in Seq(Update)
    BY <1>1, EmptySeq
  <2> QED
    BY <1>1, <1>3, <2>1 DEF MsgType
<1>5. PageShape'
  BY <1>1 DEF PageShape
<1>6. OwnerShape'
  BY <1>1, <1>3 DEF OwnerShape, OwnerOnly, SavedOrDue
<1> QED
  BY <1>4, <1>5, <1>6 DEF MsgInv

LEMMA OwnedSeq ==
  ASSUME NEW w, NEW ms \in Seq(Message)
  PROVE  ms \in Seq(Held(w)) <=> \A m \in Range(ms) : m.by = w
<1>1. Range(ms) \subseteq Message
  BY RangeOfSeq
<1>2. ASSUME \A m \in Range(ms) : m.by = w PROVE ms \in Seq(Held(w))
  <2>1. Range(ms) \subseteq Held(w)
    BY <1>1, <1>2 DEF Held
  <2>2. ms \in Seq(Range(ms))
    BY SeqOfRange
  <2> QED
    BY <2>1, <2>2, SeqMonotonic
<1>3. ASSUME ms \in Seq(Held(w)) PROVE \A m \in Range(ms) : m.by = w
  <2>1. Range(ms) \subseteq Held(w)
    BY <1>3, RangeOfSeq
  <2> QED
    BY <2>1 DEF Held
<1> QED
  BY <1>2, <1>3

LEMMA MountMsgs == ASSUME IInv, Mount PROVE MsgInv'
<1>0. MsgInv /\ user \in Users
  BY Halves DEF CtlInv, CtlType, Mount
<1>1. /\ mounted' = TRUE /\ latest' = shown'
      /\ UNCHANGED <<user, queue, saveTimer>> /\ queue = <<>>
  BY <1>0 DEF Mount, MsgInv, PageShape
<1>2. saved[user] \in Seq(Message)
  BY <1>0 DEF MsgInv, MsgType
<1>3. ASSUME NEW S, S \in {Message, Held(user)}, saved[user] \in Seq(S)
      PROVE  shown' \in Seq(S) /\ Len(shown') <= MaxStored
  <2>1. CASE shown' = <<>>
    BY <2>1, EmptySeq
  <2>2. CASE \E long, n : n \in 1..MaxStored /\ shown' = Loaded(saved[user], long, n)
    BY <1>3, <2>2, LoadedType
  <2> QED
    BY <2>1, <2>2 DEF Mount
<1>4. shown' \in Seq(Message) /\ Len(shown') <= MaxStored
  BY <1>2, <1>3
<1>5. ~AdoptsAccounts => shown' \in Seq(Held(user))
  <2>1. ~AdoptsAccounts => saved[user] \in Seq(Held(user))
    BY <1>0, <1>2, OwnedSeq DEF MsgInv, OwnerShape, OwnerOnly
  <2> QED
    BY <1>3, <2>1
<1>6. /\ failed' \in BOOLEAN
      /\ \/ saved' = [saved EXCEPT ![user] = shown']
         \/ saved' = saved /\ failed'
  BY DEF Mount, SavedAfterLoad
<1>7. MsgType'
  BY <1>0, <1>1, <1>4, <1>6 DEF MsgInv, MsgType
<1>8. PageShape'
  BY <1>1 DEF PageShape
<1>9. OwnerShape'
  <2> SUFFICES ASSUME ~AdoptsAccounts PROVE OwnerShape'
    BY DEF OwnerShape
  <2>1. OwnerOnly'
    <3> SUFFICES ASSUME NEW u \in Users PROVE \A m \in Range(saved'[u]) : m.by = u
      BY DEF OwnerOnly
    <3>1. CASE saved'[u] = shown' /\ u = user
      BY <1>4, <1>5, <3>1, OwnedSeq
    <3>2. CASE saved'[u] = saved[u]
      BY <1>0, <3>2 DEF MsgInv, OwnerShape, OwnerOnly
    <3> QED
      BY <1>0, <1>6, <3>1, <3>2 DEF MsgInv, MsgType
  <2>2. SavedOrDue'
    <3>1. ~failed' => saved'[user] = shown'
      BY <1>0, <1>6 DEF MsgInv, MsgType
    <3>2. Trim(shown') = shown'
      BY <1>4, TrimType
    <3> QED
      BY <1>1, <3>1, <3>2 DEF SavedOrDue
  <2> QED
    BY <1>1, <1>5, <2>1, <2>2 DEF OwnerShape
<1> QED
  BY <1>7, <1>8, <1>9 DEF MsgInv

LEMMA UserMsgs == ASSUME IInv, NEW u \in Users \cup {NoUser}, SetUser(u) PROVE MsgInv'
<1>0. MsgInv
  BY Halves
<1>1. UNCHANGED <<mounted, shown, queue, latest, saveTimer, saved, failed, post>> /\ user' = u
  BY DEF SetUser, persist, chat
<1>2. ~AdoptsAccounts /\ mounted => u = NoUser
  BY DEF SetUser
<1>3. MsgType'
  BY <1>0, <1>1 DEF MsgInv, MsgType
<1>4. PageShape'
  BY <1>0, <1>1 DEF MsgInv, PageShape
<1>5. OwnerShape'
  BY <1>0, <1>1, <1>2 DEF MsgInv, OwnerShape, OwnerOnly, SavedOrDue
<1> QED
  BY <1>3, <1>4, <1>5 DEF MsgInv

LEMMA OtherMsgs ==
  ASSUME IInv, CloseEdit \/ (\E i \in DOMAIN shown : OpenEdit(i))
  PROVE  MsgInv'
<1>1. UNCHANGED <<user, mounted, shown, queue, latest, saveTimer, saved, failed, post>>
  BY DEF CloseEdit, OpenEdit, persist, chat
<1> QED
  BY <1>1, Halves, MsgStutter

(* Every step keeps the messages where and whose they should be.           *)
LEMMA NextMsgs == IInv /\ [Next]_vars => MsgInv'
<1> SUFFICES ASSUME IInv, [Next]_vars PROVE MsgInv'
  OBVIOUS
<1>1. CASE UNCHANGED vars
  BY <1>1, Halves, MsgStutter DEF vars
<1>2. CASE Progress
  BY <1>2, RenderMsgs, FlushMsgs, RespondMsgs, HeadersMsgs, DeliverMsgs, EndMsgs DEF Progress
<1>3. ASSUME NEW i \in DOMAIN shown, Regenerate(i) \/ OpenEdit(i) \/ ApplyEdit(i) PROVE MsgInv'
  BY <1>3, RegenerateMsgs, OtherMsgs, EditMsgs
<1> QED
  BY <1>1, <1>2, <1>3, SaveMsgs, DeliverMsgs, SendMsgs, DeleteMsgs, StopMsgs, MountMsgs,
     OtherMsgs, LeaveMsgs, UserMsgs DEF Next

-----------------------------------------------------------------------------
(* The request, the stream controller and the page                         *)

LEMMA CtlForm ==
  ASSUME CtlInv
  PROVE  /\ gen \in Nat /\ ctl \in Nat /\ gestures \in Nat /\ got \in Nat
         /\ pend.gen \in Gens /\ pend.text \in Text
         /\ pend = [gen |-> pend.gen, text |-> pend.text]
         /\ busy.req \in BOOLEAN /\ busy.stream \in BOOLEAN
         /\ \A h \in headers : h.ctl \in Gens /\ h.gen \in Gens /\ h.ctl \in Nat
         /\ \A s \in sources :
              /\ s.ctl \in Gens /\ s.gen \in Gens /\ s.snapshot \in BOOLEAN
              /\ s.sent \in 0..ReplyLen /\ s.cut \in BOOLEAN
         /\ 0 \in Gens
<1>1. gen \in Gens /\ ctl \in Gens /\ gestures \in Nat /\ got \in Nat
  BY DEF CtlInv, CtlType
<1>2. \A h \in headers : h.ctl \in Gens /\ h.gen \in Gens
  BY DEF CtlInv, CtlType
<1>3. \A s \in sources : /\ s.ctl \in Gens /\ s.gen \in Gens /\ s.snapshot \in BOOLEAN
                         /\ s.sent \in 0..ReplyLen /\ s.cut \in BOOLEAN
  BY DEF CtlInv, CtlType, Source
<1>4. /\ pend.gen \in Gens /\ pend.text \in Text
      /\ pend = [gen |-> pend.gen, text |-> pend.text]
      /\ busy.req \in BOOLEAN /\ busy.stream \in BOOLEAN
  BY DEF CtlInv, CtlType
<1> QED
  BY <1>1, <1>2, <1>3, <1>4, GensForm

(* Steps that leave the request and the controller alone.                  *)
LEMMA CtlFrame ==
  ASSUME CtlInv, user' \in Users \cup {NoUser}, busyShown' \in BOOLEAN,
         editing' \in [from : {"none", "user", "assistant"}, key : Gens],
         gestures' \in 0..MaxGestures, gestures' >= gestures,
         mounted' \in BOOLEAN, mounted => mounted', raced' \in BOOLEAN,
         UNCHANGED <<busy, reqs, chat, stream>>
  PROVE  CtlInv'
<1>1. CtlType'
  BY DEF CtlInv, CtlType, chat, stream
<1>2. GenShape'
  BY CtlForm DEF CtlInv, GenShape, chat, stream
<1>3. HeaderShape'
  BY DEF CtlInv, HeaderShape, chat, stream
<1>4. SourceShape'
  BY DEF CtlInv, SourceShape, chat, stream
<1> QED
  BY <1>1, <1>2, <1>3, <1>4 DEF CtlInv

LEMMA NoEditType == NoEdit \in [from : {"none", "user", "assistant"}, key : Gens]
<1>1. 0 \in Gens
  BY GensForm
<1> QED
  BY <1>1 DEF NoEdit

LEMMA QuietCtl ==
  ASSUME IInv, Render \/ SaveFires \/ Mount \/ CloseEdit \/ Delete \/ UNCHANGED vars
  PROVE  CtlInv'
<1>0. CtlInv
  BY Halves
<1>1. UNCHANGED <<busy, reqs, chat, stream, user, raced>> /\ mounted' \in BOOLEAN /\ (mounted => mounted')
  BY <1>0 DEF Render, SaveFires, Mount, CloseEdit, Delete, Gesture, page, vars, chat, stream,
     CtlInv, CtlType
<1>2. gestures' \in 0..MaxGestures /\ gestures' >= gestures
  BY <1>0 DEF Render, SaveFires, Mount, CloseEdit, Delete, Gesture, page, vars, CtlInv, CtlType
<1>3. busyShown' \in BOOLEAN
  BY <1>0 DEF Render, SaveFires, Mount, CloseEdit, Delete, ClickRender, page, vars, CtlInv, CtlType
<1>4. editing' \in [from : {"none", "user", "assistant"}, key : Gens]
  <2>1. editing' = editing \/ editing' = NoEdit
    BY DEF Render, SaveFires, Mount, CloseEdit, Delete, page, vars
  <2> QED
    BY <1>0, <2>1, NoEditType DEF CtlInv, CtlType
<1> QED
  BY <1>0, <1>1, <1>2, <1>3, <1>4, CtlFrame DEF CtlInv, CtlType

LEMMA OpenEditCtl == ASSUME IInv, NEW i \in DOMAIN shown, OpenEdit(i) PROVE CtlInv'
<1>0. CtlInv /\ shown[i] \in Message
  BY Halves DEF MsgInv, MsgType
<1>1. editing' \in [from : {"none", "user", "assistant"}, key : Gens]
  BY <1>0 DEF OpenEdit, Message
<1>2. /\ UNCHANGED <<busy, reqs, raced, chat, stream, user, mounted, busyShown>>
      /\ gestures' \in 0..MaxGestures /\ gestures' >= gestures
  BY <1>0 DEF OpenEdit, Gesture, CtlInv, CtlType
<1> QED
  BY <1>0, <1>1, <1>2, CtlFrame DEF CtlInv, CtlType

LEMMA UserCtl == ASSUME IInv, NEW u \in Users \cup {NoUser}, SetUser(u) PROVE CtlInv'
<1>0. CtlInv
  BY Halves
<1>2. /\ UNCHANGED <<busy, reqs, raced, chat, stream, editing, mounted, busyShown>> /\ user' = u
      /\ gestures' \in 0..MaxGestures /\ gestures' >= gestures
  BY <1>0 DEF SetUser, CtlInv, CtlType
<1> QED
  BY <1>0, <1>2, CtlFrame DEF CtlInv, CtlType

(* A new controller generation: no source is left, and the only send that  *)
(* may wait under it is the one of the new request.                        *)
LEMMA SupersedeKeeps ==
  ASSUME IInv, gestures < MaxGestures, gestures' = gestures + 1, gen' = gen + 1, got' = 0,
         pend' = [gen |-> gen + 1, text |-> <<>>], NEW wait, Supersede(wait),
         \/ wait = {}
         \/ wait = {[ctl |-> ctl + 1, gen |-> gen + 1]} /\ mounted'
  PROVE  /\ GenShape' /\ HeaderShape' /\ SourceShape'
         /\ gen' \in Gens /\ ctl' \in Gens /\ active' \in Gens
         /\ pend' \in [gen : Gens, text : Text]
         /\ headers' \subseteq [ctl : Gens, gen : Gens] /\ sources' \subseteq Source
         /\ gestures' \in 0..MaxGestures /\ got' \in 0..ReplyLen
<1>0. CtlInv /\ gen + 1 \in Gens /\ ctl + 1 \in Gens /\ gestures \in Nat
  BY Halves, GenRoom
<1>1. /\ gen \in Nat /\ ctl \in Nat /\ gen + 1 <= gestures' /\ ctl + 1 <= gestures'
      /\ \A h \in headers : h.ctl \in Nat
  BY <1>0, GenRoom, CtlForm
<1>2. sources' = {}
  BY <1>0 DEF Supersede, CloseActive, CtlInv, SourceShape
<1>3. ctl' = ctl + 1 /\ active' = 0 /\ headers' = headers \cup wait
  BY DEF Supersede
<1>4. GenShape'
  BY <1>1, <1>3 DEF GenShape
<1>5. HeaderShape'
  <2>1. \A h \in headers : h.ctl \in Nat /\ h.ctl <= ctl /\ h.ctl # ctl + 1
    BY <1>0, <1>1 DEF CtlInv, HeaderShape
  <2>2. \A h \in wait : h.ctl = ctl + 1 /\ h.gen = gen + 1 /\ mounted'
    OBVIOUS
  <2>3. \A h, k \in wait : h = k
    OBVIOUS
  <2>4. \A h, k \in headers' : h.ctl = k.ctl => h = k
    BY <1>0, <1>3, <2>1, <2>2, <2>3 DEF CtlInv, HeaderShape
  <2>5. \A h \in headers' : h.ctl <= ctl'
    BY <1>1, <1>3, <2>1, <2>2
  <2>6. \A h \in headers' : h.ctl = ctl' => h \in wait
    BY <1>3, <2>1
  <2> QED
    BY <1>2, <2>2, <2>4, <2>5, <2>6 DEF HeaderShape
<1>6. SourceShape'
  BY <1>2 DEF SourceShape
<1>7. headers' \subseteq [ctl : Gens, gen : Gens]
  BY <1>0, <1>3 DEF CtlInv, CtlType
<1>8. pend' \in [gen : Gens, text : Text]
  BY <1>0, EmptySeq DEF Text
<1> QED
  BY <1>0, <1>1, <1>2, <1>3, <1>4, <1>5, <1>6, <1>7, <1>8, GensForm, SMTT(30)

LEMMA SendChatCtl ==
  ASSUME IInv, NEW next, SendChat(next), Gesture, UNCHANGED <<user, mounted>>, raced' \in BOOLEAN,
         editing' \in [from : {"none", "user", "assistant"}, key : Gens]
  PROVE  CtlInv'
<1>0. CtlInv /\ gen \in Gens /\ gen + 1 \in Gens /\ mounted'
  BY Halves, GenRoom DEF Gesture
<1>1. PICK wait : /\ Supersede(wait)
                  /\ \/ wait = {}
                     \/ wait = {[ctl |-> ctl + 1, gen |-> gen + 1]} /\ mounted'
  BY <1>0 DEF SendChat
<1>2. /\ gen' = gen + 1 /\ got' = 0 /\ pend' = [gen |-> gen + 1, text |-> <<>>]
      /\ gestures < MaxGestures /\ gestures' = gestures + 1
  BY DEF SendChat, Discard, Gesture
<1>3. /\ GenShape' /\ HeaderShape' /\ SourceShape'
      /\ gen' \in Gens /\ ctl' \in Gens /\ active' \in Gens
      /\ pend' \in [gen : Gens, text : Text]
      /\ headers' \subseteq [ctl : Gens, gen : Gens] /\ sources' \subseteq Source
      /\ gestures' \in 0..MaxGestures /\ got' \in 0..ReplyLen
  BY <1>1, <1>2, SupersedeKeeps
<1>4. timer' \in Gens /\ post' \in Gens /\ reqs' \in 0..MaxReq
  BY <1>0, GensForm DEF SendChat, Discard, CtlInv, CtlType
<1>5. busy' \in [req : BOOLEAN, stream : BOOLEAN] /\ busyShown' \in BOOLEAN
  BY DEF SendChat, ClickRender
<1>6. CtlType'
  BY <1>0, <1>3, <1>4, <1>5 DEF CtlInv, CtlType
<1> QED
  BY <1>3, <1>6 DEF CtlInv

LEMMA SendCtl == ASSUME IInv, Send \/ (\E i \in DOMAIN shown : Regenerate(i)) PROVE CtlInv'
<1>1. editing \in [from : {"none", "user", "assistant"}, key : Gens] /\ raced \in BOOLEAN
  BY Halves DEF CtlInv, CtlType
<1> QED
  BY <1>1, SendChatCtl DEF Send, Regenerate

LEMMA EditCtl == ASSUME IInv, NEW i \in DOMAIN shown, ApplyEdit(i) PROVE CtlInv'
<1>0. CtlInv
  BY Halves
<1>1. /\ editing' \in [from : {"none", "user", "assistant"}, key : Gens]
      /\ Gesture /\ UNCHANGED <<user, mounted>>
  BY NoEditType DEF ApplyEdit
<1>4. raced' \in BOOLEAN
  BY Zenon DEF ApplyEdit
<1>2. CASE \E ms : SendChat(ms)
  BY <1>1, <1>2, <1>4, SendChatCtl
<1>3. CASE busy' = busy /\ (\E us : ClickRender(us, gen)) /\ UNCHANGED <<reqs, chat, stream>>
  <2>1. busyShown' \in BOOLEAN /\ gestures' \in 0..MaxGestures /\ gestures' >= gestures
    BY <1>0, <1>1, <1>3 DEF ClickRender, Gesture, CtlInv, CtlType
  <2> QED
    BY <1>0, <1>1, <1>3, <1>4, <2>1, CtlFrame DEF CtlInv, CtlType
<1> QED
  BY <1>2, <1>3 DEF ApplyEdit

LEMMA StopCtl == ASSUME IInv, Stop PROVE CtlInv'
<1>0. CtlInv
  BY Halves
<1>1. /\ gen' = gen + 1 /\ got' = 0 /\ pend' = [gen |-> gen + 1, text |-> <<>>]
      /\ gestures < MaxGestures /\ gestures' = gestures + 1 /\ Supersede({})
  BY DEF Stop, Discard, Gesture
<1>2. /\ GenShape' /\ HeaderShape' /\ SourceShape'
      /\ gen' \in Gens /\ ctl' \in Gens /\ active' \in Gens
      /\ pend' \in [gen : Gens, text : Text]
      /\ headers' \subseteq [ctl : Gens, gen : Gens] /\ sources' \subseteq Source
      /\ gestures' \in 0..MaxGestures /\ got' \in 0..ReplyLen
  BY <1>1, SupersedeKeeps
<1>3. /\ timer' = 0 /\ post' = 0 /\ busyShown' \in BOOLEAN /\ busy' = Idle
      /\ UNCHANGED <<user, mounted, editing, reqs, raced>>
  BY DEF Stop, Discard, ClickRender, AfterStop
<1>4. CtlType'
  BY <1>0, <1>2, <1>3, GensForm DEF CtlInv, CtlType, Idle
<1> QED
  BY <1>2, <1>4 DEF CtlInv

LEMMA LeaveCtl == ASSUME IInv, NEW saves \in BOOLEAN, Leave(saves) PROVE CtlInv'
<1>0. CtlInv
  BY Halves
<1>1. /\ gen' = gen + 1 /\ got' = 0 /\ pend' = [gen |-> gen + 1, text |-> <<>>]
      /\ gestures < MaxGestures /\ gestures' = gestures + 1 /\ Supersede({})
  BY DEF Leave, Gesture
<1>2. /\ GenShape' /\ HeaderShape' /\ SourceShape'
      /\ gen' \in Gens /\ ctl' \in Gens /\ active' \in Gens
      /\ pend' \in [gen : Gens, text : Text]
      /\ headers' \subseteq [ctl : Gens, gen : Gens] /\ sources' \subseteq Source
      /\ gestures' \in 0..MaxGestures /\ got' \in 0..ReplyLen
  BY <1>1, SupersedeKeeps
<1>3. /\ timer' = 0 /\ post' = 0 /\ busyShown' = FALSE /\ busy' = Idle
      /\ mounted' = FALSE /\ editing' = NoEdit /\ UNCHANGED <<user, reqs, raced>>
  BY DEF Leave
<1>4. CtlType'
  <2>1. timer' \in Gens /\ post' \in Gens
    BY <1>3, GensForm
  <2>2. busy' \in [req : BOOLEAN, stream : BOOLEAN]
    BY <1>3 DEF Idle
  <2> QED
    BY <1>0, <1>2, <1>3, <2>1, <2>2, NoEditType DEF CtlInv, CtlType
<1> QED
  BY <1>2, <1>4 DEF CtlInv

(* What flushStreamUpdates leaves of the buffer.                           *)
LEMMA FlushedForm ==
  ASSUME CtlInv, NEW g \in Gens, Flushed(g)
  PROVE  pend' \in [gen : Gens, text : Text] /\ pend'.gen = gen /\ timer' \in Gens
<1>1. CASE g # gen
  BY <1>1 DEF Flushed, CtlInv, CtlType, GenShape
<1>2. CASE g = gen
  <2>1. pend.gen = gen
    BY DEF CtlInv, GenShape
  <2>2. timer' = 0 /\ pend' = [pend EXCEPT !.text = <<>>]
    BY <1>2, <2>1 DEF Flushed
  <2>3. <<>> \in Text /\ pend \in [gen : Gens, text : Text]
    BY EmptySeq DEF Text, CtlInv, CtlType
  <2> QED
    BY <2>1, <2>2, <2>3, GensForm
<1> QED
  BY <1>1, <1>2

LEMMA EndedForm ==
  ASSUME CtlInv, NEW g \in Gens, NEW kind, Ended(g, kind)
  PROVE  pend' \in [gen : Gens, text : Text] /\ pend'.gen = gen /\ timer' \in Gens
<1>1. CASE g # gen
  BY <1>1 DEF Ended, CtlInv, CtlType, GenShape
<1>2. CASE g = gen
  BY <1>2, FlushedForm DEF Ended
<1> QED
  BY <1>1, <1>2

LEMMA FlushCtl == ASSUME IInv, FlushFires PROVE CtlInv'
<1>0. CtlInv /\ timer \in Gens
  BY Halves DEF CtlInv, CtlType
<1>1. /\ pend' \in [gen : Gens, text : Text] /\ pend'.gen = gen /\ timer' \in Gens
      /\ UNCHANGED <<page, busy, busyShown, stream, gen, post, got>>
  BY <1>0, FlushedForm DEF FlushFires
<1>2. CtlType' /\ GenShape'
  BY <1>0, <1>1 DEF CtlInv, CtlType, GenShape, page, stream
<1>3. HeaderShape' /\ SourceShape'
  BY <1>0, <1>1 DEF CtlInv, HeaderShape, SourceShape, page, stream
<1> QED
  BY <1>2, <1>3 DEF CtlInv

LEMMA RespondCtl == ASSUME IInv, Respond PROVE CtlInv'
<1>0. CtlInv /\ gen \in Gens
  BY Halves DEF CtlInv, CtlType
<1>1. /\ pend' \in [gen : Gens, text : Text] /\ pend'.gen = gen /\ timer' \in Gens
  <2>1. CASE UNCHANGED <<pend, timer>>
    BY <1>0, <2>1 DEF CtlInv, CtlType, GenShape
  <2>2. CASE Ended(gen, "error")
    BY <1>0, <2>2, EndedForm
  <2> QED
    BY <2>1, <2>2 DEF Respond
<1>2. /\ post' \in Gens /\ UNCHANGED <<page, busyShown, stream, gen, got>>
      /\ busy' \in [req : BOOLEAN, stream : BOOLEAN] /\ busy'.stream = busy.stream
  <2>1. post' \in Gens /\ UNCHANGED <<page, busyShown, stream, gen, got>>
    BY GensForm DEF Respond
  <2>2. busy' = [busy EXCEPT !.req = FALSE] /\ busy \in [req : BOOLEAN, stream : BOOLEAN]
    BY <1>0 DEF Respond, CtlInv, CtlType
  <2> QED
    BY <2>1, <2>2
<1>3. CtlType' /\ GenShape'
  BY <1>0, <1>1, <1>2 DEF CtlInv, CtlType, GenShape, page, stream
<1>4. HeaderShape' /\ SourceShape'
  BY <1>0, <1>2 DEF CtlInv, HeaderShape, SourceShape, page, stream
<1> QED
  BY <1>3, <1>4 DEF CtlInv

LEMMA NotRequestingType ==
  ASSUME CtlInv, NEW g
  PROVE  NotRequesting(g) \in BOOLEAN
  BY CtlForm DEF NotRequesting

LEMMA HeadersCtl == ASSUME IInv, NEW h \in headers, HeadersSettle(h) PROVE CtlInv'
<1>0. CtlInv /\ h.ctl \in Gens /\ h.gen \in Gens
  BY Halves, CtlForm
<1>1. headers' = headers \ {h} /\ UNCHANGED <<page, busyShown, gen, post, ctl, got>>
  BY DEF HeadersSettle
<1>2. CASE ~HeadersCurrent(h) /\ UNCHANGED <<sources, active, busy, pend, timer>>
  <2>1. CtlType' /\ GenShape'
    BY <1>0, <1>1, <1>2 DEF CtlInv, CtlType, GenShape, page
  <2>2. HeaderShape' /\ SourceShape'
    BY <1>0, <1>1, <1>2 DEF CtlInv, HeaderShape, SourceShape, page
  <2> QED
    BY <2>1, <2>2 DEF CtlInv
<1>3. CASE /\ HeadersCurrent(h)
           /\ \E snap \in BOOLEAN :
                sources' = sources \cup {[ctl |-> h.ctl, gen |-> h.gen, snapshot |-> snap,
                                          sent |-> 0, cut |-> FALSE]}
           /\ active' = h.ctl
           /\ busy' = [busy EXCEPT !.stream = TRUE]
           /\ UNCHANGED <<pend, timer>>
  <2>1. PICK s \in Source : /\ sources' = sources \cup {s}
                            /\ s.ctl = h.ctl /\ s.gen = h.gen /\ s.sent = 0
    <3>1. PICK snap \in BOOLEAN :
            sources' = sources \cup {[ctl |-> h.ctl, gen |-> h.gen, snapshot |-> snap,
                                      sent |-> 0, cut |-> FALSE]}
      BY <1>3
    <3>2. [ctl |-> h.ctl, gen |-> h.gen, snapshot |-> snap, sent |-> 0, cut |-> FALSE] \in Source
      BY <1>0 DEF Source
    <3> QED
      BY <3>1, <3>2
  <2>2. h.ctl = ctl /\ mounted /\ h.gen = gen /\ sources = {} /\ got = 0
    BY <1>0, <1>3 DEF HeadersCurrent, CtlInv, HeaderShape
  <2>3. busy' \in [req : BOOLEAN, stream : BOOLEAN] /\ busy'.stream
    BY <1>0, <1>3 DEF CtlInv, CtlType
  <2>4. CtlType' /\ GenShape'
    BY <1>0, <1>1, <1>3, <2>1, <2>2, <2>3 DEF CtlInv, CtlType, GenShape, page
  <2>5. HeaderShape'
    BY <1>0, <1>1, <2>2 DEF CtlInv, HeaderShape, page
  <2>6. SourceShape'
    BY <1>1, <1>3, <2>1, <2>2, <2>3 DEF SourceShape, page
  <2> QED
    BY <2>4, <2>5, <2>6 DEF CtlInv
<1>4. CASE /\ Ended(h.gen, "error")
           /\ busy' = [busy EXCEPT !.req = NotRequesting(h.gen)]
           /\ UNCHANGED <<sources, active>>
  <2>1. pend' \in [gen : Gens, text : Text] /\ pend'.gen = gen /\ timer' \in Gens
    BY <1>0, <1>4, EndedForm
  <2>2. busy' \in [req : BOOLEAN, stream : BOOLEAN] /\ busy'.stream = busy.stream
    BY <1>0, <1>4, NotRequestingType DEF CtlInv, CtlType
  <2>3. CtlType' /\ GenShape'
    BY <1>0, <1>1, <1>4, <2>1, <2>2 DEF CtlInv, CtlType, GenShape, page
  <2>4. HeaderShape' /\ SourceShape'
    BY <1>0, <1>1, <1>4, <2>2 DEF CtlInv, HeaderShape, SourceShape, page
  <2> QED
    BY <2>3, <2>4 DEF CtlInv
<1> QED
  BY <1>2, <1>3, <1>4 DEF HeadersSettle

LEMMA EndCtl == ASSUME IInv, NEW s \in sources, StreamEnds(s) PROVE CtlInv'
<1>0. CtlInv /\ s.gen \in Gens
  BY Halves, CtlForm
<1>1. /\ sources' = {} /\ active' = 0 /\ UNCHANGED <<page, busyShown, gen, post, ctl, headers, got>>
  BY <1>0 DEF StreamEnds, CloseActive, CtlInv, SourceShape
<1>2. pend' \in [gen : Gens, text : Text] /\ pend'.gen = gen /\ timer' \in Gens
  BY <1>0, EndedForm DEF StreamEnds
<1>3. busy' \in [req : BOOLEAN, stream : BOOLEAN]
  BY <1>0, NotRequestingType DEF StreamEnds
<1>4. CtlType' /\ GenShape'
  BY <1>0, <1>1, <1>2, <1>3, GensForm DEF CtlInv, CtlType, GenShape, page
<1>5. HeaderShape' /\ SourceShape'
  BY <1>0, <1>1 DEF CtlInv, HeaderShape, SourceShape, page
<1> QED
  BY <1>4, <1>5 DEF CtlInv

LEMMA CutCtl == ASSUME IInv, NEW s \in sources, StreamCut(s) PROVE CtlInv'
<1> DEFINE t == [s EXCEPT !.cut = TRUE]
<1>0. CtlInv /\ s \in Source /\ sources = {s}
  BY Halves DEF CtlInv, CtlType, SourceShape
<1>1. t \in Source /\ t.ctl = s.ctl /\ t.gen = s.gen /\ t.sent = s.sent
  BY <1>0 DEF Source
<1>2. sources' = {t} /\ UNCHANGED <<chat, page, busy, busyShown, ctl, headers, active>>
  BY <1>0 DEF StreamCut
<1> HIDE DEF t
<1>3. CtlType' /\ GenShape'
  BY <1>0, <1>1, <1>2 DEF CtlInv, CtlType, GenShape, page, chat
<1>4. HeaderShape'
  BY <1>0, <1>2 DEF CtlInv, HeaderShape, page, chat
<1>5. SourceShape'
  BY <1>0, <1>1, <1>2 DEF CtlInv, SourceShape, page, chat
<1> QED
  BY <1>3, <1>4, <1>5 DEF CtlInv

(* A piece arrives: the handler takes it, since buffer and source belong   *)
(* to the current request.                                                 *)
LEMMA DeliverCtl == ASSUME IInv, NEW s \in sources, Deliver(s) PROVE CtlInv'
<1> DEFINE t == [s EXCEPT !.sent = s.sent + 1]
           chunk == IF s.snapshot THEN SubSeq(Reply(s.gen), 1, s.sent + 1)
                    ELSE <<Reply(s.gen)[s.sent + 1]>>
<1>0. CtlInv /\ s \in Source /\ sources = {s} /\ s.gen = gen /\ pend.gen = gen /\ s.sent = got
  BY Halves DEF CtlInv, CtlType, SourceShape, GenShape
<1>1. s.sent \in 0..ReplyLen /\ s.sent < ReplyLen /\ s.gen \in Gens
  BY <1>0 DEF Deliver, Source
<1>2. t \in Source /\ t.ctl = s.ctl /\ t.gen = s.gen /\ t.sent = s.sent + 1
  BY <1>0, <1>1 DEF Source
<1>3. chunk \in Text
  <2>1. Reply(s.gen) \in Text /\ Len(Reply(s.gen)) = ReplyLen
    BY <1>1, ReplyType
  <2>2. \A i \in 1..(s.sent + 1) : Reply(s.gen)[i] \in Gens \X (1..ReplyLen)
    BY <1>1, <2>1 DEF Text
  <2>3. SubSeq(Reply(s.gen), 1, s.sent + 1) \in Text
    BY <1>1, <2>2, SubSeqProperties DEF Text
  <2>4. <<Reply(s.gen)[s.sent + 1]>> \in Text
    BY <1>1, <2>2 DEF Text
  <2> QED
    BY <2>3, <2>4
<1>4. /\ sources' = {t} /\ UNCHANGED <<page, busy, busyShown, gen, post, ctl, headers, active>>
      /\ pend' = [pend EXCEPT !.text = Buffered(chunk)]
      /\ timer' = IF timer = 0 THEN gen ELSE timer
      /\ got' = got + 1
  BY <1>0 DEF Deliver
<1> HIDE DEF t, chunk
<1>5. pend' \in [gen : Gens, text : Text] /\ pend'.gen = gen
  BY <1>0, <1>3, <1>4, CtlForm, JoinedType DEF Buffered, CtlInv, CtlType
<1>6. got' \in 0..ReplyLen
  BY <1>0, <1>1, <1>4
<1>7. CtlType' /\ GenShape'
  BY <1>0, <1>2, <1>4, <1>5, <1>6 DEF CtlInv, CtlType, GenShape, page
<1>8. HeaderShape'
  BY <1>0, <1>4 DEF CtlInv, HeaderShape, page
<1>9. SourceShape'
  BY <1>0, <1>2, <1>4 DEF CtlInv, SourceShape, page
<1> QED
  BY <1>7, <1>8, <1>9 DEF CtlInv

(* Every step keeps request, controller and page in step.                  *)
LEMMA NextCtl == IInv /\ [Next]_vars => CtlInv'
<1> SUFFICES ASSUME IInv, [Next]_vars PROVE CtlInv'
  OBVIOUS
<1>1. CASE Progress
  BY <1>1, QuietCtl, FlushCtl, RespondCtl, HeadersCtl, DeliverCtl, EndCtl DEF Progress
<1>2. ASSUME NEW i \in DOMAIN shown, Regenerate(i) \/ OpenEdit(i) \/ ApplyEdit(i) PROVE CtlInv'
  BY <1>2, SendCtl, OpenEditCtl, EditCtl
<1> QED
  BY <1>1, <1>2, QuietCtl, CutCtl, SendCtl, StopCtl, LeaveCtl, UserCtl DEF Next

-----------------------------------------------------------------------------
(* The theorems                                                            *)

LEMMA InitIInv == Init => IInv
<1> SUFFICES ASSUME Init PROVE IInv
  OBVIOUS
<1>1. 0 \in Gens /\ user \in Users
  BY GensForm DEF Init
<1>2. CtlInv
  <2>1. CtlType
    <3>1. pend \in [gen : Gens, text : Text]
      BY <1>1, EmptySeq DEF Init, Text
    <3>2. busy \in [req : BOOLEAN, stream : BOOLEAN]
      BY DEF Init, Idle
    <3> QED
      <4>1. editing \in [from : {"none", "user", "assistant"}, key : Gens]
        BY NoEditType DEF Init
      <4>2. gen \in Gens /\ timer \in Gens /\ post \in Gens /\ ctl \in Gens /\ active \in Gens
        BY <1>1 DEF Init
      <4>3. headers \subseteq [ctl : Gens, gen : Gens] /\ sources \subseteq Source
        BY DEF Init
      <4>4. reqs \in 0..MaxReq /\ gestures \in 0..MaxGestures /\ got \in 0..ReplyLen
        BY DEF Init
      <4>5. /\ user \in Users \cup {NoUser} /\ mounted \in BOOLEAN /\ busyShown \in BOOLEAN
            /\ raced \in BOOLEAN
        BY DEF Init
      <4> QED
        BY <3>1, <3>2, <4>1, <4>2, <4>3, <4>4, <4>5 DEF CtlType
  <2>2. GenShape /\ HeaderShape /\ SourceShape
    BY DEF Init, GenShape, HeaderShape, SourceShape
  <2> QED
    BY <2>1, <2>2 DEF CtlInv
<1> DEFINE m == UserMessage(0)
           n == [Complete(LoadingMessage(0)) EXCEPT !.text = Reply(0)]
<1>3. m \in Held(user) /\ n \in Held(user)
  <2>1. m \in Held(user) /\ LoadingMessage(0) \in Held(user)
    BY <1>1, <1>2, NewMessages
  <2>2. Reply(0) \in Seq(Gens \X (1..ReplyLen))
    BY <1>1, ReplyType DEF Text
  <2> QED
    BY <2>1, <2>2 DEF Held, Message, Complete
<1>4. shown \in {<<>>, <<m, n>>}
  BY DEF Init
<1> HIDE DEF m, n
<1>5. shown \in Seq(Held(user)) /\ Len(shown) <= MaxStored
  <2>1. CASE shown = <<>>
    BY <2>1, EmptySeq
  <2>2. CASE shown = <<m, n>>
    <3>1. <<m, n>> \in Seq(Held(user)) /\ Len(<<m, n>>) = 2
      BY <1>3
    <3> QED
      BY <2>2, <3>1
  <2> QED
    BY <1>4, <2>1, <2>2
<1>6. shown \in Seq(Message) /\ <<>> \in Seq(Message) /\ <<>> \in Seq(Update) /\ Len(<<>>) = 0
  BY <1>5, HeldIsMessage, EmptySeq
<1>7. /\ saved = [u \in Users |-> IF u = user THEN shown ELSE <<>>]
      /\ latest = shown /\ queue = <<>> /\ saveTimer = FALSE /\ failed = FALSE /\ mounted
  BY DEF Init
<1>8. MsgType
  <2>1. \A u \in Users : saved[u] \in Seq(Message) /\ Len(saved[u]) <= MaxStored
    BY <1>5, <1>6, <1>7
  <2>2. saved \in [Users -> Seq(Message)]
    BY <1>7, <2>1
  <2> QED
    BY <1>6, <1>7, <2>1, <2>2 DEF MsgType
<1>9. PageShape
  BY <1>7 DEF PageShape
<1>10. OwnerOnly
  <2> SUFFICES ASSUME NEW u \in Users PROVE \A x \in Range(saved[u]) : x.by = u
    BY DEF OwnerOnly
  <2>1. saved[u] \in Seq(Held(u))
    BY <1>5, <1>7, EmptySeq
  <2> QED
    BY <1>8, <2>1, OwnedSeq DEF MsgType
<1>11. SavedOrDue
  BY <1>1, <1>5, <1>7, TrimType DEF SavedOrDue
<1>12. OwnerShape
  BY <1>5, <1>7, <1>10, <1>11 DEF OwnerShape
<1> QED
  BY <1>2, <1>8, <1>9, <1>12, Halves DEF MsgInv

(* The state of request, stream and page stays consistent whatever the     *)
(* order of clicks, renders, timers and network events.                    *)
THEOREM ChatInvariance == Spec => []IInv
<1>1. IInv /\ [Next]_vars => IInv'
  BY NextMsgs, NextCtl, HalvesNext
<1> QED
  BY <1>1, InitIInv, PTL DEF Spec

(* Type correctness of the playground: the stored conversation never       *)
(* exceeds MAX_STORED_MESSAGES and the handler never takes more pieces     *)
(* than were sent.                                                         *)
THEOREM ChatTypeCorrect == Spec => []TypeOK
<1>1. IInv => TypeOK
  BY DEF IInv
<1> QED
  BY <1>1, ChatInvariance, PTL

(* At most one event source is open, and none that the page does not show  *)
(* (useStreamRequest: send, cancel and the generation check after await).  *)
THEOREM StreamsNeverLeak == Spec => []OneOpenStream
<1>1. IInv => OneOpenStream
  BY DEF IInv, SourceShape, OneOpenStream
<1> QED
  BY <1>1, ChatInvariance, PTL

(* While no refresh adopts another account under a mounted page, what is   *)
(* on the page is stored or about to be, or the last load or save threw    *)
(* (persistMessages, saveMessages, loadMessages).                          *)
THEOREM NothingUnsaved == ASSUME ~AdoptsAccounts PROVE Spec => []SavedOrDue
<1>1. IInv => SavedOrDue
  BY DEF IInv, OwnerShape
<1> QED
  BY <1>1, ChatInvariance, PTL

(* While no refresh adopts another account under a mounted page, every     *)
(* stored conversation was held with its account (getUserStorageKey).      *)
THEOREM StoredWithOwner == ASSUME ~AdoptsAccounts PROVE Spec => []OwnerOnly
<1>1. IInv => OwnerOnly
  BY DEF IInv, OwnerShape
<1> QED
  BY <1>1, ChatInvariance, PTL
=============================================================================

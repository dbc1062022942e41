------------------------ MODULE PlaygroundReplyProofs ------------------------
(***************************************************************************)
(* What the playground does to a reply, for any accounts, replies,         *)
(* requests and gestures, and whatever the pieces spell (Alike), until a   *)
(* save-edit click comes between an update and its render (raced):         *)
(* ~raced => ReplyInv is inductive together with IInv of                   *)
(* PlaygroundChatProofs.                                                   *)
(***************************************************************************)
EXTENDS PlaygroundChatProofs

USE UserAssumption, ReplyAssumption, ChatBoundAssumption
    DEF UserAssumption, ReplyAssumption, ChatBoundAssumption

-----------------------------------------------------------------------------
(* The invariant of replies                                                *)

(* What the next render will show.                                         *)
Now == ApplyAll(shown, queue, gen)

Waiting == \E h \in headers : h.ctl = ctl

(* The request is under way exactly while a send waits for its headers, a  *)
(* source is open or a plain request is not answered; the page looks busy  *)
(* until the render after its end; only an open source fills the buffer.   *)
BusyShape ==
  /\ busyShown <=> busy.req \/ busy.stream \/ queue # <<>>
  /\ busy.stream <=> sources # {}
  /\ busy.req => Waiting \/ post # 0 \/ sources # {}
  /\ Waiting => busy.req /\ post = 0
  /\ post # 0 => busy.req /\ post = gen /\ sources = {} /\ got = 0
  /\ pend.text # <<>> => timer # 0
  /\ timer # 0 => timer = gen /\ sources # {}
  /\ busy.req \/ busy.stream => gen # 0

(* Text made of pieces a + 1 to b of the reply to g, in their order: the   *)
(* last one of them always, all of them unless the reply echoes itself.    *)
Part(t, g, a, b) ==
  /\ t \in Text
  /\ \A i \in 1..Len(t) : t[i][1] = g /\ t[i][2] \in (a + 1)..b
  /\ \A i, j \in 1..Len(t) : i < j => t[i][2] < t[j][2]
  /\ a = b => t = <<>>
  /\ a < b => t # <<>> /\ t[Len(t)] = <<g, b>>
  /\ ~Echoes(g) => t = Piece(g, a, b)

OwnText(m) ==
  m.from = "assistant" /\ ~m.edited => \E b \in 0..ReplyLen : Part(m.text, m.key, 0, b)

(* A conversation: only its last message may be pending, and no two        *)
(* replies are of the same request.                                        *)
Sound(ms, g) ==
  /\ \A i \in DOMAIN ms : ms[i].key <= g /\ OwnText(ms[i])
  /\ \A i \in DOMAIN ms : i < Len(ms) => ~Pending(ms[i])
  /\ \A i, j \in DOMAIN ms :
       ms[i].from = "assistant" /\ ms[j].from = "assistant" /\ ms[i].key = ms[j].key => i = j

(* ns is ms up to status and text of the last message.                     *)
Follows(ms, ns) ==
  /\ Len(ns) = Len(ms)
  /\ \A i \in DOMAIN ms : i < Len(ms) => ns[i] = ms[i]
  /\ ms # <<>> =>
       /\ Last(ns).from = Last(ms).from /\ Last(ns).key = Last(ms).key
       /\ Last(ns).edited = Last(ms).edited /\ OwnText(Last(ns))

(* A busy page ends in the pending reply of the current request; any other *)
(* page has no pending message.                                            *)
ShownShape ==
  /\ Sound(shown, gen) /\ \A u \in Users : Sound(saved[u], gen)
  /\ busyShown => shown # <<>> /\ Pending(Last(shown)) /\ Last(shown).key = gen
  /\ ~busyShown => \A i \in DOMAIN shown : ~Pending(shown[i])
  /\ ~mounted => shown = <<>> /\ ~busyShown /\ got = 0

(* Updates are of the current request, after at most one that has run; the *)
(* next render shows a pending reply exactly while the request runs.       *)
QueueShape ==
  /\ \A i \in DOMAIN queue :
       IF queue[i].kind = "set" THEN i = 1 /\ Follows(shown, queue[i].val) ELSE queue[i].gen = gen
  /\ \/ latest = shown
     \/ queue # <<>> /\ queue[1].kind = "set" /\ latest = queue[1].val
  /\ Follows(shown, Now)
  /\ shown # <<>> => (Pending(Last(Now)) <=> busy.req \/ busy.stream)

(* A message of a pieces and the buffer make up what the source has sent;  *)
(* a source that sends snapshots leaves no gap.                            *)
Fits(t) ==
  \E a \in 0..got :
    /\ Part(t, gen, 0, a)
    /\ \A s \in sources : s.snapshot => t = Piece(gen, 0, a)
    /\ IF pend.text = <<>> THEN a = got
       ELSE a < got /\ \A s \in sources :
              IF s.snapshot THEN pend.text = Piece(gen, 0, got) ELSE Part(pend.text, gen, a, got)

(* All that the source has sent.                                           *)
Whole(t) ==
  Part(t, gen, 0, got) /\ \A s \in sources : s.snapshot => t = Piece(gen, 0, got)

(* An unedited reply of request g that did not fail.                       *)
Streams(m, g) == m.from = "assistant" /\ m.key = g /\ ~m.edited /\ m.st # "error"

(* The current request is a streaming one.                                 *)
Streamed == Waiting \/ sources # {} \/ got > 0

AllFit(ms) == \A i \in DOMAIN ms : Streams(ms[i], gen) => Fits(ms[i].text)

TextShape == Streamed => AllFit(Now)

ReplyInv == BusyShape /\ ShownShape /\ QueueShape /\ TextShape

-----------------------------------------------------------------------------
(* Running a queue in parts                                                *)

LEMMA ApplyAllConcat ==
  ASSUME NEW ms, NEW us \in Seq(Update), NEW vs \in Seq(Update), NEW g
  PROVE  ApplyAll(ms, us \o vs, g) = ApplyAll(ApplyAll(ms, us, g), vs, g)
<1> DEFINE ws == us \o vs
<1>1. /\ ws \in Seq(Update) /\ Len(ws) = Len(us) + Len(vs)
      /\ \A i \in 1..Len(us) : ws[i] = us[i]
      /\ \A i \in 1..Len(vs) : ws[Len(us) + i] = vs[i]
  BY ConcatProperties
<1> HIDE DEF ws
<1>2. PICK f : /\ \A i \in 0..Len(ws) : f[i] = IF i = 0 THEN ms ELSE Apply(f[i - 1], ws[i], g)
               /\ ApplyAll(ms, ws, g) = f[Len(ws)]
  <2>1. Len(ws) \in Nat
    BY <1>1
  <2> QED
    BY <2>1, ApplyAllSteps
<1>3. PICK h : /\ \A i \in 0..Len(us) : h[i] = IF i = 0 THEN ms ELSE Apply(h[i - 1], us[i], g)
               /\ ApplyAll(ms, us, g) = h[Len(us)]
  BY ApplyAllSteps
<1> DEFINE mid == ApplyAll(ms, us, g)
<1> HIDE DEF mid
<1>4. PICK k : /\ \A i \in 0..Len(vs) : k[i] = IF i = 0 THEN mid ELSE Apply(k[i - 1], vs[i], g)
               /\ ApplyAll(mid, vs, g) = k[Len(vs)]
  BY ApplyAllSteps
<1>5. f[Len(us)] = h[Len(us)]
  <2> DEFINE T == {n \in 0..Len(us) : f[n] # h[n]}
  <2>1. SUFFICES ASSUME T # {} PROVE FALSE
    OBVIOUS
  <2>2. PICK n \in T : \A y \in T : n <= y
    <3>1. T \subseteq Nat
      OBVIOUS
    <3> QED
      BY <2>1, <3>1, Least
  <2>3. n # 0
    BY <1>1, <1>2, <1>3
  <2>4. n - 1 \in 0..Len(us) /\ f[n - 1] = h[n - 1]
    BY <2>2, <2>3
  <2>5. n \in 0..Len(ws) /\ ws[n] = us[n]
    BY <1>1, <2>3
  <2> QED
    BY <1>2, <1>3, <2>3, <2>4, <2>5
<1>6. f[Len(us) + Len(vs)] = k[Len(vs)]
  <2> DEFINE T == {n \in 0..Len(vs) : f[Len(us) + n] # k[n]}
  <2>1. SUFFICES ASSUME T # {} PROVE FALSE
    OBVIOUS
  <2>2. PICK n \in T : \A y \in T : n <= y
    <3>1. T \subseteq Nat
      OBVIOUS
    <3> QED
      BY <2>1, <3>1, Least
  <2>3. n # 0
    BY <1>3, <1>4, <1>5 DEF mid
  <2>4. n - 1 \in 0..Len(vs) /\ f[Len(us) + (n - 1)] = k[n - 1]
    BY <2>2, <2>3
  <2>5. n \in 1..Len(vs) /\ Len(us) + n \in 1..Len(ws) /\ ws[Len(us) + n] = vs[n]
    BY <1>1, <2>3
  <2>6. f[Len(us) + n] = Apply(f[Len(us) + n - 1], ws[Len(us) + n], g)
    BY <1>2, <2>5
  <2>7. k[n] = Apply(k[n - 1], vs[n], g)
    BY <1>4, <2>5
  <2>8. Len(us) + n - 1 = Len(us) + (n - 1)
    BY <2>5
  <2> QED
    BY <2>4, <2>5, <2>6, <2>7, <2>8
<1> QED
  BY <1>1, <1>2, <1>4, <1>6 DEF ws, mid

LEMMA ApplyAllSingle ==
  ASSUME NEW ms, NEW us \in Seq(Update), Len(us) = 1, NEW g
  PROVE  ApplyAll(ms, us, g) = Apply(ms, us[1], g)
<1>1. PICK f : /\ \A i \in 0..Len(us) : f[i] = IF i = 0 THEN ms ELSE Apply(f[i - 1], us[i], g)
               /\ ApplyAll(ms, us, g) = f[Len(us)]
  BY ApplyAllSteps
<1>2. f[1] = Apply(f[0], us[1], g) /\ f[0] = ms
  BY <1>1
<1> QED
  BY <1>1, <1>2

LEMMA ApplyAllOne ==
  ASSUME NEW ms, NEW u \in Update, NEW g
  PROVE  ApplyAll(ms, <<u>>, g) = Apply(ms, u, g)
<1> DEFINE us == <<u>>
<1>1. us \in Seq(Update) /\ Len(us) = 1 /\ us[1] = u
  OBVIOUS
<1> HIDE DEF us
<1>2. ApplyAll(ms, us, g) = Apply(ms, u, g)
  BY <1>1, ApplyAllSingle
<1> QED
  BY <1>2 DEF us

(* The last update decides when it replaces everything.                    *)
LEMMA ApplyAllSet ==
  ASSUME NEW ms, NEW us \in Seq(Update), NEW x \in Seq(Message), NEW g
  PROVE  ApplyAll(ms, us \o <<SetTo(x)>>, g) = x
<1>1. SetTo(x) \in Update /\ SetTo(x).kind = "set" /\ SetTo(x).val = x
  BY SetToType DEF SetTo
<1>2. <<SetTo(x)>> \in Seq(Update)
  BY <1>1
<1>3. \A y : ApplyAll(y, <<SetTo(x)>>, g) = x
  BY <1>1, ApplyAllOne DEF Apply
<1> DEFINE v == <<SetTo(x)>>
<1>a. v \in Seq(Update)
  BY <1>2
<1> HIDE DEF v
<1>b. ApplyAll(ms, us \o v, g) = ApplyAll(ApplyAll(ms, us, g), v, g)
  BY <1>a, ApplyAllConcat
<1>4. ApplyAll(ms, us \o <<SetTo(x)>>, g) = ApplyAll(ApplyAll(ms, us, g), <<SetTo(x)>>, g)
  BY <1>b DEF v
<1> QED
  BY <1>3, <1>4

(* Under another generation only an update that has run already counts.    *)
Base(ms, us) == IF us # <<>> /\ us[1].kind = "set" THEN us[1].val ELSE ms

LEMMA ApplyAllStale ==
  ASSUME NEW ms, NEW us \in Seq(Update), NEW g,
         \A i \in DOMAIN us : IF us[i].kind = "set" THEN i = 1 ELSE us[i].gen # g
  PROVE  ApplyAll(ms, us, g) = Base(ms, us)
<1>1. PICK f : /\ \A i \in 0..Len(us) : f[i] = IF i = 0 THEN ms ELSE Apply(f[i - 1], us[i], g)
               /\ ApplyAll(ms, us, g) = f[Len(us)]
  BY ApplyAllSteps
<1>2. CASE us = <<>>
  BY <1>2, ApplyAllEmpty DEF Base
<1>3. CASE us # <<>>
  <2> DEFINE T == {n \in 1..Len(us) : f[n] # Base(ms, us)}
  <2>1. SUFFICES ASSUME T # {} PROVE FALSE
    BY <1>1, <1>3
  <2>2. PICK n \in T : \A y \in T : n <= y
    <3>1. T \subseteq Nat
      OBVIOUS
    <3> QED
      BY <2>1, <3>1, Least
  <2>3. n \in 1..Len(us) /\ n \in DOMAIN us /\ f[n] = Apply(f[n - 1], us[n], g)
    BY <1>1
  <2>4. n # 1
    <3> SUFFICES ASSUME n = 1 PROVE FALSE
      OBVIOUS
    <3>1. f[1] = Apply(ms, us[1], g)
      BY <1>1, <2>3
    <3> QED
      BY <1>3, <2>3, <3>1 DEF Base, Apply, Runs
  <2>5. n - 1 \in 1..Len(us) /\ f[n - 1] = Base(ms, us)
    BY <2>2, <2>3, <2>4
  <2>6. us[n].kind # "set" /\ us[n].gen # g
    BY <2>3, <2>4
  <2> QED
    BY <2>3, <2>5, <2>6 DEF Apply, Runs
<1> QED
  BY <1>2, <1>3

-----------------------------------------------------------------------------
(* Pieces of a reply                                                       *)

LEMMA PieceForm ==
  ASSUME NEW g \in Gens, NEW a \in Nat, NEW b \in Nat, a <= b, b <= ReplyLen
  PROVE  /\ Piece(g, a, b) \in Text /\ Len(Piece(g, a, b)) = b - a
         /\ \A i \in 1..(b - a) : Piece(g, a, b)[i] = <<g, a + i>>
<1>1. Reply(g) \in Text /\ Len(Reply(g)) = ReplyLen
  BY ReplyType
<1>2. \A i \in 1..ReplyLen : Reply(g)[i] = <<g, i>> /\ Reply(g)[i] \in Gens \X (1..ReplyLen)
  BY DEF Reply
<1>3. /\ SubSeq(Reply(g), a + 1, b) \in Seq(Gens \X (1..ReplyLen))
      /\ Len(SubSeq(Reply(g), a + 1, b)) = IF a + 1 <= b THEN b - (a + 1) + 1 ELSE 0
      /\ \A i \in 1..(b - (a + 1) + 1) : SubSeq(Reply(g), a + 1, b)[i] = Reply(g)[a + 1 + i - 1]
  <2>1. \A i \in (a + 1)..b : Reply(g)[i] \in Gens \X (1..ReplyLen)
    BY <1>2
  <2>2. a + 1 \in Int /\ b \in Int
    OBVIOUS
  <2> QED
    BY <2>1, <2>2, SubSeqProperties
<1>4. Piece(g, a, b) \in Text /\ Len(Piece(g, a, b)) = b - a
  BY <1>3 DEF Piece, Text
<1>5. \A i \in 1..(b - a) : Piece(g, a, b)[i] = <<g, a + i>>
  <2> SUFFICES ASSUME NEW i \in 1..(b - a) PROVE Piece(g, a, b)[i] = <<g, a + i>>
    OBVIOUS
  <2>1. b - (a + 1) + 1 = b - a /\ a + 1 + i - 1 = a + i /\ a + i \in 1..ReplyLen
    OBVIOUS
  <2> QED
    BY <1>2, <1>3, <2>1 DEF Piece
<1> QED
  BY <1>4, <1>5

LEMMA PieceEmpty ==
  ASSUME NEW g \in Gens, NEW a \in Nat, NEW b \in Nat, a <= b, b <= ReplyLen
  PROVE  Piece(g, a, b) = <<>> <=> a = b
<1>1. Piece(g, a, b) \in Text /\ Len(Piece(g, a, b)) = b - a
  BY PieceForm
<1>2. CASE a = b
  BY <1>2, SubSeqEmpty DEF Piece
<1>3. CASE a # b
  BY <1>1, <1>3
<1> QED
  BY <1>2, <1>3

(* A sequence is a piece of the reply if it has its entries.               *)
LEMMA IsPiece ==
  ASSUME NEW g \in Gens, NEW a \in Nat, NEW b \in Nat, a <= b, b <= ReplyLen,
         NEW t \in Text, Len(t) = b - a, \A i \in 1..(b - a) : t[i] = <<g, a + i>>
  PROVE  t = Piece(g, a, b)
<1> DEFINE z == Piece(g, a, b)
<1>1. z \in Text /\ Len(z) = b - a /\ \A i \in 1..(b - a) : z[i] = <<g, a + i>>
  BY PieceForm
<1> HIDE DEF z
<1>2. t \in Seq(Gens \X (1..ReplyLen)) /\ z \in Seq(Gens \X (1..ReplyLen))
  BY <1>1 DEF Text
<1>3. Len(t) = Len(z) /\ \A i \in 1..Len(t) : t[i] = z[i]
  BY <1>1
<1>4. t = z
  BY <1>2, <1>3, SeqEqual
<1> QED
  BY <1>4 DEF z

LEMMA OnePiece ==
  ASSUME NEW g \in Gens, NEW a \in Nat, NEW b \in Nat, b = a + 1, b <= ReplyLen
  PROVE  <<Reply(g)[b]>> = Piece(g, a, b)
<1>1. b \in 1..ReplyLen
  OBVIOUS
<1>2. Reply(g)[b] = <<g, b>> /\ <<g, b>> \in Gens \X (1..ReplyLen)
  BY <1>1 DEF Reply
<1> DEFINE w == <<Reply(g)[b]>>
<1>3. w \in Text /\ Len(w) = 1 /\ w[1] = <<g, b>>
  BY <1>2 DEF Text
<1> HIDE DEF w
<1>4. a <= b /\ b - a = 1
  OBVIOUS
<1>5. \A i \in 1..(b - a) : w[i] = <<g, a + i>>
  BY <1>3, <1>4
<1>6. Len(w) = b - a
  BY <1>3, <1>4
<1>7. w = Piece(g, a, b)
  BY <1>3, <1>4, <1>5, <1>6, IsPiece
<1> QED
  BY <1>7 DEF w

LEMMA PieceConcat ==
  ASSUME NEW g \in Gens, NEW a \in Nat, NEW b \in Nat, NEW c \in Nat,
         a <= b, b <= c, c <= ReplyLen
  PROVE  Piece(g, a, b) \o Piece(g, b, c) = Piece(g, a, c)
<1> DEFINE x == Piece(g, a, b)
           y == Piece(g, b, c)
<1>0. b <= ReplyLen
  OBVIOUS
<1>1. x \in Text /\ Len(x) = b - a /\ \A i \in 1..(b - a) : x[i] = <<g, a + i>>
  BY <1>0, PieceForm
<1>2. y \in Text /\ Len(y) = c - b /\ \A i \in 1..(c - b) : y[i] = <<g, b + i>>
  BY PieceForm
<1> HIDE DEF x, y
<1>3. /\ x \o y \in Text /\ Len(x \o y) = Len(x) + Len(y)
      /\ \A i \in 1..(Len(x) + Len(y)) : (x \o y)[i] = IF i <= Len(x) THEN x[i] ELSE y[i - Len(x)]
  BY <1>1, <1>2, ConcatProperties, ZenonT(60) DEF Text
<1>4. Len(x) + Len(y) = c - a /\ a <= c
  BY <1>1, <1>2
<1>5. \A i \in 1..(c - a) : (x \o y)[i] = <<g, a + i>>
  <2> SUFFICES ASSUME NEW i \in 1..(c - a) PROVE (x \o y)[i] = <<g, a + i>>
    OBVIOUS
  <2>0. (x \o y)[i] = IF i <= Len(x) THEN x[i] ELSE y[i - Len(x)]
    BY <1>3, <1>4
  <2>1. CASE i <= b - a
    BY <1>1, <2>0, <2>1
  <2>2. CASE ~(i <= b - a)
    <3>1. i - (b - a) \in 1..(c - b) /\ b + (i - (b - a)) = a + i
      BY <2>2
    <3> QED
      BY <1>1, <1>2, <2>0, <2>2, <3>1
  <2> QED
    BY <2>1, <2>2
<1> DEFINE w == x \o y
<1>6. w \in Text /\ Len(w) = c - a /\ a <= c /\ \A i \in 1..(c - a) : w[i] = <<g, a + i>>
  BY <1>3, <1>4, <1>5
<1> HIDE DEF w
<1>7. w = Piece(g, a, c)
  BY <1>6, IsPiece
<1> QED
  BY <1>7 DEF w, x, y

(* A snapshot replaces the text so far.                                    *)
LEMMA JoinSnapshot ==
  ASSUME NEW g \in Gens, NEW a \in Nat, NEW b \in Nat, a <= b, b <= ReplyLen
  PROVE  Joined(Piece(g, 0, a), Piece(g, 0, b)) = Piece(g, 0, b)
<1> DEFINE x == Piece(g, 0, a)
           z == Piece(g, 0, b)
<1>0. 0 \in Nat /\ 0 <= a /\ 0 <= b /\ a <= ReplyLen /\ b - 0 = b /\ a - 0 = a
  OBVIOUS
<1>1. x \in Text /\ Len(x) = a /\ (\A i \in 1..(a - 0) : x[i] = <<g, 0 + i>>)
  BY <1>0, PieceForm
<1>2. z \in Text /\ Len(z) = b /\ \A i \in 1..(b - 0) : z[i] = <<g, 0 + i>>
  BY <1>0, PieceForm
<1>3. CASE a = 0
  <2>1. x = <<>>
    BY <1>0, <1>3, PieceEmpty
  <2> HIDE DEF x, z
  <2>2. <<>> \o z = z
    BY <1>2, ConcatEmptySeq DEF Text
  <2>3. Joined(x, z) = x \o z
    BY <2>1 DEF Joined
  <2>4. Joined(x, z) = z
    BY <2>1, <2>2, <2>3
  <2> QED
    BY <2>4 DEF x, z
<1>4. CASE a # 0
  <2>0. x # <<>>
    BY <1>0, <1>4, PieceEmpty
  <2>1. SubSeq(x, 1, Len(x)) = x
    BY <1>1, SubSeqFull DEF Text
  <2> HIDE DEF z
  <2>2. /\ SubSeq(z, 1, a) \in Text /\ Len(SubSeq(z, 1, a)) = a
        /\ \A i \in 1..a : SubSeq(z, 1, a)[i] = z[i]
    <3>1. \A i \in 1..a : z[i] \in Gens \X (1..ReplyLen)
      BY <1>2 DEF Text
    <3>2. /\ SubSeq(z, 1, a) \in Seq(Gens \X (1..ReplyLen))
          /\ Len(SubSeq(z, 1, a)) = IF 1 <= a THEN a - 1 + 1 ELSE 0
          /\ \A i \in 1..(a - 1 + 1) : SubSeq(z, 1, a)[i] = z[1 + i - 1]
      BY <3>1, SubSeqProperties
    <3> QED
      BY <1>4, <3>2 DEF Text
  <2>3. SubSeq(z, 1, a) = x
    <3>1. \A i \in 1..(a - 0) : SubSeq(z, 1, a)[i] = <<g, 0 + i>>
      BY <1>2, <2>2
    <3> DEFINE w == SubSeq(z, 1, a)
    <3>2. w \in Text /\ Len(w) = a - 0 /\ \A i \in 1..(a - 0) : w[i] = <<g, 0 + i>>
      BY <1>0, <2>2, <3>1
    <3> HIDE DEF w
    <3>3. w = Piece(g, 0, a)
      BY <1>0, <3>2, IsPiece
    <3> QED
      BY <3>3 DEF w
  <2> HIDE DEF x
  <2>4. IsPrefix(x, z)
    BY <1>1, <1>2, <2>1, <2>3 DEF IsPrefix
  <2>5. Joined(x, z) = z
    BY <2>0, <2>4 DEF Joined, StartsWith
  <2> QED
    BY <2>5 DEF x, z
<1> QED
  BY <1>3, <1>4

(* A continuation of a reply that does not echo itself is appended.        *)
LEMMA JoinContinuation ==
  ASSUME NEW g \in Gens, NEW a \in Nat, NEW b \in Nat, NEW c \in Nat,
         a <= b, b < c, c <= ReplyLen, ~Echoes(g)
  PROVE  Joined(Piece(g, a, b), Piece(g, b, c)) = Piece(g, a, c)
<1> DEFINE x == Piece(g, a, b)
           y == Piece(g, b, c)
<1>0. b <= ReplyLen /\ b <= c
  OBVIOUS
<1>1. x \in Text /\ Len(x) = b - a /\ (\A i \in 1..(b - a) : x[i] = <<g, a + i>>)
  BY <1>0, PieceForm
<1>2. y \in Text /\ Len(y) = c - b /\ \A i \in 1..(c - b) : y[i] = <<g, b + i>>
  BY <1>0, PieceForm
<1>3. x = <<>> <=> a = b
  BY <1>0, PieceEmpty
<1>e. a < b => <<x, y>> \notin Alike
  <2>1. a \in 0..ReplyLen /\ b \in 0..ReplyLen /\ c \in 0..ReplyLen
    BY <1>0
  <2> QED
    BY <2>1 DEF Echoes
<1> HIDE DEF x, y
<1>4. ~(x # <<>> /\ IsPrefix(x, y))
  <2> SUFFICES ASSUME x # <<>>, IsPrefix(x, y) PROVE FALSE
    OBVIOUS
  <2>1. a < b /\ Len(x) >= 1 /\ Len(x) <= Len(y) /\ Len(x) \in Nat
    BY <1>1, <1>2, <1>3 DEF IsPrefix
  <2>2. SubSeq(x, 1, Len(x)) = SubSeq(y, 1, Len(x))
    BY DEF IsPrefix
  <2>3. SubSeq(x, 1, Len(x)) = x
    BY <1>1, SubSeqFull DEF Text
  <2>4. SubSeq(y, 1, Len(x))[1] = y[1]
    <3>1. \A i \in 1..Len(x) : y[i] \in Gens \X (1..ReplyLen)
      BY <1>2, <2>1 DEF Text
    <3>2. \A i \in 1..(Len(x) - 1 + 1) : SubSeq(y, 1, Len(x))[i] = y[1 + i - 1]
      BY <2>1, <3>1, SubSeqProperties
    <3> QED
      BY <2>1, <3>2
  <2>5. x[1] = <<g, a + 1>> /\ y[1] = <<g, b + 1>>
    BY <1>1, <1>2, <2>1
  <2> QED
    BY <2>1, <2>2, <2>3, <2>4, <2>5
<1>5. Joined(x, y) = x \o y
  <2>1. x # <<>> => a < b
    BY <1>3
  <2> QED
    BY <1>4, <1>e, <2>1, Zenon DEF Joined, StartsWith
<1>6. x \o y = Piece(g, a, c)
  BY <1>0, PieceConcat DEF x, y
<1> QED
  BY <1>5, <1>6 DEF x, y

LEMMA PiecePrefix ==
  ASSUME NEW g \in Gens, NEW a \in Nat, a <= ReplyLen
  PROVE  IsPrefix(Piece(g, 0, a), Reply(g))
<1>0. 0 \in Nat /\ 0 <= a /\ a - 0 = a
  OBVIOUS
<1>1. Piece(g, 0, a) = SubSeq(Reply(g), 1, a)
  BY DEF Piece
<1>2. Piece(g, 0, a) \in Text /\ Len(Piece(g, 0, a)) = a
  BY <1>0, PieceForm
<1>3. SubSeq(Piece(g, 0, a), 1, a) = Piece(g, 0, a)
  BY <1>2, SubSeqFull DEF Text
<1>4. Len(Reply(g)) = ReplyLen
  BY ReplyType
<1> QED
  BY <1>1, <1>2, <1>3, <1>4 DEF IsPrefix

LEMMA PartPiece ==
  ASSUME NEW g \in Gens, NEW a \in Nat, NEW b \in Nat, a <= b, b <= ReplyLen
  PROVE  Part(Piece(g, a, b), g, a, b)
<1> DEFINE t == Piece(g, a, b)
<1>1. t \in Text /\ Len(t) = b - a /\ \A i \in 1..(b - a) : t[i] = <<g, a + i>>
  BY PieceForm
<1>2. t = <<>> <=> a = b
  BY PieceEmpty
<1> HIDE DEF t
<1>3. \A i \in 1..Len(t) : t[i][1] = g /\ t[i][2] = a + i /\ t[i][2] \in (a + 1)..b
  BY <1>1
<1>4. \A i, j \in 1..Len(t) : i < j => t[i][2] < t[j][2]
  BY <1>1, <1>3
<1>5. a < b => t[Len(t)] = <<g, b>>
  <2>1. a < b => b - a \in 1..(b - a) /\ a + (b - a) = b
    OBVIOUS
  <2> QED
    BY <1>1, <2>1
<1>6. a < b => a # b
  OBVIOUS
<1> QED
  BY <1>1, <1>2, <1>3, <1>4, <1>5, <1>6 DEF Part, t

LEMMA PartEmpty ==
  ASSUME NEW g \in Gens
  PROVE  Part(<<>>, g, 0, 0) /\ Piece(g, 0, 0) = <<>>
<1>1. 0 \in Nat /\ 0 <= 0 /\ 0 <= ReplyLen
  OBVIOUS
<1>2. Piece(g, 0, 0) = <<>>
  BY <1>1, PieceEmpty
<1>3. Part(Piece(g, 0, 0), g, 0, 0)
  BY <1>1, PartPiece
<1> QED
  BY <1>2, <1>3

LEMMA PartReply ==
  ASSUME NEW g \in Gens
  PROVE  Part(Reply(g), g, 0, ReplyLen)
<1> DEFINE t == Reply(g)
<1>1. 0 \in Nat /\ ReplyLen \in Nat /\ 0 <= ReplyLen /\ ReplyLen <= ReplyLen /\ ReplyLen - 0 = ReplyLen
  OBVIOUS
<1>2. t \in Text /\ Len(t) = ReplyLen
  BY ReplyType
<1>3. \A i \in 1..(ReplyLen - 0) : t[i] = <<g, 0 + i>>
  BY <1>1 DEF Reply
<1> HIDE DEF t
<1>4. t = Piece(g, 0, ReplyLen)
  BY <1>1, <1>2, <1>3, IsPiece
<1>5. Part(Piece(g, 0, ReplyLen), g, 0, ReplyLen)
  BY <1>1, PartPiece
<1> QED
  BY <1>4, <1>5 DEF t

(* A continuation follows the text so far, or replaces it when it starts   *)
(* with the same characters; the newest piece is there either way.         *)
LEMMA PartJoin ==
  ASSUME NEW g \in Gens, NEW a \in Nat, NEW b \in Nat, NEW c \in Nat,
         a <= b, b < c, c <= ReplyLen, NEW x, NEW y, Part(x, g, a, b), Part(y, g, b, c)
  PROVE  Part(Joined(x, y), g, a, c)
<1> DEFINE z == Joined(x, y)
<1>0. a < c /\ a # c
  OBVIOUS
<1>1. /\ x \in Text /\ (\A i \in 1..Len(x) : x[i][1] = g /\ x[i][2] \in (a + 1)..b)
      /\ \A i, j \in 1..Len(x) : i < j => x[i][2] < x[j][2]
  BY DEF Part
<1>2. /\ y \in Text /\ (\A i \in 1..Len(y) : y[i][1] = g /\ y[i][2] \in (b + 1)..c)
      /\ (\A i, j \in 1..Len(y) : i < j => y[i][2] < y[j][2])
      /\ y # <<>> /\ y[Len(y)] = <<g, c>>
  BY DEF Part
<1>3. ~Echoes(g) => z = Piece(g, a, c)
  <2> SUFFICES ASSUME ~Echoes(g) PROVE z = Piece(g, a, c)
    OBVIOUS
  <2>1. x = Piece(g, a, b) /\ y = Piece(g, b, c)
    BY DEF Part
  <2> QED
    BY <2>1, JoinContinuation
<1>4. z = y \/ z = x \o y
  BY DEF Joined
<1> HIDE DEF z
<1>5. CASE z = y
  <2>1. \A i \in 1..Len(y) : y[i][2] \in (a + 1)..c
    BY <1>2
  <2> QED
    BY <1>0, <1>2, <1>3, <1>5, <2>1 DEF Part, z
<1>6. CASE z = x \o y
  <2> DEFINE m == Len(x)
             n == Len(y)
  <2>0. m \in Nat /\ n \in Nat /\ n >= 1
    BY <1>1, <1>2, EmptySeq DEF Text
  <2>1. /\ x \o y \in Text /\ Len(x \o y) = Len(x) + Len(y)
        /\ \A i \in 1..(Len(x) + Len(y)) : (x \o y)[i] = IF i <= Len(x) THEN x[i] ELSE y[i - Len(x)]
    BY <1>1, <1>2, ConcatProperties, ZenonT(60) DEF Text
  <2>2. z \in Text /\ Len(z) = m + n /\ \A i \in 1..(m + n) : z[i] = IF i <= m THEN x[i] ELSE y[i - m]
    BY <1>6, <2>1
  <2> HIDE DEF m, n
  <2>3. \A i \in 1..(m + n) : IF i <= m THEN i \in 1..m /\ z[i] = x[i] ELSE i - m \in 1..n /\ z[i] = y[i - m]
    <3> SUFFICES ASSUME NEW i \in 1..(m + n)
                 PROVE  IF i <= m THEN i \in 1..m /\ z[i] = x[i] ELSE i - m \in 1..n /\ z[i] = y[i - m]
      OBVIOUS
    <3>1. z[i] = IF i <= m THEN x[i] ELSE y[i - m]
      BY <2>2
    <3>2. IF i <= m THEN i \in 1..m ELSE i - m \in 1..n
      BY <2>0
    <3> QED
      BY <3>1, <3>2
  <2>4. \A i \in 1..(m + n) : z[i][1] = g
    <3> SUFFICES ASSUME NEW i \in 1..(m + n) PROVE z[i][1] = g
      OBVIOUS
    <3>1. CASE i <= m
      <4>1. i \in 1..Len(x) /\ z[i] = x[i]
        BY <2>3, <3>1 DEF m
      <4> QED
        BY <1>1, <4>1
    <3>2. CASE ~(i <= m)
      <4> DEFINE k == i - m
      <4>1. k \in 1..Len(y) /\ z[i] = y[k]
        BY <2>3, <3>2 DEF n
      <4> HIDE DEF k
      <4> QED
        BY <1>2, <4>1
    <3> QED
      BY <3>1, <3>2
  <2>5. \A i \in 1..(m + n) : i <= m => z[i][2] \in (a + 1)..b
    BY <1>1, <2>3 DEF m
  <2>6. \A i \in 1..(m + n) : ~(i <= m) => z[i][2] \in (b + 1)..c
    BY <1>2, <2>3 DEF n
  <2>7. \A i \in 1..(m + n) : z[i][2] \in (a + 1)..c
    BY <2>5, <2>6
  <2>8. \A i, j \in 1..(m + n) : i < j => z[i][2] < z[j][2]
    <3> SUFFICES ASSUME NEW i \in 1..(m + n), NEW j \in 1..(m + n), i < j PROVE z[i][2] < z[j][2]
      OBVIOUS
    <3>1. CASE j <= m
      <4>1. i <= m
        BY <2>0, <3>1
      <4>2. i \in 1..m /\ j \in 1..m /\ z[i] = x[i] /\ z[j] = x[j]
        BY <2>3, <3>1, <4>1
      <4> QED
        BY <1>1, <4>2 DEF m
    <3>2. CASE ~(j <= m) /\ i <= m
      BY <2>5, <2>6, <3>2
    <3>3. CASE ~(j <= m) /\ ~(i <= m)
      <4>1. i - m \in 1..n /\ j - m \in 1..n /\ z[i] = y[i - m] /\ z[j] = y[j - m] /\ i - m < j - m
        BY <2>0, <2>3, <3>3
      <4> QED
        BY <1>2, <4>1 DEF n
    <3> QED
      BY <3>1, <3>2, <3>3
  <2>9. z # <<>> /\ z[Len(z)] = <<g, c>>
    <3>1. m + n \in 1..(m + n) /\ ~(m + n <= m) /\ (m + n) - m = n
      BY <2>0
    <3>2. z[m + n] = y[n]
      BY <2>2, <3>1
    <3>3. Len(z) # 0
      BY <2>0, <2>2
    <3>4. z # <<>>
      BY <3>3
    <3> QED
      BY <1>2, <2>2, <3>2, <3>4 DEF n
  <2> QED
    BY <1>0, <1>3, <2>2, <2>4, <2>7, <2>8, <2>9 DEF Part, z
<1> QED
  BY <1>4, <1>5, <1>6

-----------------------------------------------------------------------------
(* One update of the last message                                          *)

LEMMA AppliedFlush ==
  ASSUME NEW m \in Message, NEW u \in Update, u.kind = "flush", m.st # "error"
  PROVE  /\ Applied(u, m) \in Message /\ Applied(u, m).from = m.from /\ Applied(u, m).key = m.key
         /\ Applied(u, m).edited = m.edited /\ Applied(u, m).st = "streaming"
         /\ Applied(u, m).text = Joined(m.text, u.text)
<1>1. Applied(u, m) = ApplyChunk(m, u.text)
  BY DEF Applied
<1>2. Applied(u, m) = [m EXCEPT !.text = Joined(m.text, u.text), !.st = "streaming"]
  BY <1>1 DEF ApplyChunk
<1>3. Applied(u, m) \in Message
  BY AppliedKeeps
<1> QED
  BY <1>2, <1>3 DEF Message

LEMMA AppliedFinal ==
  ASSUME NEW m \in Message, NEW u \in Update, u.kind \in {"complete", "error", "response", "stopped"}
  PROVE  /\ Applied(u, m) \in Message /\ Applied(u, m).from = m.from /\ Applied(u, m).key = m.key
         /\ Applied(u, m).edited = m.edited /\ ~Pending(Applied(u, m))
         /\ u.kind \in {"complete", "stopped"} =>
              /\ Applied(u, m).text = m.text /\ (Applied(u, m).st = "error" <=> m.st = "error")
         /\ u.kind = "error" => Applied(u, m).text = <<>> /\ Applied(u, m).st = "error"
         /\ u.kind = "response" => Applied(u, m).text = u.text /\ Applied(u, m).st # "error"
<1>0. Applied(u, m) \in Message
  BY AppliedKeeps
<1>c. /\ Complete(m) \in Message /\ Complete(m).from = m.from /\ Complete(m).key = m.key
      /\ Complete(m).edited = m.edited /\ Complete(m).text = m.text /\ Complete(m).st = "complete"
  BY DEF Complete, Message
<1>1. CASE u.kind = "complete"
  <2>1. Applied(u, m) = IF Final(m) THEN m ELSE Complete(m)
    BY <1>1 DEF Applied
  <2> QED
    BY <1>0, <1>1, <1>c, <2>1 DEF Final, Pending
<1>2. CASE u.kind = "error"
  <2>1. Applied(u, m) = [m EXCEPT !.st = "error", !.text = <<>>]
    BY <1>2 DEF Applied
  <2> QED
    BY <1>0, <1>2, <2>1 DEF Pending, Message
<1>3. CASE u.kind = "response"
  <2>1. Applied(u, m) = [Complete(m) EXCEPT !.text = u.text]
    BY <1>3 DEF Applied
  <2> HIDE DEF Complete
  <2>2. /\ Applied(u, m).from = m.from /\ Applied(u, m).key = m.key /\ Applied(u, m).edited = m.edited
        /\ Applied(u, m).text = u.text /\ Applied(u, m).st = "complete"
    BY <1>c, <2>1 DEF Message
  <2> QED
    BY <1>0, <1>3, <2>2 DEF Pending
<1>4. CASE u.kind = "stopped"
  <2>1. Applied(u, m) = IF Pending(m) THEN Complete(m) ELSE m
    BY <1>4 DEF Applied
  <2> QED
    BY <1>0, <1>4, <1>c, <2>1 DEF Pending
<1> QED
  BY <1>1, <1>2, <1>3, <1>4

LEMMA ApplyLast ==
  ASSUME NEW ms \in Seq(Message), ms # <<>>, Last(ms).from = "assistant",
         NEW u \in Update, u.kind # "set", NEW g, u.gen = g
  PROVE  /\ Apply(ms, u, g) \in Seq(Message) /\ Len(Apply(ms, u, g)) = Len(ms)
         /\ Apply(ms, u, g) # <<>> /\ Last(Apply(ms, u, g)) = Applied(u, Last(ms))
         /\ \A i \in DOMAIN ms : i < Len(ms) => Apply(ms, u, g)[i] = ms[i]
<1> DEFINE e == Applied(u, ms[Len(ms)])
<1>1. Len(ms) \in 1..Len(ms) /\ ms[Len(ms)] \in Message /\ DOMAIN ms = 1..Len(ms)
  BY EmptySeq
<1>2. e \in Message
  BY <1>1, AppliedKeeps
<1>3. Apply(ms, u, g) = [ms EXCEPT ![Len(ms)] = e]
  BY DEF Apply, Runs
<1> HIDE DEF e
<1>4. /\ [ms EXCEPT ![Len(ms)] = e] \in Seq(Message) /\ Len([ms EXCEPT ![Len(ms)] = e]) = Len(ms)
      /\ \A j \in 1..Len(ms) : [ms EXCEPT ![Len(ms)] = e][j] = IF j = Len(ms) THEN e ELSE ms[j]
  BY <1>1, <1>2, ExceptSeq
<1> DEFINE r == [ms EXCEPT ![Len(ms)] = e]
<1> HIDE DEF r
<1>5. r \in Seq(Message) /\ Len(r) = Len(ms) /\ r # <<>> /\ r[Len(r)] = e
  BY <1>1, <1>4 DEF r
<1>6. \A i \in DOMAIN ms : i < Len(ms) => r[i] = ms[i]
  BY <1>1, <1>4 DEF r
<1> QED
  BY <1>3, <1>5, <1>6 DEF r, e, Last

LEMMA FollowsSelf ==
  ASSUME NEW ms, ms # <<>> => OwnText(Last(ms))
  PROVE  Follows(ms, ms)
  BY DEF Follows

LEMMA LastForm ==
  ASSUME NEW ms \in Seq(Message), ms # <<>>
  PROVE  /\ Len(ms) \in DOMAIN ms /\ Len(ms) \in Nat \ {0} /\ DOMAIN ms = 1..Len(ms)
         /\ Last(ms) = ms[Len(ms)] /\ Last(ms) \in Message
  BY EmptySeq DEF Last

(* Updating the last message of what follows ms.                           *)
LEMMA FollowsStep ==
  ASSUME NEW ms \in Seq(Message), ms # <<>>, Last(ms).from = "assistant",
         NEW ns \in Seq(Message), Follows(ms, ns), NEW u \in Update, u.kind # "set",
         NEW g, u.gen = g, OwnText(Applied(u, Last(ns))),
         Applied(u, Last(ns)).from = Last(ns).from, Applied(u, Last(ns)).key = Last(ns).key,
         Applied(u, Last(ns)).edited = Last(ns).edited
  PROVE  /\ Follows(ms, Apply(ns, u, g)) /\ Apply(ns, u, g) \in Seq(Message)
         /\ Last(Apply(ns, u, g)) = Applied(u, Last(ns))
<1> DEFINE r == Apply(ns, u, g)
<1>0. Len(ms) \in Nat \ {0} /\ DOMAIN ms = 1..Len(ms)
  BY LastForm
<1>1. ns # <<>> /\ Last(ns).from = "assistant" /\ Len(ns) = Len(ms)
  <2>1. Len(ns) = Len(ms) /\ Last(ns).from = Last(ms).from
    BY DEF Follows
  <2>2. ns # <<>>
    BY <1>0, <2>1
  <2> QED
    BY <2>1, <2>2
<1>2. /\ r \in Seq(Message) /\ Len(r) = Len(ns) /\ r # <<>> /\ Last(r) = Applied(u, Last(ns))
      /\ \A i \in DOMAIN ns : i < Len(ns) => r[i] = ns[i]
  BY <1>1, ApplyLast
<1> HIDE DEF r
<1>3. \A i \in DOMAIN ms : i < Len(ms) => r[i] = ms[i]
  BY <1>0, <1>1, <1>2 DEF Follows
<1>4. Follows(ms, r)
  BY <1>1, <1>2, <1>3 DEF Follows
<1> QED
  BY <1>2, <1>4 DEF r

(* What follows a sound conversation is sound.                             *)
LEMMA SoundFollows ==
  ASSUME NEW ms \in Seq(Message), NEW ns \in Seq(Message), NEW g, Sound(ms, g), Follows(ms, ns)
  PROVE  Sound(ns, g)
<1>1. CASE ms = <<>>
  <2>1. ns = <<>>
    BY <1>1, EmptySeq DEF Follows
  <2> QED
    BY <2>1 DEF Sound
<1>2. CASE ms # <<>>
  <2>1. Len(ms) \in Nat \ {0} /\ DOMAIN ms = 1..Len(ms) /\ Last(ms) = ms[Len(ms)]
    BY <1>2, LastForm
  <2>2. DOMAIN ns = 1..Len(ms) /\ Len(ns) = Len(ms) /\ Last(ns) = ns[Len(ms)]
    BY DEF Follows, Last
  <2>3. \A i \in 1..Len(ms) : ns[i].from = ms[i].from /\ ns[i].key = ms[i].key
    BY <1>2, <2>1, <2>2 DEF Follows
  <2>4. \A i \in 1..Len(ms) : i < Len(ms) => ns[i] = ms[i]
    BY <2>1 DEF Follows
  <2>5. OwnText(ns[Len(ms)])
    BY <1>2, <2>2 DEF Follows
  <2>6. \A i \in 1..Len(ms) : ns[i].key <= g
    BY <2>1, <2>3 DEF Sound
  <2>7. \A i \in 1..Len(ms) : OwnText(ns[i])
    BY <2>1, <2>4, <2>5 DEF Sound
  <2>8. \A i \in DOMAIN ns : i < Len(ns) => ~Pending(ns[i])
    BY <2>1, <2>2, <2>4 DEF Sound
  <2>9. \A i, j \in DOMAIN ns :
          ns[i].from = "assistant" /\ ns[j].from = "assistant" /\ ns[i].key = ns[j].key => i = j
    BY <2>1, <2>2, <2>3 DEF Sound
  <2> QED
    BY <2>2, <2>6, <2>7, <2>8, <2>9 DEF Sound
<1> QED
  BY <1>1, <1>2

-----------------------------------------------------------------------------
(* What the page shows once everything under way has run                   *)

LEMMA ReplyForm ==
  ASSUME IInv
  PROVE  /\ shown \in Seq(Message) /\ queue \in Seq(Update) /\ latest \in Seq(Message)
         /\ saved \in [Users -> Seq(Message)] /\ Now \in Seq(Message)
         /\ gen \in Gens /\ gen \in Nat /\ got \in Nat /\ got <= ReplyLen
         /\ pend.text \in Text /\ pend.gen = gen
         /\ CtlInv /\ MsgInv
<1>1. CtlInv /\ MsgInv
  BY Halves
<1>2. shown \in Seq(Message) /\ queue \in Seq(Update) /\ latest \in Seq(Message)
      /\ saved \in [Users -> Seq(Message)]
  BY <1>1 DEF MsgInv, MsgType
<1>3. Now \in Seq(Message)
  BY <1>1, <1>2, RunType DEF Now
<1>4. gen \in Gens /\ got \in Nat /\ got <= ReplyLen /\ pend.text \in Text /\ pend.gen = gen
  BY <1>1 DEF CtlInv, CtlType, GenShape
<1> QED
  BY <1>1, <1>2, <1>3, <1>4, GensForm

(* The reply of the current request is the last message of a busy page.    *)
LEMMA BusyForm ==
  ASSUME IInv, ReplyInv, busyShown
  PROVE  /\ mounted /\ shown # <<>> /\ Last(shown).from = "assistant" /\ Last(shown).key = gen
         /\ Now # <<>> /\ Last(Now) \in Message /\ Last(Now).from = "assistant" /\ Last(Now).key = gen
         /\ Follows(shown, Now) /\ Len(Now) = Len(shown) /\ Len(shown) \in Nat \ {0}
         /\ DOMAIN Now = 1..Len(shown) /\ Last(Now) = Now[Len(shown)]
         /\ Sound(Now, gen)
<1>1. /\ mounted /\ shown # <<>> /\ Last(shown).from = "assistant" /\ Last(shown).key = gen
  BY DEF ReplyInv, ShownShape, Pending
<1>2. shown \in Seq(Message) /\ Now \in Seq(Message)
  BY ReplyForm
<1>3. Follows(shown, Now) /\ Len(Now) = Len(shown)
  BY DEF ReplyInv, QueueShape, Follows
<1>4. Len(shown) \in Nat \ {0}
  BY <1>1, <1>2, LastForm
<1>5. Now # <<>>
  BY <1>3, <1>4, EmptySeq
<1>6. Last(Now) \in Message /\ DOMAIN Now = 1..Len(shown) /\ Last(Now) = Now[Len(shown)]
  BY <1>2, <1>3, <1>5, LastForm
<1>7. Last(Now).from = "assistant" /\ Last(Now).key = gen
  BY <1>1, <1>3 DEF Follows
<1>8. Sound(Now, gen)
  BY <1>2, <1>3, SoundFollows DEF ReplyInv, ShownShape
<1> QED
  BY <1>1, <1>3, <1>4, <1>5, <1>6, <1>7, <1>8

LEMMA FlushForm ==
  ASSUME IInv
  PROVE  /\ FlushOf(gen) \in Seq(Update)
         /\ pend.text = <<>> => FlushOf(gen) = <<>>
         /\ pend.text # <<>> => FlushOf(gen) = <<Upd("flush", gen, pend.text)>>
<1>1. gen \in Gens /\ pend.text \in Text /\ pend.gen = gen
  BY ReplyForm
<1>2. Upd("flush", gen, pend.text) \in Update
  BY <1>1, UpdType
<1> QED
  BY <1>1, <1>2 DEF FlushOf

(* The state of the buffer when it is not empty.                           *)
LEMMA BufferForm ==
  ASSUME IInv, ReplyInv, pend.text # <<>>
  PROVE  /\ timer = gen /\ busy.stream /\ busyShown
         /\ \E s \in sources : sources = {s} /\ s.snapshot \in BOOLEAN /\ s.sent = got /\ s.gen = gen
<1>1. timer = gen /\ sources # {} /\ busy.stream /\ busyShown
  BY DEF ReplyInv, BusyShape
<1>2. CtlInv
  BY ReplyForm
<1>3. PICK s \in sources : TRUE
  BY <1>1
<1>4. sources = {s} /\ s.sent = got /\ s.gen = gen
  BY <1>2 DEF CtlInv, SourceShape
<1>5. s.snapshot \in BOOLEAN
  BY <1>2, CtlForm
<1> QED
  BY <1>1, <1>4, <1>5

(* The text of the message once the buffer has been appended to it.        *)
LEMMA JoinFits ==
  ASSUME IInv, ReplyInv, pend.text # <<>>, NEW t, Fits(t)
  PROVE  Whole(Joined(t, pend.text))
<1>1. gen \in Gens /\ got \in Nat /\ got <= ReplyLen
  BY ReplyForm
<1>2. PICK s \in sources : sources = {s} /\ s.snapshot \in BOOLEAN
  BY BufferForm
<1>3. PICK a \in 0..got :
        /\ Part(t, gen, 0, a) /\ (s.snapshot => t = Piece(gen, 0, a)) /\ a < got
        /\ IF s.snapshot THEN pend.text = Piece(gen, 0, got) ELSE Part(pend.text, gen, a, got)
  BY <1>2 DEF Fits
<1>4. a \in Nat /\ 0 \in Nat /\ 0 <= a /\ a <= got /\ 0 <= got
  BY <1>1, <1>3
<1>5. CASE s.snapshot
  <2>1. Joined(t, pend.text) = Piece(gen, 0, got)
    BY <1>1, <1>3, <1>4, <1>5, JoinSnapshot
  <2>2. Part(Piece(gen, 0, got), gen, 0, got)
    BY <1>1, <1>4, PartPiece
  <2> QED
    BY <2>1, <2>2 DEF Whole
<1>6. CASE ~s.snapshot
  <2>1. Part(Joined(t, pend.text), gen, 0, got)
    BY <1>1, <1>3, <1>4, <1>6, PartJoin
  <2> QED
    BY <1>2, <1>6, <2>1 DEF Whole
<1> QED
  BY <1>2, <1>5, <1>6

(* The message of the current request is the last one of a busy page.      *)
LEMMA OnlyLast ==
  ASSUME NEW ms \in Seq(Message), NEW g, Sound(ms, g), ms # <<>>,
         Last(ms).from = "assistant", Last(ms).key = g,
         NEW i \in DOMAIN ms, Streams(ms[i], g)
  PROVE  i = Len(ms) /\ ms[i] = Last(ms)
<1>1. Len(ms) \in DOMAIN ms /\ Last(ms) = ms[Len(ms)]
  BY LastForm
<1> QED
  BY <1>1 DEF Sound, Streams

Upto(ms) == \A i \in DOMAIN ms : Streams(ms[i], gen) => Whole(ms[i].text)

(* After the flush the page shows every piece that came.                   *)
LEMMA FlushShows ==
  ASSUME IInv, ReplyInv
  PROVE  /\ ApplyAll(Now, FlushOf(gen), gen) \in Seq(Message)
         /\ Follows(shown, ApplyAll(Now, FlushOf(gen), gen))
         /\ shown # <<>> => (Pending(Last(ApplyAll(Now, FlushOf(gen), gen))) <=> busy.req \/ busy.stream)
         /\ Streamed => Upto(ApplyAll(Now, FlushOf(gen), gen))
<1> DEFINE up == ApplyAll(Now, FlushOf(gen), gen)
<1>0. /\ shown \in Seq(Message) /\ Now \in Seq(Message) /\ gen \in Gens /\ got \in Nat
      /\ got <= ReplyLen /\ pend.text \in Text
  BY ReplyForm
<1>a. Streamed => \A i \in DOMAIN Now : Streams(Now[i], gen) => Fits(Now[i].text)
  BY DEF ReplyInv, TextShape, Streamed, AllFit
<1>1. CASE pend.text = <<>>
  <2>1. up = Now
    BY <1>1, FlushForm, ApplyAllEmpty
  <2>2. Streamed => Upto(Now)
    BY <1>1, <1>a DEF Fits, Upto, Whole
  <2> QED
    BY <1>0, <2>1, <2>2 DEF ReplyInv, QueueShape
<1>2. CASE pend.text # <<>>
  <2> DEFINE u == Upd("flush", gen, pend.text)
             l == Last(Now)
  <2>1. u \in Update /\ u.kind = "flush" /\ u.gen = gen /\ u.text = pend.text
    BY <1>0, UpdType DEF Upd
  <2>2. up = Apply(Now, u, gen)
    BY <1>2, <2>1, FlushForm, ApplyAllOne
  <2> HIDE DEF u
  <2>3. busyShown /\ busy.stream /\ sources # {}
    BY <1>2, BufferForm
  <2>4. /\ shown # <<>> /\ Last(shown).from = "assistant" /\ Last(shown).key = gen
        /\ Now # <<>> /\ l \in Message /\ l.from = "assistant" /\ l.key = gen
        /\ Follows(shown, Now) /\ Sound(Now, gen)
    BY <2>3, BusyForm
  <2>5. Pending(l) /\ l.st # "error"
    BY <2>3, <2>4 DEF ReplyInv, QueueShape, Pending
  <2>6. Len(Now) \in DOMAIN Now /\ l = Now[Len(Now)]
    BY <1>0, <2>4, LastForm
  <2>7. ~l.edited => Whole(Joined(l.text, pend.text))
    <3> SUFFICES ASSUME ~l.edited PROVE Whole(Joined(l.text, pend.text))
      OBVIOUS
    <3>1. Streams(Now[Len(Now)], gen)
      BY <2>4, <2>5, <2>6 DEF Streams
    <3>2. Fits(l.text)
      BY <1>a, <2>3, <2>6, <3>1 DEF Streamed
    <3> QED
      BY <1>2, <3>2, JoinFits
  <2> HIDE DEF l
  <2> DEFINE n == Applied(u, l)
  <2>8. /\ n \in Message /\ n.from = l.from /\ n.key = l.key /\ n.edited = l.edited
        /\ n.st = "streaming" /\ n.text = Joined(l.text, pend.text)
    BY <2>1, <2>4, <2>5, AppliedFlush
  <2> HIDE DEF n
  <2>9. OwnText(n)
    <3>1. got \in 0..ReplyLen
      BY <1>0
    <3> QED
      BY <2>4, <2>7, <2>8, <3>1 DEF OwnText, Whole
  <2>10. Follows(shown, up) /\ up \in Seq(Message) /\ Last(up) = n
    <3>1. Applied(u, Last(Now)) = n
      BY DEF n, l
    <3> HIDE DEF up
    <3> QED
      BY <1>0, <2>1, <2>2, <2>4, <2>8, <2>9, <3>1, FollowsStep DEF l
  <2> HIDE DEF up
  <2>11. Pending(Last(up))
    BY <2>4, <2>8, <2>10 DEF Pending
  <2>12. Upto(up)
    <3> SUFFICES ASSUME NEW i \in DOMAIN up, Streams(up[i], gen)
                 PROVE  Whole(up[i].text)
      BY DEF Upto
    <3>1. Sound(up, gen)
      BY <1>0, <2>10, SoundFollows DEF ReplyInv, ShownShape
    <3>2. up # <<>>
      BY <1>0, <2>4, <2>10, LastForm, EmptySeq DEF Follows
    <3>3. up[i] = n
      BY <2>4, <2>8, <2>10, <3>1, <3>2, OnlyLast
    <3> QED
      BY <2>7, <2>8, <3>3 DEF Streams
  <2> QED
    BY <2>3, <2>10, <2>11, <2>12 DEF up
<1> QED
  BY <1>1, <1>2

(* The two updates that end a request, and the stop, on what is under way. *)
LEMMA FinalStep ==
  ASSUME IInv, NEW ms \in Seq(Message), ms # <<>>, Last(ms).from = "assistant",
         NEW ns \in Seq(Message), Follows(ms, ns), NEW u \in Update, NEW g, u.gen = g,
         \/ u.kind \in {"complete", "error", "stopped"}
         \/ u.kind = "response" /\ u.text = Reply(Last(ms).key)
  PROVE  /\ Follows(ms, Apply(ns, u, g)) /\ Apply(ns, u, g) \in Seq(Message)
         /\ Last(Apply(ns, u, g)) = Applied(u, Last(ns)) /\ ~Pending(Applied(u, Last(ns)))
         /\ Last(ns) \in Message
<1> DEFINE l == Last(ns)
           n == Applied(u, l)
<1>1. ns # <<>> /\ l.from = "assistant" /\ l.key = Last(ms).key /\ OwnText(l)
  <2>1. Len(ms) \in Nat \ {0}
    BY LastForm
  <2>2. Len(ns) # 0
    BY <2>1 DEF Follows
  <2> QED
    BY <2>2 DEF Follows
<1>2. l \in Message
  BY <1>1, LastForm
<1>3. u.kind \in {"complete", "error", "response", "stopped"} /\ u.kind # "set"
  OBVIOUS
<1>4. /\ n \in Message /\ n.from = l.from /\ n.key = l.key /\ n.edited = l.edited /\ ~Pending(n)
      /\ u.kind \in {"complete", "stopped"} => n.text = l.text
      /\ u.kind = "error" => n.text = <<>>
      /\ u.kind = "response" => n.text = u.text
  <2> HIDE DEF l
  <2> QED
    BY <1>2, <1>3, AppliedFinal
<1>5. OwnText(n)
  <2> HIDE DEF n, l
  <2>1. l.key \in Gens
    BY <1>2 DEF Message
  <2>2. /\ Part(<<>>, l.key, 0, 0) /\ Part(Reply(l.key), l.key, 0, ReplyLen)
        /\ 0 \in 0..ReplyLen /\ ReplyLen \in 0..ReplyLen
    BY <2>1, PartEmpty, PartReply
  <2> QED
    BY <1>1, <1>3, <1>4, <2>2 DEF OwnText
<1> HIDE DEF n
<1>6. /\ Follows(ms, Apply(ns, u, g)) /\ Apply(ns, u, g) \in Seq(Message)
      /\ Last(Apply(ns, u, g)) = Applied(u, Last(ns))
  BY <1>3, <1>4, <1>5, FollowsStep DEF n, l
<1> QED
  BY <1>2, <1>4, <1>6 DEF n, l

(* Updates of the current request, none of which replaces the messages.    *)
Current(us) == us \in Seq(Update) /\ \A i \in DOMAIN us : us[i].kind # "set" /\ us[i].gen = gen

LEMMA CurrentOne ==
  ASSUME NEW u \in Update, u.kind # "set", u.gen = gen
  PROVE  Current(<<u>>) /\ <<u>> # <<>> /\ <<u>>[1] = u
<1> DEFINE us == <<u>>
<1>1. us \in Seq(Update) /\ Len(us) = 1 /\ us[1] = u
  OBVIOUS
<1> HIDE DEF us
<1>2. DOMAIN us = 1..1 /\ us # <<>>
  <2>1. DOMAIN us = 1..Len(us)
    BY <1>1
  <2>2. us # <<>>
    <3>1. Len(us) # Len(<<>>)
      BY <1>1, EmptySeq
    <3> QED
      BY <3>1
  <2> QED
    BY <1>1, <2>1, <2>2
<1>3. Current(us)
  BY <1>1, <1>2 DEF Current
<1> QED
  BY <1>1, <1>2, <1>3 DEF us

LEMMA CurrentPair ==
  ASSUME NEW k \in Update, k.kind # "set", k.gen = gen,
         NEW e \in Update, e.kind # "set", e.gen = gen
  PROVE  Current(<<k>> \o <<e>>) /\ <<k>> \o <<e>> # <<>> /\ (<<k>> \o <<e>>)[1] = k
<1> DEFINE x == <<k>>
           y == <<e>>
           us == x \o y
<1>1. x \in Seq(Update) /\ Len(x) = 1 /\ x[1] = k /\ y \in Seq(Update) /\ Len(y) = 1 /\ y[1] = e
  OBVIOUS
<1> HIDE DEF x, y
<1>2. /\ us \in Seq(Update) /\ Len(us) = Len(x) + Len(y)
      /\ \A i \in 1..(Len(x) + Len(y)) : us[i] = IF i <= Len(x) THEN x[i] ELSE y[i - Len(x)]
  BY <1>1, ConcatProperties, ZenonT(60)
<1> HIDE DEF us
<1>3. Len(us) = 2 /\ us[1] = k /\ us[2] = e
  BY <1>1, <1>2
<1>4. DOMAIN us = 1..2 /\ us # <<>>
  <2>1. DOMAIN us = 1..Len(us)
    BY <1>2
  <2>2. us # <<>>
    <3>1. Len(us) # Len(<<>>)
      BY <1>2, <1>3, EmptySeq, SMTT(30)
    <3> QED
      BY <3>1
  <2> QED
    BY <1>2, <1>3, <2>1, <2>2
<1>5. Current(us)
  BY <1>2, <1>3, <1>4 DEF Current
<1> QED
  BY <1>3, <1>4, <1>5 DEF us, x, y

(* Posting is appending to what the next render will run, whether or not   *)
(* the first update runs at once.                                          *)
LEMMA PostForm ==
  ASSUME IInv, ReplyInv, NEW us, Current(us), Post(us), UNCHANGED <<shown, gen>>, mounted,
         queue = <<>> /\ us # <<>> => Follows(shown, Apply(shown, us[1], gen))
  PROVE  /\ Now' = ApplyAll(Now, us, gen)
         /\ us # <<>> => queue' # <<>>
         /\ queue # <<>> => queue' # <<>>
         /\ \A i \in DOMAIN queue' :
              IF queue'[i].kind = "set" THEN i = 1 /\ Follows(shown, queue'[i].val)
              ELSE queue'[i].gen = gen
         /\ \/ latest' = shown
            \/ queue' # <<>> /\ queue'[1].kind = "set" /\ latest' = queue'[1].val
<1>1. shown \in Seq(Message) /\ queue \in Seq(Update) /\ us \in Seq(Update)
  BY ReplyForm DEF Current
<1>2. \A i \in DOMAIN us : us[i].kind # "set" /\ us[i].gen = gen
  BY DEF Current
<1>3. /\ \A i \in DOMAIN queue :
           IF queue[i].kind = "set" THEN i = 1 /\ Follows(shown, queue[i].val) ELSE queue[i].gen = gen
      /\ \/ latest = shown
         \/ queue # <<>> /\ queue[1].kind = "set" /\ latest = queue[1].val
  BY DEF ReplyInv, QueueShape
<1>4. Now' = ApplyAll(shown, queue', gen)
  BY DEF Now
<1>5. CASE queue' = queue \o us /\ UNCHANGED persist
  <2> DEFINE q == queue \o us
  <2>1. /\ q \in Seq(Update) /\ Len(q) = Len(queue) + Len(us)
        /\ \A i \in 1..(Len(queue) + Len(us)) :
             q[i] = IF i <= Len(queue) THEN queue[i] ELSE us[i - Len(queue)]
    BY <1>1, ConcatProperties
  <2>2. ApplyAll(shown, q, gen) = ApplyAll(Now, us, gen)
    BY <1>1, ApplyAllConcat DEF Now
  <2> HIDE DEF q
  <2>3. queue' = q /\ latest' = latest
    BY <1>5 DEF q, persist
  <2>4. DOMAIN q = 1..(Len(queue) + Len(us)) /\ Len(queue) \in Nat /\ Len(us) \in Nat
    BY <1>1, <2>1
  <2>5. \A i \in DOMAIN q :
          IF q[i].kind = "set" THEN i = 1 /\ Follows(shown, q[i].val) ELSE q[i].gen = gen
    <3> SUFFICES ASSUME NEW i \in DOMAIN q
                 PROVE  IF q[i].kind = "set" THEN i = 1 /\ Follows(shown, q[i].val) ELSE q[i].gen = gen
      OBVIOUS
    <3>1. CASE i <= Len(queue)
      <4>1. q[i] = queue[i] /\ i \in DOMAIN queue
        BY <1>1, <2>1, <2>4, <3>1
      <4> QED
        BY <1>3, <4>1
    <3>2. CASE ~(i <= Len(queue))
      <4>1. q[i] = us[i - Len(queue)] /\ i - Len(queue) \in DOMAIN us
        BY <1>1, <2>1, <2>4, <3>2
      <4> QED
        BY <1>2, <4>1
    <3> QED
      BY <3>1, <3>2
  <2>6. (us # <<>> => q # <<>>) /\ (queue # <<>> => q # <<>> /\ q[1] = queue[1])
    <3>1. us # <<>> => Len(us) > 0
      BY <1>1, EmptySeq
    <3>2. queue # <<>> => Len(queue) > 0
      BY <1>1, EmptySeq
    <3>3. Len(queue) + Len(us) > 0 => q # <<>>
      BY <2>1
    <3>4. queue # <<>> => q[1] = queue[1]
      BY <2>1, <2>4, <3>2
    <3> QED
      BY <2>4, <3>1, <3>2, <3>3, <3>4
  <2> QED
    BY <1>3, <1>4, <2>2, <2>3, <2>5, <2>6 DEF q
<1>6. CASE /\ queue = <<>> /\ us # <<>>
           /\ LET v == Apply(shown, Head(us), gen)
              IN queue' = <<SetTo(v)>> \o Tail(us) /\ latest' = v
  <2> DEFINE v == Apply(shown, Head(us), gen)
             q == <<SetTo(v)>> \o Tail(us)
  <2>1. Head(us) = us[1] /\ us[1] \in Update /\ Tail(us) \in Seq(Update) /\ Len(us) \in Nat \ {0}
        /\ us = <<us[1]>> \o Tail(us) /\ Len(Tail(us)) = Len(us) - 1
        /\ \A i \in 1..(Len(us) - 1) : Tail(us)[i] = us[i + 1]
    <3>1. Len(us) \in Nat \ {0} /\ Head(us) = us[1] /\ us[1] \in Update
      BY <1>1, <1>6, EmptySeq
    <3>2. Tail(us) \in Seq(Update) /\ Len(Tail(us)) = Len(us) - 1
          /\ \A i \in 1..(Len(us) - 1) : Tail(us)[i] = us[i + 1]
      BY <1>1, <1>6, HeadTailProperties
    <3>3. us = <<us[1]>> \o Tail(us)
      BY <1>1, <1>6, <3>1, ConcatProperties, HeadTailProperties
    <3> QED
      BY <3>1, <3>2, <3>3
  <2>2. v = Apply(shown, us[1], gen) /\ Follows(shown, v)
    BY <1>6, <2>1
  <2>3. v \in Seq(Message)
    <3>0. 1 \in DOMAIN us
      BY <1>1, <2>1
    <3>1. us[1].kind # "set" /\ us[1].val \in Seq(Message)
      BY <1>2, <2>1, <3>0 DEF Update
    <3> QED
      BY <1>1, <2>1, <3>1, ApplyStays, ClosedMessage
  <2> HIDE DEF v
  <2>4. SetTo(v) \in Update /\ SetTo(v).kind = "set" /\ SetTo(v).val = v
    BY <2>3, SetToType DEF SetTo
  <2>5. <<SetTo(v)>> \in Seq(Update) /\ <<us[1]>> \in Seq(Update)
    BY <2>1, <2>4
  <2>6. ApplyAll(shown, q, gen) = ApplyAll(v, Tail(us), gen)
    <3>0. ApplyAll(shown, <<SetTo(v)>>, gen) = Apply(shown, SetTo(v), gen)
      BY <2>4, ApplyAllOne
    <3>1. ApplyAll(shown, <<SetTo(v)>>, gen) = v
      BY <2>4, <3>0 DEF Apply
    <3> DEFINE w == <<SetTo(v)>>
               t == Tail(us)
    <3>2. w \in Seq(Update) /\ t \in Seq(Update) /\ ApplyAll(shown, w, gen) = v
      BY <2>1, <2>5, <3>1
    <3> HIDE DEF w, t
    <3>3. ApplyAll(shown, w \o t, gen) = ApplyAll(v, t, gen)
      BY <3>2, ApplyAllConcat
    <3> QED
      BY <3>3 DEF w, t
  <2>7. ApplyAll(shown, <<us[1]>> \o Tail(us), gen) = ApplyAll(v, Tail(us), gen)
    <3>1. ApplyAll(shown, <<us[1]>>, gen) = v
      BY <2>1, <2>2, ApplyAllOne
    <3> DEFINE w == <<us[1]>>
               t == Tail(us)
    <3>2. w \in Seq(Update) /\ t \in Seq(Update) /\ ApplyAll(shown, w, gen) = v
      BY <2>1, <2>5, <3>1
    <3> HIDE DEF w, t
    <3>3. ApplyAll(shown, w \o t, gen) = ApplyAll(v, t, gen)
      BY <3>2, ApplyAllConcat
    <3> QED
      BY <3>3 DEF w, t
  <2>8. Now = shown
    BY <1>6, ApplyAllEmpty DEF Now
  <2>9. ApplyAll(shown, q, gen) = ApplyAll(Now, us, gen)
    BY <2>1, <2>6, <2>7, <2>8
  <2>10. /\ q \in Seq(Update) /\ Len(q) = Len(us) /\ q[1] = SetTo(v)
         /\ \A i \in 2..Len(us) : q[i] = us[i]
    <3> DEFINE z == <<SetTo(v)>>
               t == Tail(us)
    <3>1. z \in Seq(Update) /\ Len(z) = 1 /\ z[1] = SetTo(v)
      BY <2>5
    <3>2. t \in Seq(Update) /\ Len(t) = Len(us) - 1 /\ \A i \in 1..(Len(us) - 1) : t[i] = us[i + 1]
      BY <2>1
    <3> HIDE DEF z, t
    <3>3. /\ z \o t \in Seq(Update) /\ Len(z \o t) = Len(z) + Len(t)
          /\ \A i \in 1..(Len(z) + Len(t)) : (z \o t)[i] = IF i <= Len(z) THEN z[i] ELSE t[i - Len(z)]
      BY <3>1, <3>2, ConcatProperties, ZenonT(60)
    <3>4. Len(z) + Len(t) = Len(us) /\ Len(us) >= 1 /\ Len(us) \in Nat
      BY <2>1, <3>1, <3>2
    <3>5. (z \o t)[1] = SetTo(v)
      BY <3>1, <3>3, <3>4
    <3>6. \A i \in 2..Len(us) : (z \o t)[i] = us[i]
      <4> SUFFICES ASSUME NEW i \in 2..Len(us) PROVE (z \o t)[i] = us[i]
        OBVIOUS
      <4>1. (z \o t)[i] = t[i - 1] /\ i - 1 \in 1..(Len(us) - 1) /\ (i - 1) + 1 = i
        BY <3>1, <3>3, <3>4
      <4> QED
        BY <3>2, <4>1
    <3> QED
      BY <3>3, <3>4, <3>5, <3>6 DEF z, t
  <2>11. queue' = q /\ latest' = v
    BY <1>6 DEF v
  <2> HIDE DEF q
  <2>12. \A i \in DOMAIN q :
          IF q[i].kind = "set" THEN i = 1 /\ Follows(shown, q[i].val) ELSE q[i].gen = gen
    <3> SUFFICES ASSUME NEW i \in DOMAIN q
                 PROVE  IF q[i].kind = "set" THEN i = 1 /\ Follows(shown, q[i].val) ELSE q[i].gen = gen
      OBVIOUS
    <3>1. CASE i = 1
      BY <2>2, <2>4, <2>10, <3>1
    <3>2. CASE i # 1
      <4>1. i \in 2..Len(us) /\ i \in DOMAIN us /\ q[i] = us[i]
        BY <1>1, <2>10, <3>2, SMTT(30)
      <4> QED
        BY <1>2, <4>1
    <3> QED
      BY <3>1, <3>2
  <2>13. q # <<>> /\ q[1].kind = "set" /\ q[1].val = v
    BY <2>1, <2>4, <2>10
  <2> QED
    BY <1>4, <2>9, <2>11, <2>12, <2>13
<1> QED
  BY <1>5, <1>6 DEF Post

(* A step that only posts: what the page shows is unchanged.               *)
LEMMA Posted ==
  ASSUME IInv, ReplyInv, NEW us, Current(us), Post(us), busyShown,
         UNCHANGED <<shown, gen, got, mounted, busyShown>>,
         queue = <<>> /\ us # <<>> => Follows(shown, Apply(shown, us[1], gen)),
         NEW r, r = ApplyAll(Now, us, gen), Follows(shown, r),
         Pending(Last(r)) <=> busy'.req \/ busy'.stream
  PROVE  /\ ShownShape' /\ QueueShape' /\ Now' = r
         /\ us # <<>> => queue' # <<>>
         /\ queue # <<>> => queue' # <<>>
<1>1. mounted
  BY BusyForm
<1>2. saved' = saved
  BY DEF Post, persist
<1>3. ShownShape'
  BY <1>2 DEF ReplyInv, ShownShape
<1>4. /\ Now' = r
      /\ us # <<>> => queue' # <<>>
      /\ queue # <<>> => queue' # <<>>
      /\ \A i \in DOMAIN queue' :
           IF queue'[i].kind = "set" THEN i = 1 /\ Follows(shown, queue'[i].val)
           ELSE queue'[i].gen = gen
      /\ \/ latest' = shown
         \/ queue' # <<>> /\ queue'[1].kind = "set" /\ latest' = queue'[1].val
  BY <1>1, PostForm
<1>5. QueueShape'
  BY <1>4 DEF QueueShape
<1> QED
  BY <1>3, <1>4, <1>5

LEMMA BaseShown == queue = <<>> => Now = shown
  BY ApplyAllEmpty DEF Now

(* The end of a request: what has come is shown, then its final status.    *)
LEMMA EndedReply ==
  ASSUME IInv, ReplyInv, busyShown, NEW kind \in {"complete", "error"}, Ended(gen, kind),
         UNCHANGED <<shown, gen, got, mounted, busyShown>>,
         ~busy'.req, ~busy'.stream, sources' = {}, ~Waiting', post' = 0
  PROVE  ReplyInv'
<1> DEFINE f == FlushOf(gen)
           e == Upd(kind, gen, <<>>)
           up == ApplyAll(Now, f, gen)
           us == f \o <<e>>
           r == Apply(up, e, gen)
<1>0. /\ shown \in Seq(Message) /\ gen \in Gens /\ pend.text \in Text /\ Now \in Seq(Message)
      /\ got \in Nat /\ got <= ReplyLen /\ pend.gen = gen /\ CtlInv
  BY ReplyForm
<1>1. Post(us) /\ timer' = 0 /\ pend' = [pend EXCEPT !.text = <<>>]
  BY <1>0 DEF Ended, Flushed
<1>2. pend'.text = <<>>
  BY <1>0, <1>1, CtlForm
<1>3. e \in Update /\ e.kind = kind /\ e.gen = gen
  <2>1. <<>> \in Text
    BY DEF Text
  <2> QED
    BY <1>0, <2>1, UpdType DEF Upd
<1>4. /\ f \in Seq(Update)
      /\ pend.text = <<>> => f = <<>>
      /\ pend.text # <<>> => f = <<Upd("flush", gen, pend.text)>>
  BY FlushForm
<1>5. up \in Seq(Message) /\ Follows(shown, up) /\ (Streamed => Upto(up))
  BY FlushShows
<1>6. /\ shown # <<>> /\ Last(shown).from = "assistant" /\ Last(shown).key = gen /\ mounted
  BY BusyForm
<1> HIDE DEF e
<1>7. <<e>> \in Seq(Update) /\ Len(<<e>>) = 1 /\ <<e>>[1] = e
  BY <1>3
<1>8. ApplyAll(Now, us, gen) = r
  <2>1. ApplyAll(Now, f \o <<e>>, gen) = ApplyAll(up, <<e>>, gen)
    BY <1>4, <1>7, ApplyAllConcat, ZenonT(60)
  <2>2. ApplyAll(up, <<e>>, gen) = Apply(up, e, gen)
    <3> HIDE DEF up
    <3> QED
      BY <1>3, ApplyAllOne
  <2> QED
    BY <2>1, <2>2
<1>9. Current(us) /\ us # <<>>
      /\ (pend.text = <<>> => us[1] = e) /\ (pend.text # <<>> => us[1] = Upd("flush", gen, pend.text))
  <2>1. CASE pend.text = <<>>
    <3>1. us = <<e>>
      BY <1>4, <1>7, <2>1, ConcatEmptySeq
    <3> QED
      BY <1>3, <2>1, <3>1, CurrentOne
  <2>2. CASE pend.text # <<>>
    <3> DEFINE k == Upd("flush", gen, pend.text)
    <3>1. k \in Update /\ k.kind = "flush" /\ k.gen = gen
      BY <1>0, UpdType DEF Upd
    <3>2. us = <<k>> \o <<e>>
      BY <1>4, <2>2
    <3> HIDE DEF k, us
    <3> QED
      BY <1>3, <2>2, <3>1, <3>2, CurrentPair DEF k
  <2> QED
    BY <2>1, <2>2
<1> HIDE DEF us, f, up
<1>10. /\ Follows(shown, r) /\ r \in Seq(Message)
       /\ Last(r) = Applied(e, Last(up)) /\ ~Pending(Applied(e, Last(up))) /\ Last(up) \in Message
  BY <1>0, <1>3, <1>5, <1>6, FinalStep
<1> HIDE DEF r
<1>11. queue = <<>> => Follows(shown, Apply(shown, us[1], gen))
  <2> SUFFICES ASSUME queue = <<>> PROVE Follows(shown, Apply(shown, us[1], gen))
    OBVIOUS
  <2>1. Now = shown
    BY BaseShown
  <2>2. CASE pend.text = <<>>
    <3>1. up = shown
      BY <1>4, <2>1, <2>2, ApplyAllEmpty DEF up, f
    <3> QED
      BY <1>9, <1>10, <2>2, <3>1 DEF r
  <2>3. CASE pend.text # <<>>
    <3>1. Upd("flush", gen, pend.text) \in Update
      BY <1>0, UpdType
    <3>2. up = Apply(shown, us[1], gen)
      BY <1>4, <1>9, <2>1, <2>3, <3>1, ApplyAllOne DEF up, f
    <3> QED
      BY <1>5, <3>2
  <2> QED
    BY <2>2, <2>3
<1>12. ShownShape' /\ QueueShape' /\ Now' = r /\ queue' # <<>>
  BY <1>1, <1>8, <1>9, <1>10, <1>11, Posted
<1>13. BusyShape'
  BY <1>1, <1>2, <1>12 DEF BusyShape
<1>14. TextShape'
  <2> SUFFICES ASSUME got > 0, NEW i \in DOMAIN r, Streams(r[i], gen)
               PROVE  Part(r[i].text, gen, 0, got)
    <3>1. got' = got /\ gen' = gen /\ got \in 0..got /\ sources' = {}
      BY <1>0
    <3> QED
      BY <1>2, <1>12, <3>1 DEF TextShape, Fits, AllFit, Streamed
  <2>1. Upto(up)
    BY <1>5 DEF Streamed
  <2>2. Sound(r, gen) /\ Sound(up, gen)
    BY <1>0, <1>5, <1>10, SoundFollows DEF ReplyInv, ShownShape
  <2>3. r # <<>> /\ up # <<>> /\ Last(r).from = "assistant" /\ Last(r).key = gen
    BY <1>0, <1>5, <1>6, <1>10, LastForm, EmptySeq DEF Follows
  <2>4. r[i] = Last(r)
    BY <1>10, <2>2, <2>3, OnlyLast
  <2> DEFINE l == Last(up)
  <2>5. Len(up) \in DOMAIN up /\ l = up[Len(up)]
    BY <1>5, <2>3, LastForm
  <2>6. l \in Message /\ l.from = "assistant" /\ l.key = gen
    BY <1>5, <1>6, <1>10 DEF Follows
  <2> HIDE DEF l
  <2>7. /\ Applied(e, l).edited = l.edited
        /\ kind = "complete" => Applied(e, l).text = l.text /\ (Applied(e, l).st = "error" <=> l.st = "error")
        /\ kind = "error" => Applied(e, l).st = "error"
    BY <1>3, <2>6, AppliedFinal
  <2>8. r[i] = Applied(e, l)
    BY <1>10, <2>4 DEF l
  <2>9. kind = "complete" /\ Streams(l, gen)
    BY <2>6, <2>7, <2>8 DEF Streams
  <2> QED
    BY <2>1, <2>5, <2>7, <2>8, <2>9 DEF Upto, Whole
<1> QED
  BY <1>12, <1>13, <1>14 DEF ReplyInv

-----------------------------------------------------------------------------
(* Steps of the network, of timers and of renders                          *)

LEMMA QuietReply ==
  ASSUME ReplyInv, \A u \in Users : Sound(saved'[u], gen),
         UNCHANGED <<shown, queue, gen, pend, timer, post, ctl, headers, sources, busy, busyShown,
                     mounted, latest, got>>
  PROVE  ReplyInv'
<1>1. Now' = Now /\ Waiting' = Waiting
  BY DEF Now, Waiting
<1>2. BusyShape'
  BY <1>1 DEF ReplyInv, BusyShape
<1>3. ShownShape'
  BY DEF ReplyInv, ShownShape
<1>4. QueueShape'
  BY <1>1 DEF ReplyInv, QueueShape
<1>5. TextShape'
  BY <1>1 DEF ReplyInv, TextShape, Fits, AllFit, Streamed
<1> QED
  BY <1>2, <1>3, <1>4, <1>5 DEF ReplyInv

LEMMA IdleReply ==
  ASSUME IInv, ReplyInv,
         \/ CloseEdit \/ UNCHANGED vars \/ (\E i \in DOMAIN shown : OpenEdit(i))
         \/ (\E u \in Users \cup {NoUser} : SetUser(u))
  PROVE  ReplyInv'
<1>1. UNCHANGED <<shown, queue, gen, pend, timer, post, ctl, headers, sources, busy, busyShown,
                  mounted, latest, got, saved>>
  BY DEF CloseEdit, OpenEdit, SetUser, chat, stream, persist, vars
<1>2. \A u \in Users : Sound(saved'[u], gen)
  BY <1>1 DEF ReplyInv, ShownShape
<1> QED
  BY <1>1, <1>2, QuietReply

LEMMA CutReply == ASSUME IInv, ReplyInv, NEW s \in sources, StreamCut(s) PROVE ReplyInv'
<1> DEFINE t == [s EXCEPT !.cut = TRUE]
<1>0. CtlInv /\ shown' = shown /\ queue' = queue /\ gen' = gen /\ pend' = pend /\ timer' = timer
      /\ post' = post /\ ctl' = ctl /\ headers' = headers /\ busy' = busy
      /\ busyShown' = busyShown /\ mounted' = mounted /\ latest' = latest /\ saved' = saved
      /\ got' = got
  BY ReplyForm DEF StreamCut, chat, persist, page
<1>1. t.snapshot = s.snapshot
  BY <1>0 DEF CtlInv, CtlType, Source
<1>2. sources' = {t} /\ sources = {s}
  BY <1>0 DEF StreamCut, CtlInv, SourceShape
<1> HIDE DEF t
<1>3. Now' = Now /\ Waiting' = Waiting
  BY <1>0 DEF Now, Waiting
<1>4. BusyShape'
  BY <1>0, <1>2, <1>3 DEF ReplyInv, BusyShape
<1>5. ShownShape'
  BY <1>0 DEF ReplyInv, ShownShape
<1>6. QueueShape'
  BY <1>0, <1>3 DEF ReplyInv, QueueShape
<1>7. \A x : Fits(x) => Fits(x)'
  BY <1>0, <1>1, <1>2 DEF Fits
<1>8. TextShape'
  BY <1>0, <1>2, <1>3, <1>7 DEF ReplyInv, TextShape, AllFit, Streamed
<1> QED
  BY <1>4, <1>5, <1>6, <1>8 DEF ReplyInv

(* A piece more, in the message or in the buffer.                          *)
LEMMA DeliverReply == ASSUME IInv, ReplyInv, NEW s \in sources, Deliver(s) PROVE ReplyInv'
<1> DEFINE chunk == IF s.snapshot THEN SubSeq(Reply(s.gen), 1, s.sent + 1)
                    ELSE <<Reply(s.gen)[s.sent + 1]>>
           t == [s EXCEPT !.sent = @ + 1]
<1>0. /\ CtlInv /\ shown' = shown /\ queue' = queue /\ gen' = gen
      /\ post' = post /\ ctl' = ctl /\ headers' = headers /\ busy' = busy
      /\ busyShown' = busyShown /\ mounted' = mounted /\ latest' = latest /\ saved' = saved
  BY ReplyForm DEF Deliver, persist, page
<1>1. /\ gen \in Gens /\ got \in Nat /\ pend.text \in Text /\ pend.gen = gen
  BY ReplyForm
<1>2. s.gen = gen /\ s.sent = got /\ sources = {s} /\ mounted
  BY <1>0 DEF CtlInv, SourceShape
<1>3. got < ReplyLen /\ pend' = [pend EXCEPT !.text = Joined(pend.text, chunk)] /\ got' = got + 1
      /\ timer' = (IF timer = 0 THEN gen ELSE timer) /\ sources' = {t}
  BY <1>1, <1>2 DEF Deliver, Buffered
<1>4. pend'.text = Joined(pend.text, chunk)
  BY <1>0, <1>3, CtlForm
<1>5. t.snapshot = s.snapshot /\ s.snapshot \in BOOLEAN
  BY <1>0 DEF CtlInv, CtlType, Source
<1> HIDE DEF t
<1>6. chunk = Piece(gen, IF s.snapshot THEN 0 ELSE got, got + 1)
  <2>1. CASE s.snapshot
    BY <1>1, <1>2, <2>1 DEF Piece
  <2>2. CASE ~s.snapshot
    <3>1. got + 1 \in Nat /\ got + 1 <= ReplyLen
      BY <1>1, <1>3
    <3>2. <<Reply(gen)[got + 1]>> = Piece(gen, got, got + 1)
      BY <1>1, <3>1, OnePiece
    <3> QED
      BY <1>2, <2>2, <3>2
  <2> QED
    BY <1>5, <2>1, <2>2
<1>7. chunk \in Text
  <2> DEFINE b == got + 1
  <2>1. b \in Nat /\ b <= ReplyLen /\ got <= b /\ 0 <= b /\ 0 \in Nat
    BY <1>1, <1>3
  <2> HIDE DEF b
  <2>2. Piece(gen, 0, b) \in Text /\ Piece(gen, got, b) \in Text
    BY <1>1, <2>1, PieceForm
  <2> QED
    BY <1>6, <2>2 DEF b
<1> HIDE DEF chunk
<1>8. Now' = Now /\ Waiting' = Waiting
  BY <1>0 DEF Now, Waiting
<1>9. busy.stream /\ gen # 0 /\ (timer = 0 \/ timer = gen)
  BY <1>2 DEF ReplyInv, BusyShape
<1>10. BusyShape'
  BY <1>0, <1>2, <1>3, <1>8, <1>9 DEF ReplyInv, BusyShape
<1>11. ShownShape'
  BY <1>0, <1>2 DEF ReplyInv, ShownShape
<1>12. QueueShape'
  BY <1>0, <1>8 DEF ReplyInv, QueueShape
<1>13. \A x : Fits(x) => Fits(x)'
  <2> SUFFICES ASSUME NEW x, Fits(x) PROVE Fits(x)'
    OBVIOUS
  <2>1. PICK a \in 0..got :
          /\ Part(x, gen, 0, a) /\ (s.snapshot => x = Piece(gen, 0, a))
          /\ IF pend.text = <<>> THEN a = got
             ELSE a < got /\ IF s.snapshot THEN pend.text = Piece(gen, 0, got)
                             ELSE Part(pend.text, gen, a, got)
    BY <1>2 DEF Fits
  <2>2. /\ a \in Nat /\ a <= got /\ got + 1 \in Nat /\ got + 1 <= ReplyLen /\ got <= got + 1
        /\ got < got + 1 /\ 0 \in Nat /\ 0 <= got + 1 /\ a < got + 1 /\ a \in 0..(got + 1)
        /\ 0 < got + 1 /\ got <= ReplyLen
    BY <1>1, <1>3
  <2>3. Joined(<<>>, chunk) = chunk
    BY <1>7, ConcatEmptySeq DEF Joined, Text
  <2>4. s.snapshot => pend'.text = Piece(gen, 0, got + 1)
    <3>1. CASE pend.text = <<>>
      BY <1>4, <1>6, <2>3, <3>1
    <3>2. CASE pend.text # <<>> /\ s.snapshot
      BY <1>1, <1>4, <1>6, <2>1, <2>2, <3>2, JoinSnapshot
    <3> QED
      BY <3>1, <3>2
  <2>5. ~s.snapshot => Part(pend'.text, gen, a, got + 1)
    <3> SUFFICES ASSUME ~s.snapshot PROVE Part(pend'.text, gen, a, got + 1)
      OBVIOUS
    <3>1. Part(chunk, gen, got, got + 1)
      <4> DEFINE c == got + 1
      <4>1. chunk = Piece(gen, got, c) /\ c \in Nat /\ got <= c /\ c <= ReplyLen
        BY <1>6, <2>2
      <4> HIDE DEF c
      <4>2. Part(Piece(gen, got, c), gen, got, c)
        BY <1>1, <4>1, PartPiece
      <4> QED
        BY <4>1, <4>2 DEF c
    <3>2. CASE pend.text = <<>>
      BY <1>4, <2>1, <2>3, <3>1, <3>2
    <3>3. CASE pend.text # <<>>
      <4>1. Part(pend.text, gen, a, got)
        BY <2>1, <3>3
      <4>2. Part(Joined(pend.text, chunk), gen, a, got + 1)
        BY <1>1, <2>2, <3>1, <4>1, PartJoin
      <4> QED
        BY <1>4, <4>2
    <3> QED
      BY <3>2, <3>3
  <2>6. pend'.text # <<>>
    <3>1. CASE s.snapshot
      <4>1. Piece(gen, 0, got + 1) # <<>>
        BY <1>1, <2>2, PieceEmpty
      <4> QED
        BY <2>4, <3>1, <4>1
    <3>2. CASE ~s.snapshot
      BY <2>2, <2>5, <3>2 DEF Part
    <3> QED
      BY <1>5, <3>1, <3>2
  <2> QED
    BY <1>0, <1>3, <1>5, <2>1, <2>2, <2>4, <2>5, <2>6 DEF Fits
<1>14. TextShape'
  BY <1>0, <1>2, <1>8, <1>13 DEF ReplyInv, TextShape, AllFit, Streamed
<1> QED
  BY <1>10, <1>11, <1>12, <1>14 DEF ReplyInv

(* A reply that waits for its headers has no text yet.                     *)
LEMMA HeadersReply == ASSUME IInv, ReplyInv, NEW h \in headers, HeadersSettle(h) PROVE ReplyInv'
<1>0. /\ CtlInv /\ shown' = shown /\ busyShown' = busyShown /\ mounted' = mounted /\ gen' = gen
      /\ post' = post /\ ctl' = ctl /\ got' = got /\ headers' = headers \ {h}
  BY ReplyForm DEF HeadersSettle, page
<1>1. CASE /\ ~HeadersCurrent(h)
           /\ UNCHANGED <<sources, active, busy, pend, timer, queue, persist>>
  <2>1. Now' = Now
    BY <1>0, <1>1 DEF Now
  <2>2. Waiting' <=> Waiting
    BY <1>0, <1>1 DEF Waiting, HeadersCurrent
  <2>3. BusyShape'
    BY <1>0, <1>1, <2>2 DEF ReplyInv, BusyShape
  <2>4. ShownShape'
    BY <1>0, <1>1 DEF ReplyInv, ShownShape, persist
  <2>5. QueueShape'
    BY <1>0, <1>1, <2>1 DEF ReplyInv, QueueShape, persist
  <2>6. TextShape'
    BY <1>0, <1>1, <2>1, <2>2 DEF ReplyInv, TextShape, Fits, AllFit, Streamed
  <2> QED
    BY <2>3, <2>4, <2>5, <2>6 DEF ReplyInv
<1>2. HeadersCurrent(h) => /\ Waiting /\ mounted /\ h.gen = gen /\ sources = {} /\ got = 0
                           /\ busy.req /\ post = 0 /\ timer = 0 /\ pend.text = <<>>
                           /\ ~busy.stream /\ busyShown /\ ~Waiting' /\ gen # 0
  <2> SUFFICES ASSUME HeadersCurrent(h)
               PROVE  /\ Waiting /\ mounted /\ h.gen = gen /\ sources = {} /\ got = 0
                      /\ busy.req /\ post = 0 /\ timer = 0 /\ pend.text = <<>>
                      /\ ~busy.stream /\ busyShown /\ ~Waiting' /\ gen # 0
    OBVIOUS
  <2>1. Waiting /\ mounted /\ h.gen = gen /\ sources = {} /\ got = 0
    BY <1>0 DEF CtlInv, HeaderShape, Waiting, HeadersCurrent
  <2>2. ~Waiting'
    BY <1>0 DEF CtlInv, HeaderShape, Waiting, HeadersCurrent
  <2>3. busy.req /\ post = 0 /\ timer = 0 /\ pend.text = <<>> /\ ~busy.stream /\ busyShown /\ gen # 0
    BY <2>1 DEF ReplyInv, BusyShape
  <2> QED
    BY <2>1, <2>2, <2>3
<1>3. ASSUME HeadersCurrent(h), NEW snap \in BOOLEAN,
             sources' = sources \cup {[ctl |-> h.ctl, gen |-> h.gen, snapshot |-> snap,
                                       sent |-> 0, cut |-> FALSE]},
             busy' = [busy EXCEPT !.stream = TRUE],
             UNCHANGED <<pend, timer, queue, persist>>
      PROVE  ReplyInv'
  <2>1. Now' = Now /\ sources' # {}
    BY <1>0, <1>3 DEF Now
  <2>2. busy'.stream /\ busy'.req
    BY <1>0, <1>2, <1>3 DEF CtlInv, CtlType
  <2>3. BusyShape'
    BY <1>0, <1>2, <1>3, <2>1, <2>2 DEF BusyShape
  <2>4. ShownShape'
    BY <1>0, <1>3 DEF ReplyInv, ShownShape, persist
  <2>5. QueueShape'
    BY <1>0, <1>2, <1>3, <2>1, <2>2 DEF ReplyInv, QueueShape, persist
  <2>6. \A x : Fits(x) => Fits(x)'
    <3>1. gen \in Gens /\ 0 \in 0..0 /\ \A a \in 0..0 : a = 0
      BY ReplyForm
    <3>2. \A x : Fits(x) => Part(x, gen, 0, 0)
      BY <1>2, <1>3, <3>1 DEF Fits
    <3>3. \A x : Part(x, gen, 0, 0) => x = Piece(gen, 0, 0)
      BY <3>1, PartEmpty DEF Part
    <3> QED
      BY <1>0, <1>2, <1>3, <3>1, <3>2, <3>3 DEF Fits
  <2>7. TextShape'
    BY <1>0, <1>2, <1>3, <2>1, <2>6 DEF ReplyInv, TextShape, AllFit, Streamed
  <2> QED
    BY <2>3, <2>4, <2>5, <2>7 DEF ReplyInv
<1>4. CASE /\ HeadersCurrent(h)
           /\ Ended(h.gen, "error")
           /\ busy' = [busy EXCEPT !.req = NotRequesting(h.gen)]
           /\ UNCHANGED <<sources, active>>
  <2>1. ~busy'.req /\ ~busy'.stream
    BY <1>0, <1>2, <1>4 DEF NotRequesting, CtlInv, CtlType
  <2> QED
    BY <1>0, <1>2, <1>4, <2>1, EndedReply
<1> QED
  BY <1>1, <1>3, <1>4 DEF HeadersSettle

LEMMA EndReply == ASSUME IInv, ReplyInv, NEW s \in sources, StreamEnds(s) PROVE ReplyInv'
<1>0. /\ CtlInv /\ shown' = shown /\ busyShown' = busyShown /\ mounted' = mounted /\ gen' = gen
      /\ post' = post /\ ctl' = ctl /\ got' = got /\ headers' = headers
  BY ReplyForm DEF StreamEnds, page
<1>1. s.gen = gen /\ s.ctl = active /\ sources = {s}
  BY <1>0 DEF CtlInv, SourceShape
<1>2. sources' = {}
  BY <1>1 DEF StreamEnds, CloseActive
<1>3. busyShown /\ post = 0
  BY <1>1 DEF ReplyInv, BusyShape
<1>4. ~Waiting'
  BY <1>0, <1>1 DEF CtlInv, HeaderShape, Waiting
<1>5. ~busy'.req /\ ~busy'.stream
  BY <1>1 DEF StreamEnds, NotRequesting
<1>6. \E kind \in {"complete", "error"} : Ended(gen, kind)
  BY <1>1 DEF StreamEnds
<1> QED
  BY <1>0, <1>2, <1>3, <1>4, <1>5, <1>6, EndedReply

LEMMA FlushReply == ASSUME IInv, ReplyInv, FlushFires PROVE ReplyInv'
<1> DEFINE us == FlushOf(gen)
           r == ApplyAll(Now, us, gen)
<1>0. /\ CtlInv /\ shown' = shown /\ busyShown' = busyShown /\ mounted' = mounted /\ gen' = gen
      /\ post' = post /\ ctl' = ctl /\ got' = got /\ headers' = headers /\ sources' = sources
      /\ busy' = busy
  BY ReplyForm DEF FlushFires, page, stream
<1>a. /\ shown \in Seq(Message) /\ gen \in Gens /\ pend.text \in Text
      /\ got \in Nat /\ got <= ReplyLen /\ pend.gen = gen
  BY ReplyForm
<1>1. timer = gen /\ sources # {} /\ busy.stream /\ busyShown
  BY DEF FlushFires, ReplyInv, BusyShape
<1>2. Post(us) /\ timer' = 0 /\ pend' = [pend EXCEPT !.text = <<>>]
  BY <1>1, <1>a DEF FlushFires, Flushed
<1>3. pend'.text = <<>>
  BY <1>0, <1>2, CtlForm
<1>4. r \in Seq(Message) /\ Follows(shown, r) /\ Upto(r)
      /\ (shown # <<>> => (Pending(Last(r)) <=> busy.req \/ busy.stream))
  BY <1>1, FlushShows DEF Streamed
<1>5. shown # <<>>
  BY <1>1, BusyForm
<1>6. Current(us) /\ (queue = <<>> /\ us # <<>> => Follows(shown, Apply(shown, us[1], gen)))
  <2>1. CASE pend.text = <<>>
    BY <2>1, FlushForm DEF Current
  <2>2. CASE pend.text # <<>>
    <3> DEFINE k == Upd("flush", gen, pend.text)
    <3>1. k \in Update /\ k.kind = "flush" /\ k.gen = gen
      BY <1>a, UpdType DEF Upd
    <3>2. us = <<k>>
      BY <2>2, FlushForm
    <3> HIDE DEF k
    <3>3. Current(us) /\ us[1] = k
      BY <3>1, <3>2, CurrentOne
    <3>4. queue = <<>> => r = Apply(shown, k, gen)
      BY <3>1, <3>2, BaseShown, ApplyAllOne
    <3> QED
      BY <1>4, <3>3, <3>4
  <2> QED
    BY <2>1, <2>2
<1> HIDE DEF us
<1>7. r = ApplyAll(Now, us, gen)
  OBVIOUS
<1> HIDE DEF r
<1>8. ShownShape' /\ QueueShape' /\ Now' = r
  BY <1>0, <1>1, <1>2, <1>4, <1>5, <1>6, <1>7, Posted
<1>9. Waiting' = Waiting
  BY <1>0 DEF Waiting
<1>10. BusyShape'
  BY <1>0, <1>1, <1>2, <1>3, <1>9 DEF ReplyInv, BusyShape
<1>11. TextShape'
  <2>1. got \in 0..got
    BY <1>a
  <2> QED
    BY <1>0, <1>3, <1>4, <1>8, <2>1 DEF TextShape, Fits, Upto, Whole, AllFit, Streamed
<1> QED
  BY <1>8, <1>10, <1>11 DEF ReplyInv

LEMMA RespondReply == ASSUME IInv, ReplyInv, Respond PROVE ReplyInv'
<1> DEFINE e == Upd("response", gen, Reply(gen))
           r == Apply(Now, e, gen)
<1>0. /\ CtlInv /\ shown' = shown /\ busyShown' = busyShown /\ mounted' = mounted /\ gen' = gen
      /\ post' = 0 /\ ctl' = ctl /\ got' = got /\ headers' = headers /\ sources' = sources
      /\ busy' = [busy EXCEPT !.req = FALSE]
  BY ReplyForm DEF Respond, page, stream
<1>a. shown \in Seq(Message) /\ gen \in Gens /\ Now \in Seq(Message)
  BY ReplyForm
<1>1. /\ sources = {} /\ ~busy.stream /\ busyShown /\ ~Waiting /\ got = 0
      /\ timer = 0 /\ pend.text = <<>>
  BY DEF Respond, ReplyInv, BusyShape
<1>2. ~busy'.req /\ ~busy'.stream /\ ~Waiting'
  BY <1>0, <1>1 DEF Waiting, CtlInv, CtlType
<1>3. CASE Ended(gen, "error")
  BY <1>0, <1>1, <1>2, <1>3, EndedReply
<1>4. CASE Post(<<e>>) /\ UNCHANGED <<pend, timer>>
  <2>1. e \in Update /\ e.kind = "response" /\ e.gen = gen /\ e.text = Reply(gen)
    BY <1>a, ReplyType, UpdType DEF Upd
  <2>2. shown # <<>> /\ Last(shown).from = "assistant" /\ Last(shown).key = gen /\ Follows(shown, Now)
    BY <1>1, BusyForm
  <2> HIDE DEF e
  <2>3. /\ Follows(shown, r) /\ r \in Seq(Message) /\ ~Pending(Last(r))
    BY <1>a, <2>1, <2>2, FinalStep
  <2>4. Current(<<e>>) /\ <<e>> # <<>> /\ <<e>>[1] = e
    BY <2>1, CurrentOne
  <2>5. r = ApplyAll(Now, <<e>>, gen)
    BY <2>1, ApplyAllOne
  <2>6. queue = <<>> => Follows(shown, Apply(shown, e, gen))
    BY <2>3, BaseShown
  <2> HIDE DEF r
  <2> DEFINE us == <<e>>
  <2>7. /\ Current(us) /\ us # <<>> /\ r = ApplyAll(Now, us, gen) /\ Post(us)
        /\ (queue = <<>> /\ us # <<>> => Follows(shown, Apply(shown, us[1], gen)))
    BY <1>4, <2>4, <2>5, <2>6
  <2> HIDE DEF us
  <2>8. ShownShape' /\ QueueShape' /\ queue' # <<>>
    BY <1>0, <1>1, <1>2, <2>3, <2>7, Posted
  <2>9. BusyShape'
    BY <1>0, <1>1, <1>2, <1>4, <2>8 DEF BusyShape
  <2>10. TextShape'
    BY <1>0, <1>1, <1>2 DEF TextShape, AllFit, Streamed
  <2> QED
    BY <2>8, <2>9, <2>10 DEF ReplyInv
<1> QED
  BY <1>3, <1>4 DEF Respond

(* The state of the messages right after a render.                         *)
LEMMA Rendered ==
  ASSUME queue' = <<>>, latest' = shown', Sound(shown, gen)',
         \A u \in Users : Sound(saved'[u], gen'), shown' \in Seq(Message),
         busyShown' = (busy'.req \/ busy'.stream),
         busyShown' => shown' # <<>> /\ Pending(Last(shown')) /\ Last(shown').key = gen',
         ~busyShown' => \A i \in DOMAIN shown' : ~Pending(shown'[i]),
         ~mounted' => shown' = <<>> /\ ~busyShown' /\ got' = 0,
         (Streamed => AllFit(shown))'
  PROVE  ShownShape' /\ QueueShape' /\ TextShape'
<1>1. Now' = shown'
  BY ApplyAllEmpty DEF Now
<1>2. ShownShape'
  BY DEF ShownShape
<1>3. shown' # <<>> => Len(shown') \in DOMAIN shown' /\ Last(shown') = shown'[Len(shown')]
  BY LastForm
<1>4. shown' # <<>> => OwnText(Last(shown'))
  BY <1>3 DEF Sound
<1>5. Follows(shown', shown')
  BY <1>4, FollowsSelf
<1>6. shown' # <<>> => (Pending(Last(shown')) <=> busy'.req \/ busy'.stream)
  BY <1>3
<1>7. QueueShape'
  BY <1>1, <1>5, <1>6 DEF QueueShape
<1>8. TextShape'
  BY <1>1 DEF TextShape, AllFit
<1> QED
  BY <1>2, <1>7, <1>8

LEMMA RenderReply == ASSUME IInv, ReplyInv, Render PROVE ReplyInv'
<1>0. /\ CtlInv /\ MsgInv /\ mounted' = mounted /\ gen' = gen /\ pend' = pend /\ timer' = timer
      /\ post' = post /\ ctl' = ctl /\ got' = got /\ headers' = headers /\ sources' = sources
      /\ busy' = busy /\ saved' = saved /\ queue' = <<>> /\ shown' = Now /\ mounted
      /\ busyShown' = (busy.req \/ busy.stream)
  BY ReplyForm DEF Render, page, stream, chat, Now
<1>1. shown \in Seq(Message) /\ Now \in Seq(Message)
  BY ReplyForm
<1>2. Follows(shown, Now) /\ (shown # <<>> => (Pending(Last(Now)) <=> busy.req \/ busy.stream))
  BY DEF ReplyInv, QueueShape
<1>3. Sound(Now, gen)
  BY <1>1, <1>2, SoundFollows DEF ReplyInv, ShownShape
<1>4. latest' = shown'
  <2>1. CASE queue = <<>>
    BY <1>0, <2>1, BaseShown DEF Render, MsgInv, PageShape
  <2>2. CASE queue # <<>>
    BY <2>2 DEF Render
  <2> QED
    BY <2>1, <2>2
<1>5. busyShown' => shown' # <<>> /\ Pending(Last(shown')) /\ Last(shown').key = gen'
  <2> SUFFICES ASSUME busyShown' PROVE Now # <<>> /\ Pending(Last(Now)) /\ Last(Now).key = gen
    BY <1>0
  <2>1. busyShown
    BY <1>0 DEF ReplyInv, BusyShape
  <2>2. shown # <<>> /\ Now # <<>> /\ Last(Now).key = gen
    BY <2>1, BusyForm
  <2> QED
    BY <1>0, <1>2, <2>2
<1>6. ~busyShown' => \A i \in DOMAIN Now : ~Pending(Now[i])
  <2> SUFFICES ASSUME ~busyShown', NEW i \in DOMAIN Now PROVE ~Pending(Now[i])
    OBVIOUS
  <2>1. Now # <<>>
    OBVIOUS
  <2>2. Last(Now) = Now[Len(Now)] /\ DOMAIN Now = 1..Len(Now) /\ Len(Now) \in Nat
    BY <1>1, <2>1, LastForm
  <2>3. shown # <<>>
    BY <1>1, <1>2, <2>1, EmptySeq DEF Follows
  <2>4. i < Len(Now) => ~Pending(Now[i])
    BY <1>3 DEF Sound
  <2>5. ~Pending(Last(Now))
    BY <1>0, <1>2, <2>3
  <2> QED
    BY <2>2, <2>4, <2>5
<1>7. Waiting' = Waiting
  BY <1>0 DEF Waiting
<1>8. BusyShape'
  BY <1>0, <1>7 DEF ReplyInv, BusyShape
<1>9. \A x : Fits(x) => Fits(x)'
  BY <1>0 DEF Fits
<1>10. (Streamed => AllFit(shown))'
  BY <1>0, <1>7, <1>9 DEF ReplyInv, TextShape, AllFit, Streamed
<1>11. Sound(shown, gen)' /\ \A u \in Users : Sound(saved'[u], gen')
  BY <1>0, <1>3 DEF ReplyInv, ShownShape
<1>12. ShownShape' /\ QueueShape' /\ TextShape'
  BY <1>0, <1>1, <1>4, <1>5, <1>6, <1>10, <1>11, Rendered
<1> QED
  BY <1>8, <1>12 DEF ReplyInv

-----------------------------------------------------------------------------
(* Parts of a sound conversation                                           *)

(* Some of its messages, in their order.                                   *)
LEMMA SoundPick ==
  ASSUME NEW ms \in Seq(Message), NEW ns \in Seq(Message), NEW g, Sound(ms, g), NEW f,
         \A j \in DOMAIN ns : f[j] \in DOMAIN ms /\ ns[j] = ms[f[j]],
         \A j, k \in DOMAIN ns : f[j] = f[k] => j = k,
         \A j \in DOMAIN ns : j < Len(ns) => f[j] < Len(ms)
  PROVE  Sound(ns, g)
<1>1. \A j \in DOMAIN ns : ns[j].key <= g /\ OwnText(ns[j])
  BY DEF Sound
<1>2. \A j \in DOMAIN ns : j < Len(ns) => ~Pending(ns[j])
  BY DEF Sound
<1>3. \A j, k \in DOMAIN ns :
        ns[j].from = "assistant" /\ ns[k].from = "assistant" /\ ns[j].key = ns[k].key => j = k
  <2> SUFFICES ASSUME NEW j \in DOMAIN ns, NEW k \in DOMAIN ns, ns[j].from = "assistant",
                      ns[k].from = "assistant", ns[j].key = ns[k].key
               PROVE  j = k
    OBVIOUS
  <2>1. /\ f[j] \in DOMAIN ms /\ f[k] \in DOMAIN ms
        /\ ms[f[j]].from = "assistant" /\ ms[f[k]].from = "assistant" /\ ms[f[j]].key = ms[f[k]].key
    OBVIOUS
  <2>2. f[j] = f[k]
    BY <2>1, Zenon DEF Sound
  <2> QED
    BY <2>2
<1> QED
  BY <1>1, <1>2, <1>3 DEF Sound

LEMMA SoundNewest ==
  ASSUME NEW ms \in Seq(Message), NEW g, Sound(ms, g), NEW n \in Nat \ {0}
  PROVE  Sound(Newest(ms, n), g)
<1>1. CASE Len(ms) <= n
  BY <1>1 DEF Newest
<1>2. CASE ~(Len(ms) <= n)
  <2> DEFINE d == Len(ms) - n
             ns == SubSeq(ms, d + 1, Len(ms))
  <2>1. d \in Nat /\ d > 0 /\ Len(ms) \in Nat /\ DOMAIN ms = 1..Len(ms) /\ Len(ms) = d + n
    BY <1>2
  <2>2. Newest(ms, n) = ns
    BY <1>2 DEF Newest
  <2> HIDE DEF d
  <2>3. ns \in Seq(Message) /\ Len(ns) = n /\ \A j \in 1..n : ns[j] = ms[d + j]
    <3>1. \A i \in (d + 1)..Len(ms) : ms[i] \in Message
      BY <2>1
    <3>2. /\ SubSeq(ms, d + 1, Len(ms)) \in Seq(Message)
          /\ Len(SubSeq(ms, d + 1, Len(ms))) = IF d + 1 <= Len(ms) THEN Len(ms) - (d + 1) + 1 ELSE 0
          /\ \A i \in 1..(Len(ms) - (d + 1) + 1) : SubSeq(ms, d + 1, Len(ms))[i] = ms[d + 1 + i - 1]
      BY <2>1, <3>1, SubSeqProperties
    <3>3. /\ Len(ms) - (d + 1) + 1 = n /\ d + 1 <= Len(ms)
          /\ \A j \in 1..n : d + 1 + j - 1 = d + j
      BY <2>1
    <3>4. Len(ns) = n /\ ns \in Seq(Message)
      BY <3>2, <3>3
    <3>5. \A j \in 1..n : ns[j] = ms[d + j]
      BY <3>2, <3>3
    <3> QED
      BY <3>4, <3>5
  <2> HIDE DEF ns
  <2> DEFINE f == [j \in 1..n |-> d + j]
  <2>4. DOMAIN ns = 1..n
    BY <2>3
  <2>5. \A j \in DOMAIN ns : f[j] \in DOMAIN ms /\ ns[j] = ms[f[j]] /\ f[j] = d + j
    BY <2>1, <2>3, <2>4
  <2>6. \A j, k \in DOMAIN ns : f[j] = f[k] => j = k
    BY <2>1, <2>4
  <2>7. \A j \in DOMAIN ns : j < Len(ns) => f[j] < Len(ms)
    BY <2>1, <2>3, <2>4
  <2> HIDE DEF f
  <2>8. Sound(ns, g)
    BY <2>3, <2>5, <2>6, <2>7, SoundPick
  <2> QED
    BY <2>2, <2>8
<1> QED
  BY <1>1, <1>2

LEMMA SoundTrim ==
  ASSUME NEW ms \in Seq(Message), NEW g, Sound(ms, g)
  PROVE  Sound(Trim(ms), g)
  BY SoundNewest DEF Trim

LEMMA SoundRemove ==
  ASSUME NEW ms \in Seq(Message), NEW g, Sound(ms, g), NEW i \in 1..Len(ms)
  PROVE  /\ Sound(RemoveAt(ms, i), g)
         /\ \A j \in DOMAIN RemoveAt(ms, i) :
              \E k \in DOMAIN ms : RemoveAt(ms, i)[j] = ms[k] /\ (k = j \/ k = j + 1)
<1> DEFINE a == SubSeq(ms, 1, i - 1)
           b == SubSeq(ms, i + 1, Len(ms))
           ns == a \o b
           f == [j \in 1..(Len(ms) - 1) |-> IF j < i THEN j ELSE j + 1]
<1>1. RemoveAt(ms, i) = ns
  BY DEF RemoveAt
<1>2. Len(ms) \in Nat /\ i \in Nat /\ i >= 1 /\ i <= Len(ms) /\ DOMAIN ms = 1..Len(ms)
  OBVIOUS
<1>3. a \in Seq(Message) /\ Len(a) = i - 1 /\ \A j \in 1..(i - 1) : a[j] = ms[j]
  <2>1. \A j \in 1..(i - 1) : ms[j] \in Message
    BY <1>2
  <2>2. /\ a \in Seq(Message) /\ Len(a) = IF 1 <= i - 1 THEN (i - 1) - 1 + 1 ELSE 0
        /\ \A j \in 1..((i - 1) - 1 + 1) : a[j] = ms[1 + j - 1]
    BY <1>2, <2>1, SubSeqProperties
  <2> QED
    BY <1>2, <2>2
<1>4. b \in Seq(Message) /\ Len(b) = Len(ms) - i /\ \A j \in 1..(Len(ms) - i) : b[j] = ms[i + j]
  <2>1. \A j \in (i + 1)..Len(ms) : ms[j] \in Message
    BY <1>2
  <2>2. /\ b \in Seq(Message) /\ Len(b) = IF i + 1 <= Len(ms) THEN Len(ms) - (i + 1) + 1 ELSE 0
        /\ \A j \in 1..(Len(ms) - (i + 1) + 1) : b[j] = ms[i + 1 + j - 1]
    BY <1>2, <2>1, SubSeqProperties
  <2>3. /\ Len(ms) - (i + 1) + 1 = Len(ms) - i /\ (~(i + 1 <= Len(ms)) => Len(ms) - i = 0)
        /\ \A j \in 1..(Len(ms) - i) : i + 1 + j - 1 = i + j
    <3> DEFINE n == Len(ms)
    <3>1. n \in Nat /\ i \in Nat /\ i <= n
      BY <1>2
    <3> HIDE DEF n
    <3>2. n - (i + 1) + 1 = n - i /\ (~(i + 1 <= n) => n - i = 0)
      BY <3>1
    <3>3. \A j \in 1..(n - i) : i + 1 + j - 1 = i + j
      BY <3>1
    <3> QED
      BY <3>2, <3>3 DEF n
  <2> HIDE DEF b
  <2>4. Len(b) = Len(ms) - i
    BY <1>2, <2>2, <2>3
  <2>5. \A j \in 1..(Len(ms) - i) : b[j] = ms[i + j]
    BY <2>2, <2>3
  <2> QED
    BY <2>2, <2>4, <2>5
<1> HIDE DEF a, b
<1>5. /\ ns \in Seq(Message) /\ Len(ns) = Len(a) + Len(b)
      /\ \A j \in 1..(Len(a) + Len(b)) : ns[j] = IF j <= Len(a) THEN a[j] ELSE b[j - Len(a)]
  BY <1>3, <1>4, ConcatProperties, ZenonT(60)
<1>6. Len(a) + Len(b) = Len(ms) - 1
  BY <1>2, <1>3, <1>4
<1> HIDE DEF ns
<1>7. DOMAIN ns = 1..(Len(ms) - 1)
  BY <1>5, <1>6
<1>8. \A j \in DOMAIN ns : f[j] \in DOMAIN ms /\ ns[j] = ms[f[j]] /\ (f[j] = j \/ f[j] = j + 1)
  <2> SUFFICES ASSUME NEW j \in 1..(Len(ms) - 1)
               PROVE  f[j] \in DOMAIN ms /\ ns[j] = ms[f[j]] /\ (f[j] = j \/ f[j] = j + 1)
    BY <1>7
  <2>0. ns[j] = IF j <= Len(a) THEN a[j] ELSE b[j - Len(a)]
    BY <1>5, <1>6
  <2>1. CASE j < i
    BY <1>2, <1>3, <2>0, <2>1
  <2>2. CASE ~(j < i)
    <3>1. j - (i - 1) \in 1..(Len(ms) - i) /\ i + (j - (i - 1)) = j + 1 /\ ~(j <= i - 1)
      BY <1>2, <2>2
    <3> QED
      BY <1>2, <1>3, <1>4, <2>0, <2>2, <3>1
  <2> QED
    BY <2>1, <2>2
<1>9. \A j, k \in DOMAIN ns : f[j] = f[k] => j = k
  BY <1>2, <1>7
<1>10. \A j \in DOMAIN ns : j < Len(ns) => f[j] < Len(ms)
  BY <1>2, <1>5, <1>6, <1>7
<1> HIDE DEF f
<1>11. Sound(ns, g)
  BY <1>5, <1>8, <1>9, <1>10, SoundPick
<1> QED
  BY <1>1, <1>8, <1>11

LEMMA KeyForm ==
  ASSUME NEW ms \in Seq(Message)
  PROVE  \A i \in DOMAIN ms : ms[i].key \in Nat
<1>1. \A m \in Message : m.key \in Gens
  BY DEF Message
<1>2. \A i \in DOMAIN ms : ms[i] \in Message
  OBVIOUS
<1> QED
  BY <1>1, <1>2, GensForm

LEMMA SoundLater ==
  ASSUME NEW ms \in Seq(Message), NEW g \in Nat, Sound(ms, g)
  PROVE  Sound(ms, g + 1)
<1>1. \A i \in DOMAIN ms : ms[i].key \in Nat
  BY KeyForm
<1>2. \A i \in DOMAIN ms : ms[i].key <= g + 1
  BY <1>1 DEF Sound
<1> QED
  BY <1>2 DEF Sound

(* A beginning of a conversation and the messages of a new request.        *)
LEMMA SoundGrow ==
  ASSUME NEW ms \in Seq(Message), NEW g \in Nat, Sound(ms, g), NEW ns \in Seq(Message),
         NEW n \in Nat, n <= Len(ms), n <= Len(ns), g + 1 \in Gens,
         \A i \in 1..n : ns[i] = ms[i] /\ ~Pending(ms[i]),
         \A i \in 1..Len(ns) : i > n => ns[i].key = g + 1 /\ ns[i].text = <<>>,
         \A i \in 1..Len(ns) : i > n /\ i < Len(ns) => ns[i].from = "user"
  PROVE  Sound(ns, g + 1)
<1>0. DOMAIN ms = 1..Len(ms) /\ DOMAIN ns = 1..Len(ns) /\ Len(ms) \in Nat /\ Len(ns) \in Nat
  OBVIOUS
<1>1. \A i \in 1..n : i \in DOMAIN ms /\ ms[i].key \in Nat /\ ms[i].key <= g /\ OwnText(ms[i])
  <2>1. \A i \in 1..n : i \in DOMAIN ms
    BY <1>0
  <2> QED
    BY <2>1, KeyForm DEF Sound
<1>2. \A i \in 1..Len(ns) : ~(i > n) => i \in 1..n
  OBVIOUS
<1>3. Part(<<>>, g + 1, 0, 0) /\ 0 \in 0..ReplyLen
  <2> DEFINE h == g + 1
  <2>1. h \in Gens
    OBVIOUS
  <2> HIDE DEF h
  <2>2. Part(<<>>, h, 0, 0)
    BY <2>1, PartEmpty
  <2> QED
    BY <2>2 DEF h
<1>4. \A i \in 1..Len(ns) : ns[i].key <= g + 1
  <2> SUFFICES ASSUME NEW i \in 1..Len(ns) PROVE ns[i].key <= g + 1
    OBVIOUS
  <2>1. CASE i > n
    BY <2>1
  <2>2. CASE ~(i > n)
    BY <1>1, <1>2, <2>2
  <2> QED
    BY <2>1, <2>2
<1>5. \A i \in 1..Len(ns) : OwnText(ns[i])
  <2> SUFFICES ASSUME NEW i \in 1..Len(ns) PROVE OwnText(ns[i])
    OBVIOUS
  <2>1. CASE i > n
    BY <1>3, <2>1 DEF OwnText
  <2>2. CASE ~(i > n)
    BY <1>1, <1>2, <2>2
  <2> QED
    BY <2>1, <2>2
<1>6. \A i \in 1..Len(ns) : i < Len(ns) => ~Pending(ns[i])
  <2> SUFFICES ASSUME NEW i \in 1..Len(ns), i < Len(ns) PROVE ~Pending(ns[i])
    OBVIOUS
  <2>1. CASE i > n
    BY <2>1 DEF Pending
  <2>2. CASE ~(i > n)
    BY <1>2, <2>2
  <2> QED
    BY <2>1, <2>2
<1>7. \A i, j \in 1..Len(ns) :
        ns[i].from = "assistant" /\ ns[j].from = "assistant" /\ ns[i].key = ns[j].key => i = j
  <2> SUFFICES ASSUME NEW i \in 1..Len(ns), NEW j \in 1..Len(ns), ns[i].from = "assistant",
                      ns[j].from = "assistant", ns[i].key = ns[j].key
               PROVE  i = j
    OBVIOUS
  <2>1. CASE i > n /\ j > n
    BY <2>1
  <2>2. CASE ~(i > n) /\ ~(j > n)
    BY <1>1, <1>2, <2>2 DEF Sound
  <2>3. CASE (i > n /\ ~(j > n)) \/ (~(i > n) /\ j > n)
    BY <1>1, <1>2, <2>3, SMTT(30)
  <2> QED
    BY <2>1, <2>2, <2>3
<1> QED
  BY <1>0, <1>4, <1>5, <1>6, <1>7 DEF Sound

(* Marking a message as edited.                                            *)
Edited(ms, i) == [ms EXCEPT ![i].edited = TRUE]

LEMMA SoundEdit ==
  ASSUME NEW ms \in Seq(Message), NEW g, Sound(ms, g), NEW i \in 1..Len(ms)
  PROVE  /\ Edited(ms, i) \in Seq(Message) /\ Len(Edited(ms, i)) = Len(ms) /\ Sound(Edited(ms, i), g)
         /\ \A j \in 1..Len(ms) :
              /\ Edited(ms, i)[j].from = ms[j].from /\ Edited(ms, i)[j].key = ms[j].key
              /\ Edited(ms, i)[j].st = ms[j].st
              /\ j # i => Edited(ms, i)[j] = ms[j]
              /\ j = i => Edited(ms, i)[j].edited
<1> DEFINE ns == Edited(ms, i)
           e == [ms[i] EXCEPT !.edited = TRUE]
<1>0. DOMAIN ms = 1..Len(ms) /\ ms[i] \in Message
  OBVIOUS
<1>1. /\ e \in Message /\ e.from = ms[i].from /\ e.key = ms[i].key /\ e.st = ms[i].st /\ e.edited
  BY <1>0 DEF Message
<1>2. ns = [ms EXCEPT ![i] = e]
  BY DEF Edited
<1> HIDE DEF e, ns
<1>3. /\ [ms EXCEPT ![i] = e] \in Seq(Message) /\ Len([ms EXCEPT ![i] = e]) = Len(ms)
      /\ \A j \in 1..Len(ms) : [ms EXCEPT ![i] = e][j] = IF j = i THEN e ELSE ms[j]
  BY <1>1, ExceptSeq
<1>4. ns \in Seq(Message) /\ Len(ns) = Len(ms) /\ \A j \in 1..Len(ms) : ns[j] = IF j = i THEN e ELSE ms[j]
  BY <1>2, <1>3
<1>5. DOMAIN ns = 1..Len(ms)
  BY <1>4
<1>6. \A j \in 1..Len(ms) : /\ ns[j].from = ms[j].from /\ ns[j].key = ms[j].key /\ ns[j].st = ms[j].st
                            /\ j # i => ns[j] = ms[j]
                            /\ j = i => ns[j].edited
  BY <1>1, <1>4
<1>7. \A j \in 1..Len(ms) : ns[j].key <= g /\ OwnText(ns[j])
  BY <1>0, <1>6 DEF Sound, OwnText
<1>8. \A j \in 1..Len(ms) : j < Len(ms) => ~Pending(ns[j])
  BY <1>0, <1>6 DEF Sound, Pending
<1>9. \A j, k \in 1..Len(ms) :
        ns[j].from = "assistant" /\ ns[k].from = "assistant" /\ ns[j].key = ns[k].key => j = k
  BY <1>0, <1>6 DEF Sound
<1>10. Sound(ns, g)
  <2>1. Len(ns) = Len(ms)
    BY <1>4
  <2> HIDE DEF e
  <2> QED
    BY <1>5, <1>7, <1>8, <1>9, <2>1 DEF Sound
<1> QED
  BY <1>4, <1>6, <1>10 DEF ns

-----------------------------------------------------------------------------
(* Gestures and saves                                                      *)

LEMMA LatestSound ==
  ASSUME IInv, ReplyInv
  PROVE  Sound(latest, gen) /\ Sound(Trim(latest), gen)
<1>1. shown \in Seq(Message) /\ latest \in Seq(Message) /\ Sound(shown, gen)
  BY ReplyForm DEF ReplyInv, ShownShape
<1>2. queue # <<>> /\ queue[1].kind = "set" => Follows(shown, queue[1].val)
  <2>1. queue # <<>> => 1 \in DOMAIN queue
    BY ReplyForm, EmptySeq
  <2> QED
    BY <2>1 DEF ReplyInv, QueueShape
<1>3. Sound(latest, gen)
  BY <1>1, <1>2, SoundFollows DEF ReplyInv, QueueShape
<1> QED
  BY <1>1, <1>3, SoundTrim

LEMMA SaveReply == ASSUME IInv, ReplyInv, SaveFires PROVE ReplyInv'
<1>1. UNCHANGED <<shown, queue, gen, pend, timer, post, ctl, headers, sources, busy, busyShown,
                  mounted, latest, got>>
  BY DEF SaveFires, chat, stream, page
<1>2. \A u \in Users : saved'[u] = Trim(latest) \/ saved'[u] = saved[u]
  BY DEF SaveFires
<1>3. Sound(Trim(latest), gen)
  BY LatestSound DEF SaveFires
<1>4. \A u \in Users : Sound(saved'[u], gen)
  BY <1>2, <1>3 DEF ReplyInv, ShownShape
<1> QED
  BY <1>1, <1>4, QuietReply

(* A source that is open is the active one: every new generation of the    *)
(* stream controller closes it and leaves every older send behind.         *)
LEMMA Superseded ==
  ASSUME IInv, NEW wait, Supersede(wait)
  PROVE  /\ sources' = {} /\ ctl' = ctl + 1 /\ headers' = headers \cup wait
         /\ Waiting' <=> \E h \in wait : h.ctl = ctl + 1
<1>1. CtlInv
  BY ReplyForm
<1>2. \A h \in headers : h.ctl \in Nat /\ h.ctl <= ctl /\ ctl \in Nat
  BY <1>1, CtlForm DEF CtlInv, HeaderShape
<1>3. sources' = {}
  BY <1>1 DEF Supersede, CloseActive, CtlInv, SourceShape
<1>4. \A h \in headers : h.ctl # ctl + 1
  BY <1>2
<1> QED
  BY <1>3, <1>4 DEF Supersede, Waiting

LEMMA SavedLater ==
  ASSUME IInv, ReplyInv, saved' = saved
  PROVE  \A u \in Users : Sound(saved'[u], gen + 1)
<1>1. gen \in Nat /\ \A u \in Users : saved[u] \in Seq(Message) /\ Sound(saved[u], gen)
  BY ReplyForm DEF ReplyInv, ShownShape
<1> QED
  BY <1>1, SoundLater

LEMMA SendChatReply ==
  ASSUME IInv, ReplyInv, Gesture, NEW next \in Seq(Message), SendChat(next), mounted' = mounted,
         Sound(next, gen + 1), next # <<>>, Last(next) = LoadingMessage(gen + 1)
  PROVE  ReplyInv' /\ shown' = next
<1> DEFINE g == gen + 1
<1>0. gen \in Nat /\ g \in Gens /\ g # 0 /\ mounted /\ g \in Nat
  BY GenRoom, GensForm DEF Gesture
<1>1. /\ queue' = <<>> /\ latest' = shown' /\ saved' = saved /\ gen' = g /\ got' = 0
      /\ timer' = 0 /\ pend' = [gen |-> g, text |-> <<>>] /\ busy' = [req |-> TRUE, stream |-> FALSE]
      /\ shown' = ApplyAll(shown, queue \o <<SetTo(next)>>, g) /\ busyShown' = (busy'.req \/ busy'.stream)
  BY DEF SendChat, ClickRender, Discard
<1>2. shown' = next
  BY <1>1, ReplyForm, ApplyAllSet
<1>3. /\ sources' = {}
      /\ \/ post' = 0 /\ Waiting'
         \/ post' = g /\ ~Waiting'
  <2>1. CASE post' = 0 /\ Supersede({[ctl |-> ctl + 1, gen |-> g]})
    <3> DEFINE w == {[ctl |-> ctl + 1, gen |-> g]}
    <3>1. \E h \in w : h.ctl = ctl + 1
      OBVIOUS
    <3>2. Supersede(w)
      BY <2>1
    <3> HIDE DEF w
    <3>3. sources' = {} /\ Waiting'
      BY <3>1, <3>2, Superseded
    <3> QED
      BY <2>1, <3>3
  <2>2. CASE post' = g /\ Supersede({})
    BY <2>2, Superseded
  <2> QED
    BY <2>1, <2>2 DEF SendChat
<1>4. BusyShape'
  BY <1>0, <1>1, <1>3 DEF BusyShape
<1>5. \A u \in Users : Sound(saved'[u], gen')
  BY <1>1, SavedLater
<1>6. Pending(Last(next)) /\ Last(next).key = g /\ Last(next).from = "assistant" /\ Last(next).text = <<>>
  BY DEF Pending, LoadingMessage
<1>7. AllFit(shown)'
  <2> SUFFICES ASSUME NEW i \in DOMAIN next, Streams(next[i], g) PROVE Part(next[i].text, g, 0, 0)
    <3>1. got' = 0 /\ gen' = g /\ pend'.text = <<>> /\ 0 \in 0..0 /\ sources' = {}
      BY <1>1, <1>3
    <3> HIDE DEF g
    <3> QED
      BY <1>2, <3>1 DEF AllFit, Fits
  <2>1. next[i] = Last(next)
    BY <1>6, OnlyLast
  <2>2. Part(<<>>, g, 0, 0)
    <3> HIDE DEF g
    <3> QED
      BY <1>0, PartEmpty
  <2> QED
    BY <1>6, <2>1, <2>2
<1>8. ShownShape' /\ QueueShape' /\ TextShape'
  <2>1. Sound(shown, gen)' /\ busyShown'
    BY <1>1, <1>2
  <2> QED
    BY <1>0, <1>1, <1>2, <1>5, <1>6, <1>7, <2>1, Rendered
<1> QED
  BY <1>2, <1>4, <1>8 DEF ReplyInv

(* The first n messages and the reply that is asked for.                   *)
Cut(ms, n, m) == SubSeq(ms, 1, n) \o <<m>>

LEMMA CutGrow ==
  ASSUME NEW ms \in Seq(Message), NEW g \in Nat, g + 1 \in Gens, Sound(ms, g),
         NEW n \in Nat, n <= Len(ms), \A j \in 1..n : ~Pending(ms[j]),
         NEW m \in Message, m.key = g + 1, m.text = <<>>
  PROVE  /\ Cut(ms, n, m) \in Seq(Message) /\ Cut(ms, n, m) # <<>> /\ Last(Cut(ms, n, m)) = m
         /\ Sound(Cut(ms, n, m), g + 1)
         /\ Len(Cut(ms, n, m)) = n + 1 /\ \A j \in 1..n : Cut(ms, n, m)[j] = ms[j]
<1> DEFINE ns == Cut(ms, n, m)
           a == SubSeq(ms, 1, n)
           b == <<m>>
<1>1. a \in Seq(Message) /\ Len(a) = n /\ \A j \in 1..n : a[j] = ms[j]
  <2>1. \A j \in 1..n : ms[j] \in Message
    OBVIOUS
  <2>2. /\ a \in Seq(Message) /\ Len(a) = IF 1 <= n THEN n - 1 + 1 ELSE 0
        /\ \A j \in 1..(n - 1 + 1) : a[j] = ms[1 + j - 1]
    BY <2>1, SubSeqProperties
  <2> HIDE DEF a
  <2> QED
    BY <2>2
<1>2. b \in Seq(Message) /\ Len(b) = 1 /\ b[1] = m
  OBVIOUS
<1>3. ns = a \o b
  BY DEF Cut
<1> HIDE DEF a, b, ns
<1>4. /\ ns \in Seq(Message) /\ Len(ns) = Len(a) + Len(b)
      /\ \A j \in 1..(Len(a) + Len(b)) : ns[j] = IF j <= Len(a) THEN a[j] ELSE b[j - Len(a)]
  BY <1>1, <1>2, <1>3, ConcatProperties, ZenonT(60)
<1>5. Len(ns) = n + 1 /\ ns[n + 1] = m /\ \A j \in 1..n : ns[j] = ms[j]
  BY <1>1, <1>2, <1>4
<1>6. ns # <<>>
  <2>1. Len(ns) # Len(<<>>)
    BY <1>5
  <2> QED
    BY <2>1
<1>7. Last(ns) = m
  BY <1>5 DEF Last
<1>8. Sound(ns, g + 1)
  <2>1. \A j \in 1..Len(ns) : j > n => j = n + 1
    BY <1>5
  <2>2. \A j \in 1..Len(ns) : j > n => ns[j].key = g + 1 /\ ns[j].text = <<>>
    BY <1>5, <2>1
  <2>3. \A j \in 1..Len(ns) : j > n /\ j < Len(ns) => ns[j].from = "user"
    BY <1>5
  <2>4. n <= Len(ns)
    BY <1>5
  <2> QED
    BY <1>4, <1>5, <2>2, <2>3, <2>4, SoundGrow
<1> QED
  BY <1>4, <1>5, <1>6, <1>7, <1>8 DEF ns

LEMMA IdleForm ==
  ASSUME IInv, ReplyInv, ~busyShown
  PROVE  /\ queue = <<>> /\ ~busy.req /\ ~busy.stream /\ sources = {} /\ ~Waiting /\ post = 0
         /\ timer = 0 /\ pend.text = <<>> /\ Now = shown
         /\ \A i \in DOMAIN shown : ~Pending(shown[i])
<1>1. /\ queue = <<>> /\ ~busy.req /\ ~busy.stream /\ sources = {} /\ ~Waiting /\ post = 0
      /\ timer = 0 /\ pend.text = <<>>
  BY DEF ReplyInv, BusyShape
<1> QED
  BY <1>1, BaseShown DEF ReplyInv, ShownShape

LEMMA GestureForm ==
  ASSUME IInv, ReplyInv, Gesture
  PROVE  /\ mounted /\ gen \in Nat /\ gen + 1 \in Gens
         /\ UserMessage(gen + 1) \in Message /\ LoadingMessage(gen + 1) \in Message
         /\ shown \in Seq(Message) /\ Sound(shown, gen) /\ DOMAIN shown = 1..Len(shown) /\ Len(shown) \in Nat
<1>1. mounted /\ gen \in Nat /\ gen + 1 \in Gens
  BY GenRoom DEF Gesture
<1>2. UserMessage(gen + 1) \in Held(user) /\ LoadingMessage(gen + 1) \in Held(user)
  BY <1>1, ReplyForm, NewMessages
<1>3. shown \in Seq(Message) /\ Sound(shown, gen)
  BY ReplyForm DEF ReplyInv, ShownShape
<1> QED
  BY <1>1, <1>2, <1>3 DEF Held

LEMMA SendReply ==
  ASSUME IInv, ReplyInv, Send
  PROVE  ReplyInv' /\ shown' = shown \o <<UserMessage(gen + 1), LoadingMessage(gen + 1)>>
<1> DEFINE u == UserMessage(gen + 1)
           l == LoadingMessage(gen + 1)
           b == <<u, l>>
           next == shown \o b
           n == Len(shown)
<1>0. ~busyShown /\ Gesture /\ SendChat(next) /\ mounted' = mounted
  BY DEF Send
<1>1. /\ gen \in Nat /\ gen + 1 \in Gens /\ u \in Message /\ l \in Message
      /\ shown \in Seq(Message) /\ Sound(shown, gen) /\ DOMAIN shown = 1..n /\ n \in Nat
  BY <1>0, GestureForm
<1>2. /\ u.key = gen + 1 /\ l.key = gen + 1 /\ u.text = <<>> /\ l.text = <<>> /\ u.from = "user"
  BY DEF UserMessage, LoadingMessage
<1>3. b \in Seq(Message) /\ Len(b) = 2 /\ b[1] = u /\ b[2] = l
  <2> HIDE DEF u, l
  <2> QED
    BY <1>1
<1> HIDE DEF u, l, b
<1>4. /\ next \in Seq(Message) /\ Len(next) = n + Len(b)
      /\ \A j \in 1..(n + Len(b)) : next[j] = IF j <= n THEN shown[j] ELSE b[j - n]
  <2> DEFINE x == shown
  <2>1. x \in Seq(Message) /\ b \in Seq(Message)
    BY <1>1, <1>3
  <2> HIDE DEF x
  <2>2. /\ x \o b \in Seq(Message) /\ Len(x \o b) = Len(x) + Len(b)
        /\ \A j \in 1..(Len(x) + Len(b)) : (x \o b)[j] = IF j <= Len(x) THEN x[j] ELSE b[j - Len(x)]
    BY <2>1, ConcatProperties, ZenonT(60)
  <2> QED
    BY <2>2 DEF x
<1> HIDE DEF next
<1> HIDE DEF n
<1>5. /\ Len(next) = n + 2 /\ next[n + 1] = u /\ next[n + 2] = l /\ \A j \in 1..n : next[j] = shown[j]
  <2>1. n \in Nat /\ Len(next) = n + 2 /\ b[1] = u /\ b[2] = l
    BY <1>1, <1>3, <1>4
  <2>2. \A j \in 1..(n + 2) : next[j] = IF j <= n THEN shown[j] ELSE b[j - n]
    BY <1>3, <1>4
  <2>3. n + 1 \in 1..(n + 2) /\ n + 2 \in 1..(n + 2) /\ ~(n + 1 <= n) /\ ~(n + 2 <= n)
        /\ (n + 1) - n = 1 /\ (n + 2) - n = 2 /\ \A j \in 1..n : j \in 1..(n + 2) /\ j <= n
    BY <2>1
  <2>4. next[n + 1] = b[1] /\ next[n + 2] = b[2]
    BY <2>2, <2>3, Zenon
  <2>5. \A j \in 1..n : next[j] = shown[j]
    BY <2>2, <2>3, Zenon
  <2> QED
    BY <2>1, <2>4, <2>5
<1>6. next # <<>>
  <2>1. Len(next) # Len(<<>>)
    BY <1>1, <1>5
  <2> QED
    BY <2>1
<1>7. Last(next) = l
  BY <1>5 DEF Last
<1>8. Sound(next, gen + 1)
  <2>1. \A j \in 1..Len(next) : j > n => j = n + 1 \/ j = n + 2
    BY <1>1, <1>5
  <2>2. \A j \in 1..Len(next) : j > n => next[j].key = gen + 1 /\ next[j].text = <<>>
    BY <1>2, <1>5, <2>1
  <2>3. \A j \in 1..Len(next) : j > n /\ j < Len(next) => next[j].from = "user"
    BY <1>1, <1>2, <1>5, <2>1
  <2>4. n <= Len(next) /\ n <= Len(shown)
    BY <1>1, <1>5 DEF n
  <2>5. \A j \in 1..n : next[j] = shown[j] /\ ~Pending(shown[j])
    BY <1>0, <1>1, <1>5, IdleForm
  <2> QED
    BY <1>1, <1>4, <2>2, <2>3, <2>4, <2>5, SoundGrow
<1>9. ReplyInv' /\ shown' = next
  BY <1>0, <1>4, <1>6, <1>7, <1>8, SendChatReply DEF l
<1> QED
  BY <1>9 DEF next, b, u, l

LEMMA RegenerateReply ==
  ASSUME IInv, ReplyInv, NEW i \in DOMAIN shown, Regenerate(i)
  PROVE  /\ ReplyInv'
         /\ \E n \in Nat : /\ n <= Len(shown) /\ Len(shown') = n + 1
                           /\ \A j \in 1..n : shown'[j] = shown[j]
                           /\ shown'[n + 1].key = gen + 1
<1> DEFINE n == IF shown[i].from = "user" THEN i ELSE i - 1
           l == LoadingMessage(gen + 1)
           next == SubSeq(shown, 1, n) \o <<l>>
<1>0. ~busyShown /\ Gesture /\ SendChat(next) /\ mounted' = mounted
  BY DEF Regenerate
<1>1. /\ gen \in Nat /\ gen + 1 \in Gens /\ l \in Message
      /\ shown \in Seq(Message) /\ Sound(shown, gen) /\ DOMAIN shown = 1..Len(shown) /\ Len(shown) \in Nat
  BY <1>0, GestureForm
<1>2. l.key = gen + 1 /\ l.text = <<>>
  BY DEF LoadingMessage
<1>3. n \in Nat /\ n <= Len(shown)
  BY <1>1
<1>4. \A j \in 1..n : ~Pending(shown[j])
  BY <1>0, <1>1, <1>3, IdleForm
<1>5. next = Cut(shown, n, l)
  BY DEF Cut
<1> HIDE DEF next, n, l
<1>6. /\ next \in Seq(Message) /\ next # <<>> /\ Last(next) = l /\ Sound(next, gen + 1)
      /\ Len(next) = n + 1 /\ \A j \in 1..n : next[j] = shown[j]
  <2>1. /\ shown \in Seq(Message) /\ gen \in Nat /\ gen + 1 \in Gens /\ Sound(shown, gen)
        /\ n \in Nat /\ n <= Len(shown) /\ (\A j \in 1..n : ~Pending(shown[j]))
        /\ l \in Message /\ l.key = gen + 1 /\ l.text = <<>>
    BY <1>1, <1>2, <1>3, <1>4
  <2>2. /\ Cut(shown, n, l) \in Seq(Message) /\ Cut(shown, n, l) # <<>>
        /\ Last(Cut(shown, n, l)) = l /\ Sound(Cut(shown, n, l), gen + 1)
        /\ Len(Cut(shown, n, l)) = n + 1 /\ \A j \in 1..n : Cut(shown, n, l)[j] = shown[j]
    BY <2>1, CutGrow, SMTT(30)
  <2> QED
    BY <1>5, <2>2, Zenon
<1>7. ReplyInv' /\ shown' = next
  BY <1>0, <1>6, SendChatReply DEF l
<1>8. next[n + 1].key = gen + 1
  BY <1>2, <1>6 DEF Last
<1> QED
  BY <1>3, <1>6, <1>7, <1>8

(* A click on save replaces what is shown, which is all there is while     *)
(* nothing is queued.                                                      *)
LEMMA EditReply ==
  ASSUME IInv, ReplyInv, queue = <<>>, NEW i \in DOMAIN shown, ApplyEdit(i)
  PROVE  /\ ReplyInv'
         /\ \E n \in Nat : /\ n <= Len(shown) /\ (Len(shown') = n \/ Len(shown') = n + 1)
                           /\ \A j \in 1..n : shown'[j] = shown[j] \/ shown'[j].edited
                           /\ Len(shown') = n + 1 => shown'[n + 1].key = gen + 1
<1> DEFINE e == [shown EXCEPT ![i].edited = TRUE]
           l == LoadingMessage(gen + 1)
<1>0. queue = <<>> /\ Gesture /\ mounted' = mounted
  BY DEF ApplyEdit
<1>1. /\ gen \in Nat /\ gen + 1 \in Gens /\ l \in Message /\ mounted
      /\ shown \in Seq(Message) /\ Sound(shown, gen) /\ DOMAIN shown = 1..Len(shown) /\ Len(shown) \in Nat
  BY <1>0, GestureForm
<1>2. /\ e \in Seq(Message) /\ Len(e) = Len(shown) /\ Sound(e, gen)
      /\ \A j \in 1..Len(shown) :
           /\ e[j].from = shown[j].from /\ e[j].key = shown[j].key /\ e[j].st = shown[j].st
           /\ j # i => e[j] = shown[j]
           /\ j = i => e[j].edited
  <2>1. e = Edited(shown, i) /\ i \in 1..Len(shown)
    BY <1>1 DEF Edited
  <2> HIDE DEF e
  <2> QED
    BY <1>1, <2>1, SoundEdit
<1>3. Now = shown
  BY <1>0, BaseShown
<1> HIDE DEF e, l
<1>4. DOMAIN e = 1..Len(shown)
  BY <1>2
<1>5. CASE /\ busy' = busy
           /\ ClickRender(<<SetTo(e)>>, gen)
           /\ UNCHANGED <<reqs, chat, stream>>
  <2>1. /\ queue' = <<>> /\ latest' = shown' /\ saved' = saved /\ gen' = gen /\ got' = got
        /\ timer' = timer /\ pend' = pend /\ post' = post /\ headers' = headers /\ ctl' = ctl
        /\ sources' = sources /\ shown' = ApplyAll(shown, queue \o <<SetTo(e)>>, gen)
        /\ busyShown' = (busy.req \/ busy.stream)
    BY <1>5 DEF ClickRender, chat, stream
  <2>2. shown' = e
    <3>1. queue \in Seq(Update) /\ e \in Seq(Message)
      BY <1>2, ReplyForm
    <3>2. ASSUME NEW q \in Seq(Update) PROVE ApplyAll(shown, q \o <<SetTo(e)>>, gen) = e
      BY <3>1, ApplyAllSet
    <3> QED
      BY <2>1, <3>1, <3>2
  <2>3. busyShown' = busyShown
    BY <1>0, <2>1, ReplyForm DEF ReplyInv, BusyShape, CtlInv, CtlType
  <2>4. Waiting' = Waiting
    BY <2>1 DEF Waiting
  <2>5. BusyShape'
    BY <1>0, <1>5, <2>1, <2>3, <2>4 DEF ReplyInv, BusyShape
  <2>6. \A x : Fits(x) => Fits(x)'
    BY <2>1 DEF Fits
  <2>7. \A j \in DOMAIN e : Streams(e[j], gen) => Streams(shown[j], gen) /\ e[j] = shown[j]
    BY <1>2, <1>4 DEF Streams
  <2>8. (Streamed => AllFit(shown))'
    BY <1>1, <1>3, <1>4, <2>1, <2>2, <2>4, <2>6, <2>7 DEF ReplyInv, TextShape, AllFit, Streamed
  <2>9. busyShown => e # <<>> /\ Pending(Last(e)) /\ Last(e).key = gen
    <3> SUFFICES ASSUME busyShown PROVE e # <<>> /\ Pending(Last(e)) /\ Last(e).key = gen
      OBVIOUS
    <3>1. shown # <<>> /\ Pending(Last(shown)) /\ Last(shown).key = gen
      BY DEF ReplyInv, ShownShape
    <3>2. Len(shown) \in 1..Len(shown) /\ Last(shown) = shown[Len(shown)]
      BY <1>1, <3>1, LastForm
    <3>3. e # <<>>
      <4>1. Len(e) # Len(<<>>)
        BY <1>2, <3>2
      <4> QED
        BY <4>1
    <3>4. Last(e) = e[Len(shown)]
      BY <1>2 DEF Last
    <3> QED
      BY <1>2, <3>1, <3>2, <3>3, <3>4 DEF Pending
  <2>10. ~busyShown => \A j \in DOMAIN e : ~Pending(e[j])
    BY <1>1, <1>2, <1>4 DEF ReplyInv, ShownShape, Pending
  <2>11. Sound(shown, gen)' /\ \A u \in Users : Sound(saved'[u], gen')
    BY <1>2, <2>1, <2>2 DEF ReplyInv, ShownShape
  <2>12. ShownShape' /\ QueueShape' /\ TextShape'
    <3>1. /\ queue' = <<>> /\ latest' = shown' /\ shown' \in Seq(Message)
          /\ busyShown' = (busy'.req \/ busy'.stream)
          /\ (~mounted' => shown' = <<>> /\ ~busyShown' /\ got' = 0)
      BY <1>0, <1>1, <1>2, <1>5, <2>1, <2>2
    <3>2. busyShown' => shown' # <<>> /\ Pending(Last(shown')) /\ Last(shown').key = gen'
      BY <2>1, <2>2, <2>3, <2>9
    <3>3. ~busyShown' => \A j \in DOMAIN shown' : ~Pending(shown'[j])
      BY <2>2, <2>3, <2>10
    <3> QED
      BY <2>8, <2>11, <3>1, <3>2, <3>3, Rendered
  <2>13. \A j \in 1..Len(shown) : shown'[j] = shown[j] \/ shown'[j].edited
    BY <1>2, <2>2
  <2>14. Len(shown') = Len(shown) /\ Len(shown) <= Len(shown) /\ Len(shown) # Len(shown) + 1
    <3> DEFINE n == Len(shown)
    <3>1. n \in Nat /\ Len(shown') = n
      BY <1>1, <1>2, <2>2
    <3> HIDE DEF n
    <3>2. n <= n /\ n # n + 1
      BY <3>1
    <3> QED
      BY <3>1, <3>2 DEF n
  <2>15. ReplyInv'
    BY <2>5, <2>12 DEF ReplyInv
  <2> QED
    BY <1>1, <2>13, <2>14, <2>15
<1>6. CASE shown[i].from = "user" /\ SendChat(SubSeq(e, 1, i) \o <<l>>)
  <2> DEFINE next == Cut(e, i, l)
  <2>0. SendChat(next)
    BY <1>6 DEF Cut
  <2>1. l.key = gen + 1 /\ l.text = <<>>
    BY DEF LoadingMessage, l
  <2>2. i \in Nat /\ i <= Len(e) /\ i <= Len(shown) /\ i \in 1..Len(shown)
    BY <1>1, <1>2
  <2>3. \A j \in 1..i : ~Pending(e[j])
    <3> SUFFICES ASSUME NEW j \in 1..i PROVE ~Pending(e[j])
      OBVIOUS
    <3>1. CASE j = i
      BY <1>2, <1>6, <2>2, <3>1 DEF Pending
    <3>2. CASE j # i
      BY <1>2, <1>4, <2>2, <3>2 DEF Sound
    <3> QED
      BY <3>1, <3>2
  <2>4. /\ next \in Seq(Message) /\ next # <<>> /\ Last(next) = l /\ Sound(next, gen + 1)
        /\ Len(next) = i + 1 /\ \A j \in 1..i : next[j] = e[j]
    BY <1>1, <1>2, <2>1, <2>2, <2>3, CutGrow
  <2> HIDE DEF next
  <2>5. ReplyInv' /\ shown' = next
    BY <1>0, <2>0, <2>4, SendChatReply DEF l
  <2>6. next[i + 1].key = gen + 1
    BY <2>1, <2>4 DEF Last
  <2>7. \A j \in 1..i : next[j] = shown[j] \/ next[j].edited
    BY <1>2, <2>2, <2>4
  <2> QED
    BY <2>2, <2>4, <2>5, <2>6, <2>7
<1> QED
  BY <1>5, <1>6 DEF ApplyEdit, e, l

LEMMA DeleteReply ==
  ASSUME IInv, ReplyInv, Delete
  PROVE  /\ ReplyInv'
         /\ shown' \in Seq(Message)
         /\ \A j \in DOMAIN shown' : \E k \in DOMAIN shown : shown'[j] = shown[k] /\ (k = j \/ k = j + 1)
<1>0. ~busyShown /\ Gesture /\ mounted' = mounted /\ busy' = busy /\ mounted
      /\ UNCHANGED <<chat, stream>>
  BY DEF Delete, Gesture
<1>1. /\ shown \in Seq(Message) /\ Sound(shown, gen) /\ DOMAIN shown = 1..Len(shown)
  BY <1>0, GestureForm
<1>2. /\ queue = <<>> /\ ~busy.req /\ ~busy.stream /\ sources = {} /\ ~Waiting /\ post = 0
      /\ timer = 0 /\ pend.text = <<>> /\ Now = shown
      /\ \A i \in DOMAIN shown : ~Pending(shown[i])
  BY <1>0, IdleForm
<1>3. ASSUME NEW ns \in Seq(Message), Sound(ns, gen), ClickRender(<<SetTo(ns)>>, gen),
             \A j \in DOMAIN ns : \E k \in DOMAIN shown : ns[j] = shown[k] /\ (k = j \/ k = j + 1)
      PROVE  /\ ReplyInv' /\ shown' \in Seq(Message)
             /\ \A j \in DOMAIN shown' : \E k \in DOMAIN shown : shown'[j] = shown[k] /\ (k = j \/ k = j + 1)
  <2>1. /\ queue' = <<>> /\ latest' = shown' /\ saved' = saved /\ gen' = gen /\ got' = got
        /\ timer' = timer /\ pend' = pend /\ post' = post /\ headers' = headers /\ ctl' = ctl
        /\ sources' = sources /\ shown' = ApplyAll(shown, queue \o <<SetTo(ns)>>, gen)
        /\ busyShown' = (busy'.req \/ busy'.stream) /\ ~busyShown'
    BY <1>0, <1>2, <1>3 DEF ClickRender, chat, stream
  <2>2. shown' = ns
    BY <1>3, <2>1, ReplyForm, ApplyAllSet
  <2>3. Waiting' = Waiting
    BY <2>1 DEF Waiting
  <2>4. BusyShape'
    BY <1>0, <1>2, <2>1, <2>3 DEF BusyShape
  <2>5. \A x : Fits(x) => Fits(x)'
    BY <2>1 DEF Fits
  <2>6. (Streamed => AllFit(shown))'
    BY <1>2, <1>3, <2>1, <2>2, <2>3, <2>5 DEF ReplyInv, TextShape, AllFit, Streamed
  <2>7. \A j \in DOMAIN ns : ~Pending(ns[j])
    BY <1>2, <1>3
  <2>8. Sound(shown, gen)' /\ \A u \in Users : Sound(saved'[u], gen')
    BY <1>3, <2>1, <2>2 DEF ReplyInv, ShownShape
  <2>9. ShownShape' /\ QueueShape' /\ TextShape'
    BY <1>0, <1>3, <2>1, <2>2, <2>6, <2>7, <2>8, Rendered
  <2> QED
    BY <1>3, <2>2, <2>4, <2>9 DEF ReplyInv
<1>4. ASSUME NEW i \in DOMAIN shown, ClickRender(<<SetTo(RemoveAt(shown, i))>>, gen)
      PROVE  /\ ReplyInv' /\ shown' \in Seq(Message)
             /\ \A j \in DOMAIN shown' : \E k \in DOMAIN shown : shown'[j] = shown[k] /\ (k = j \/ k = j + 1)
  <2> DEFINE ns == RemoveAt(shown, i)
  <2>1. i \in 1..Len(shown)
    BY <1>1
  <2>2. ns \in Seq(Message)
    BY <1>1, <2>1, RemoveType
  <2>3. /\ Sound(ns, gen)
        /\ \A j \in DOMAIN ns : \E k \in DOMAIN shown : ns[j] = shown[k] /\ (k = j \/ k = j + 1)
    BY <1>1, <2>1, SoundRemove
  <2>4. ClickRender(<<SetTo(ns)>>, gen)
    BY <1>4
  <2> HIDE DEF ns
  <2> QED
    BY <1>3, <2>2, <2>3, <2>4
<1>5. CASE ClickRender(<<SetTo(<<>>)>>, gen)
  <2>1. <<>> \in Seq(Message) /\ Sound(<<>>, gen) /\ DOMAIN <<>> = {}
    BY EmptySeq DEF Sound
  <2> QED
    BY <1>3, <1>5, <2>1
<1> QED
  BY <1>4, <1>5 DEF Delete

(* Stopping: what has run of the queue and of the buffer, made final.      *)
LEMMA StopReply ==
  ASSUME IInv, ReplyInv, Stop
  PROVE  ReplyInv' /\ shown' \in Seq(Message) /\ Follows(shown, shown')
<1> DEFINE g == gen + 1
           flush == FlushOf(gen)
           e == Upd("stopped", g, <<>>)
<1>0. /\ Gesture /\ busyShown /\ gen' = g /\ timer' = 0 /\ pend' = [gen |-> g, text |-> <<>>]
      /\ Supersede({}) /\ post' = 0 /\ busy' = Idle /\ got' = 0 /\ mounted' = mounted
  BY DEF Stop, Discard, AfterStop
<1>1. /\ gen \in Nat /\ g \in Gens /\ g \in Nat /\ g # gen /\ mounted /\ shown \in Seq(Message)
      /\ queue \in Seq(Update) /\ Now \in Seq(Message) /\ pend.text \in Text /\ gen \in Gens
  BY <1>0, GestureForm, ReplyForm, GensForm
<1>2. shown # <<>> /\ Last(shown).from = "assistant" /\ Sound(shown, gen)
  BY <1>0, BusyForm DEF ReplyInv, ShownShape
<1>3. e \in Update /\ e.kind = "stopped" /\ e.gen = g
  <2>1. <<>> \in Text
    BY DEF Text
  <2> HIDE DEF g
  <2> QED
    BY <1>1, <2>1, UpdType DEF Upd
<1>4. StopUpdate(g) = <<e>>
  BY DEF StopUpdate
<1> HIDE DEF e, g
<1>5. <<e>> \in Seq(Update) /\ \A ms : ApplyAll(ms, <<e>>, g) = Apply(ms, e, g)
  BY <1>3, ApplyAllOne
<1>6. /\ flush \in Seq(Update)
      /\ pend.text = <<>> => flush = <<>>
      /\ pend.text # <<>> => flush = <<Upd("flush", gen, pend.text)>>
  BY FlushForm
<1>k. Upd("flush", gen, pend.text) \in Update /\ Upd("flush", gen, pend.text).kind = "flush"
      /\ Upd("flush", gen, pend.text).gen = gen
  BY <1>1, UpdType DEF Upd
<1>7. \E b \in Seq(Message) : Follows(shown, b) /\ shown' = Apply(b, e, g)
  <2>1. CASE ClickRender(flush \o <<e>>, g)
    <3> DEFINE b == Base(shown, queue)
    <3>1. shown' = ApplyAll(shown, queue \o (flush \o <<e>>), g)
      BY <2>1 DEF ClickRender
    <3>2. ApplyAll(shown, queue, g) = b
      <4>1. \A i \in DOMAIN queue : IF queue[i].kind = "set" THEN i = 1 ELSE queue[i].gen # g
        BY <1>1 DEF ReplyInv, QueueShape
      <4> QED
        BY <1>1, <4>1, ApplyAllStale
    <3>3. b \in Seq(Message) /\ Follows(shown, b)
      <4>1. CASE queue # <<>> /\ queue[1].kind = "set"
        <5>1. 1 \in DOMAIN queue /\ queue[1] \in Update
          BY <1>1, <4>1, EmptySeq
        <5>2. queue[1].val \in Seq(Message)
          BY <5>1 DEF Update
        <5>3. Follows(shown, queue[1].val)
          BY <4>1, <5>1 DEF ReplyInv, QueueShape
        <5> QED
          BY <4>1, <5>2, <5>3 DEF Base
      <4>2. CASE ~(queue # <<>> /\ queue[1].kind = "set")
        <5>1. b = shown
          BY <4>2 DEF Base
        <5>2. OwnText(Last(shown))
          BY <1>1, <1>2, LastForm DEF Sound
        <5> QED
          BY <1>1, <5>1, <5>2, FollowsSelf
      <4> QED
        BY <4>1, <4>2
    <3> HIDE DEF b
    <3>4. ApplyAll(b, flush, g) = b
      <4>1. CASE pend.text = <<>>
        BY <1>6, <4>1, ApplyAllEmpty
      <4>2. CASE pend.text # <<>>
        <5> DEFINE k == Upd("flush", gen, pend.text)
        <5>1. k \in Update /\ k.kind = "flush" /\ k.gen # g
          BY <1>1, <1>k
        <5>2. flush = <<k>>
          BY <1>6, <4>2
        <5> HIDE DEF k, flush
        <5>3. ApplyAll(b, <<k>>, g) = Apply(b, k, g)
          BY <5>1, ApplyAllOne
        <5> QED
          BY <5>1, <5>2, <5>3 DEF Apply, Runs
      <4> QED
        BY <4>1, <4>2
    <3> HIDE DEF flush
    <3> DEFINE y == <<e>>
    <3>5. y \in Seq(Update) /\ flush \o y \in Seq(Update) /\ ApplyAll(b, y, g) = Apply(b, e, g)
          /\ shown' = ApplyAll(shown, queue \o (flush \o y), g)
      BY <1>5, <1>6, <3>1, ConcatProperties
    <3> HIDE DEF y
    <3>6. ApplyAll(b, flush \o y, g) = Apply(b, e, g)
      BY <1>6, <3>4, <3>5, ApplyAllConcat
    <3> DEFINE z == flush \o y
    <3>7. z \in Seq(Update) /\ ApplyAll(b, z, g) = Apply(b, e, g)
          /\ shown' = ApplyAll(shown, queue \o z, g)
      BY <3>5, <3>6
    <3> HIDE DEF z
    <3>8. shown' = Apply(b, e, g)
      BY <1>1, <3>2, <3>7, ApplyAllConcat
    <3> QED
      BY <3>3, <3>8
  <2>2. CASE queue = <<>> /\ flush # <<>> /\ ClickRender(<<SetTo(Apply(shown, Head(flush), gen))>> \o <<e>>, g)
    <3> DEFINE k == Upd("flush", gen, pend.text)
               b == ApplyAll(Now, flush, gen)
    <3>1. flush = <<k>>
      BY <1>6, <2>2
    <3>2. b = Apply(shown, k, gen)
      BY <1>k, <2>2, <3>1, BaseShown, ApplyAllOne
    <3>3. b \in Seq(Message) /\ Follows(shown, b)
      BY FlushShows
    <3>4. Head(flush) = k
      BY <3>1
    <3> HIDE DEF b, k, flush
    <3> DEFINE x == <<SetTo(b)>>
               y == <<e>>
    <3>5. SetTo(b) \in Update /\ SetTo(b).kind = "set" /\ SetTo(b).val = b
      BY <3>3, SetToType DEF SetTo
    <3>6. ApplyAll(shown, <<SetTo(b)>>, g) = Apply(shown, SetTo(b), g)
      BY <3>5, ApplyAllOne
    <3>7. x \in Seq(Update) /\ ApplyAll(shown, x, g) = b
      BY <3>5, <3>6 DEF Apply
    <3>8. y \in Seq(Update) /\ ApplyAll(b, y, g) = Apply(b, e, g)
      BY <1>5
    <3>9. shown' = ApplyAll(shown, queue \o (x \o y), g)
      BY <2>2, <3>2, <3>4 DEF ClickRender
    <3> HIDE DEF x, y
    <3>10. x \o y \in Seq(Update)
      BY <3>7, <3>8, ConcatProperties
    <3>11. queue \o (x \o y) = x \o y
      BY <2>2, <3>10, ConcatEmptySeq
    <3>12. shown' = Apply(b, e, g)
      BY <3>7, <3>8, <3>9, <3>11, ApplyAllConcat
    <3> QED
      BY <3>3, <3>12
  <2> QED
    BY <1>4, <2>1, <2>2 DEF Stop, g
<1>8. PICK b \in Seq(Message) : Follows(shown, b) /\ shown' = Apply(b, e, g)
  BY <1>7
<1>9. /\ Follows(shown, shown') /\ shown' \in Seq(Message) /\ ~Pending(Last(shown'))
  <2>1. /\ Follows(shown, Apply(b, e, g)) /\ Apply(b, e, g) \in Seq(Message)
        /\ Last(Apply(b, e, g)) = Applied(e, Last(b)) /\ ~Pending(Applied(e, Last(b)))
    BY <1>1, <1>2, <1>3, <1>8, FinalStep
  <2> QED
    BY <1>8, <2>1
<1>10. Sound(shown', gen)
  BY <1>1, <1>2, <1>9, SoundFollows
<1>11. Sound(shown, gen)'
  BY <1>0, <1>1, <1>9, <1>10, SoundLater DEF g
<1>12. \A i \in DOMAIN shown' : ~Pending(shown'[i])
  <2> SUFFICES ASSUME NEW i \in DOMAIN shown' PROVE ~Pending(shown'[i])
    OBVIOUS
  <2>1. shown' # <<>>
    OBVIOUS
  <2>2. Last(shown') = shown'[Len(shown')] /\ DOMAIN shown' = 1..Len(shown') /\ Len(shown') \in Nat
    BY <1>9, <2>1, LastForm
  <2>3. i < Len(shown') => ~Pending(shown'[i])
    BY <1>10 DEF Sound
  <2> QED
    BY <1>9, <2>2, <2>3
<1>13. /\ queue' = <<>> /\ latest' = shown' /\ saved' = saved
       /\ busyShown' = (busy'.req \/ busy'.stream)
  BY DEF Stop, ClickRender
<1>14. sources' = {} /\ ~Waiting' /\ ~busy'.req /\ ~busy'.stream
  BY <1>0, Superseded DEF Idle
<1>15. BusyShape'
  BY <1>0, <1>13, <1>14 DEF BusyShape
<1>16. \A u \in Users : Sound(saved'[u], gen')
  BY <1>0, <1>13, SavedLater DEF g
<1>17. (Streamed => AllFit(shown))'
  BY <1>0, <1>14 DEF Streamed
<1>18. ShownShape' /\ QueueShape' /\ TextShape'
  BY <1>0, <1>1, <1>9, <1>11, <1>12, <1>13, <1>14, <1>16, <1>17, Rendered
<1> QED
  BY <1>9, <1>15, <1>18 DEF ReplyInv

LEMMA LeaveReply == ASSUME IInv, ReplyInv, NEW saves \in BOOLEAN, Leave(saves) PROVE ReplyInv'
<1>0. /\ Gesture /\ gen' = gen + 1 /\ timer' = 0 /\ pend' = [gen |-> gen + 1, text |-> <<>>]
      /\ Supersede({}) /\ post' = 0 /\ busy' = Idle /\ got' = 0 /\ mounted' = FALSE
      /\ shown' = <<>> /\ latest' = <<>> /\ queue' = <<>> /\ busyShown' = FALSE
  BY DEF Leave
<1>1. gen \in Nat /\ mounted /\ latest \in Seq(Message) /\ saved \in [Users -> Seq(Message)]
  BY <1>0, GestureForm, ReplyForm
<1>2. \A u \in Users : saved'[u] = Trim(latest) \/ saved'[u] = saved[u]
  BY DEF Leave
<1>3. Trim(latest) \in Seq(Message) /\ Sound(Trim(latest), gen)
  BY <1>1, LatestSound, TrimType
<1>4. \A u \in Users : saved[u] \in Seq(Message) /\ Sound(saved[u], gen)
  BY <1>1 DEF ReplyInv, ShownShape
<1>5. \A u \in Users : Sound(saved'[u], gen')
  BY <1>0, <1>1, <1>2, <1>3, <1>4, SoundLater
<1>6. sources' = {} /\ ~Waiting' /\ ~busy'.req /\ ~busy'.stream
  BY <1>0, Superseded DEF Idle
<1>7. BusyShape'
  BY <1>0, <1>6 DEF BusyShape
<1>8. Sound(shown, gen)' /\ (Streamed => AllFit(shown))' /\ shown' \in Seq(Message) /\ DOMAIN shown' = {}
  BY <1>0, <1>6, EmptySeq DEF Sound, Streamed
<1>9. ShownShape' /\ QueueShape' /\ TextShape'
  BY <1>0, <1>5, <1>6, <1>8, Rendered
<1> QED
  BY <1>7, <1>9 DEF ReplyInv

(* Changing the status of messages without making one pending.             *)
LEMMA SoundMap ==
  ASSUME NEW ms \in Seq(Message), NEW ns \in Seq(Message), NEW g, Sound(ms, g), Len(ns) = Len(ms),
         \A i \in 1..Len(ms) :
           /\ ns[i].from = ms[i].from /\ ns[i].key = ms[i].key
           /\ (~ns[i].edited => ~ms[i].edited) /\ ns[i].text = ms[i].text
           /\ Pending(ns[i]) => Pending(ms[i])
  PROVE  Sound(ns, g)
<1>0. DOMAIN ms = 1..Len(ms) /\ DOMAIN ns = 1..Len(ms)
  OBVIOUS
<1>1. \A i \in 1..Len(ms) : ns[i].key <= g /\ OwnText(ns[i])
  BY <1>0 DEF Sound, OwnText
<1>2. \A i \in 1..Len(ms) : i < Len(ms) => ~Pending(ns[i])
  BY <1>0 DEF Sound
<1>3. \A i, j \in 1..Len(ms) :
        ns[i].from = "assistant" /\ ns[j].from = "assistant" /\ ns[i].key = ns[j].key => i = j
  BY <1>0 DEF Sound
<1> QED
  BY <1>0, <1>1, <1>2, <1>3 DEF Sound

Mended(m) == [m EXCEPT !.st = IF m.text = <<>> THEN "error" ELSE "complete"]

Rewritten(m, b) ==
  [m EXCEPT !.edited = @ \/ b,
            !.st = IF Pending(m) /\ m.text # <<>> THEN "complete" ELSE @]

LEMMA MendForm ==
  ASSUME NEW m \in Message
  PROVE  /\ Mended(m) \in Message /\ Mended(m).from = m.from /\ Mended(m).key = m.key
         /\ Mended(m).edited = m.edited /\ Mended(m).text = m.text /\ ~Pending(Mended(m))
  BY DEF Message, Mended, Pending

LEMMA RewriteForm ==
  ASSUME NEW m \in Message, NEW b \in BOOLEAN
  PROVE  /\ Rewritten(m, b) \in Message /\ Rewritten(m, b).from = m.from /\ Rewritten(m, b).key = m.key
         /\ (~Rewritten(m, b).edited => ~m.edited) /\ Rewritten(m, b).text = m.text
         /\ Pending(Rewritten(m, b)) => Pending(m)
<1> DEFINE w == IF Pending(m) /\ m.text # <<>> THEN "complete" ELSE m.st
           e == m.edited \/ b
<1>1. w \in {"loading", "streaming", "complete", "error"} /\ (w \in {"loading", "streaming"} => w = m.st)
  BY DEF Message
<1>2. e \in BOOLEAN /\ (~e => ~m.edited)
  BY DEF Message
<1>3. Rewritten(m, b) = [m EXCEPT !.edited = e, !.st = w]
  BY DEF Rewritten
<1> HIDE DEF w, e
<1>4. /\ Rewritten(m, b) \in Message /\ Rewritten(m, b).from = m.from /\ Rewritten(m, b).key = m.key
      /\ Rewritten(m, b).edited = e /\ Rewritten(m, b).text = m.text /\ Rewritten(m, b).st = w
  BY <1>1, <1>2, <1>3 DEF Message
<1> QED
  BY <1>1, <1>2, <1>4 DEF Pending

(* Loading a stored conversation repairs the reply that was interrupted.   *)
LEMMA LoadedSound ==
  ASSUME NEW ms \in Seq(Message), NEW g, Sound(ms, g), NEW long, NEW n \in 1..MaxStored
  PROVE  Sound(Loaded(ms, long, n), g)
         /\ \A i \in DOMAIN Loaded(ms, long, n) : ~Pending(Loaded(ms, long, n)[i])
<1> DEFINE a == Normalized(ms, long)
           d == Trim(a)
           b == Newest(d, n)
           c == Sanitized(b)
<1>0. n \in Nat \ {0}
  OBVIOUS
<1>1. a \in Seq(Message) /\ Sound(a, g)
  <2>1. \A i \in 1..Len(ms) : ms[i] \in Message /\ a[i] = Rewritten(ms[i], i \in long)
    <3>1. DOMAIN ms = 1..Len(ms)
      OBVIOUS
    <3> SUFFICES ASSUME NEW i \in 1..Len(ms)
                 PROVE  ms[i] \in Message /\ a[i] = Rewritten(ms[i], i \in long)
      OBVIOUS
    <3>2. a[i] = Rewritten(ms[i], i \in long)
      BY <3>1, Zenon DEF Normalized, Rewritten
    <3> QED
      BY <3>2
  <2>2. a = [i \in 1..Len(ms) |-> a[i]] /\ Len(ms) \in Nat
    BY DEF Normalized
  <2> HIDE DEF a
  <2>3. \A i \in 1..Len(ms) :
           /\ a[i] \in Message /\ a[i].from = ms[i].from /\ a[i].key = ms[i].key
           /\ (~a[i].edited => ~ms[i].edited) /\ a[i].text = ms[i].text
           /\ Pending(a[i]) => Pending(ms[i])
    <3> SUFFICES ASSUME NEW i \in 1..Len(ms)
                 PROVE  /\ a[i] \in Message /\ a[i].from = ms[i].from /\ a[i].key = ms[i].key
                        /\ (~a[i].edited => ~ms[i].edited) /\ a[i].text = ms[i].text
                        /\ Pending(a[i]) => Pending(ms[i])
      OBVIOUS
    <3> DEFINE l == i \in long
    <3>1. l \in BOOLEAN /\ ms[i] \in Message /\ a[i] = Rewritten(ms[i], l)
      BY <2>1
    <3> HIDE DEF l
    <3> QED
      BY <3>1, RewriteForm
  <2>4. a \in [1..Len(ms) -> Message]
    BY <2>2, <2>3
  <2>5. a \in Seq(Message) /\ Len(a) = Len(ms)
    BY <2>2, <2>4
  <2> QED
    BY <2>3, <2>5, SoundMap
<1> HIDE DEF a
<1>d. d \in Seq(Message) /\ Sound(d, g)
  BY <1>1, SoundTrim, TrimType
<1> HIDE DEF d
<1>2. b \in Seq(Message) /\ Sound(b, g)
  BY <1>0, <1>d, SoundNewest, NewestType
<1> HIDE DEF b
<1>3. c \in Seq(Message) /\ Len(c) = Len(b)
      /\ \A i \in 1..Len(b) :
           /\ c[i].from = b[i].from /\ c[i].key = b[i].key
           /\ (~c[i].edited => ~b[i].edited) /\ c[i].text = b[i].text
           /\ Pending(c[i]) => Pending(b[i])
           /\ ~Pending(c[i])
  <2> DEFINE Hit(i) == Pending(b[i]) /\ \A j \in DOMAIN b : j > i => ~Pending(b[j])
  <2>0. DOMAIN b = 1..Len(b) /\ Len(b) \in Nat
    BY <1>2
  <2>1. \A i \in 1..Len(b) : b[i] \in Message /\ c[i] = IF Hit(i) THEN Mended(b[i]) ELSE b[i]
    BY <1>2, <2>0 DEF Sanitized, Mended
  <2>2. c = [i \in 1..Len(b) |-> c[i]]
    BY <2>0 DEF Sanitized
  <2>3. \A i \in 1..Len(b) : Pending(b[i]) => Hit(i)
    BY <1>2, <2>0 DEF Sound
  <2> HIDE DEF c, Hit
  <2>4. \A i \in 1..Len(b) :
           /\ c[i] \in Message /\ c[i].from = b[i].from /\ c[i].key = b[i].key
           /\ (~c[i].edited => ~b[i].edited) /\ c[i].text = b[i].text
           /\ Pending(c[i]) => Pending(b[i])
           /\ ~Pending(c[i])
    BY <2>1, <2>3, MendForm
  <2>5. c \in [1..Len(b) -> Message]
    BY <2>2, <2>4
  <2>6. c \in Seq(Message) /\ Len(c) = Len(b)
    BY <2>0, <2>5
  <2> QED
    BY <2>4, <2>6
<1> HIDE DEF c
<1>4. Sound(c, g)
  BY <1>2, <1>3, SoundMap
<1>5. \A i \in DOMAIN c : ~Pending(c[i])
  BY <1>3
<1>6. Loaded(ms, long, n) = c
  BY DEF Loaded, a, b, c, d
<1> QED
  BY <1>4, <1>5, <1>6

LEMMA MountReply == ASSUME IInv, ReplyInv, Mount PROVE ReplyInv'
<1>0. /\ ~mounted /\ user \in Users /\ latest' = shown'
      /\ \/ shown' = <<>>
         \/ \E long, n : n \in 1..MaxStored /\ shown' = Loaded(saved[user], long, n)
      /\ saved' = saved \/ saved' = [saved EXCEPT ![user] = shown']
      /\ UNCHANGED <<gen, pend, timer, post, got, ctl, headers, sources, queue, busy, busyShown>>
  <2>1. user \in Users
    BY ReplyForm DEF Mount, CtlInv, CtlType
  <2>2. ~mounted /\ latest' = shown'
        /\ UNCHANGED <<gen, pend, timer, post, got, ctl, headers, sources, queue, busy, busyShown>>
    BY DEF Mount, chat, stream
  <2>3. \/ shown' = <<>>
        \/ \E long, n : n \in 1..MaxStored /\ shown' = Loaded(saved[user], long, n)
    BY Zenon DEF Mount
  <2>4. saved' = saved \/ saved' = [saved EXCEPT ![user] = shown']
    BY DEF Mount, SavedAfterLoad
  <2> QED
    BY <2>1, <2>2, <2>3, <2>4
<1>1. ~busyShown /\ got = 0 /\ queue = <<>>
  BY <1>0, IdleForm DEF ReplyInv, ShownShape
<1>2. /\ ~busy.req /\ ~busy.stream /\ sources = {} /\ ~Waiting
  BY <1>1, IdleForm
<1>3. saved \in [Users -> Seq(Message)] /\ saved[user] \in Seq(Message) /\ Sound(saved[user], gen)
  BY <1>0, ReplyForm DEF ReplyInv, ShownShape
<1>4. shown' \in Seq(Message) /\ Sound(shown', gen) /\ \A i \in DOMAIN shown' : ~Pending(shown'[i])
  <2>1. CASE shown' = <<>>
    BY <2>1, EmptySeq DEF Sound
  <2>2. ASSUME NEW long, NEW n \in 1..MaxStored, shown' = Loaded(saved[user], long, n)
        PROVE  shown' \in Seq(Message) /\ Sound(shown', gen) /\ \A i \in DOMAIN shown' : ~Pending(shown'[i])
    <3> DEFINE ms == saved[user]
    <3>1. ms \in Seq(Message) /\ Sound(ms, gen) /\ shown' = Loaded(ms, long, n)
      BY <1>3, <2>2
    <3> HIDE DEF ms
    <3> QED
      BY <3>1, LoadedSound, LoadedType
  <2> QED
    BY <1>0, <2>1, <2>2
<1>5. shown' \in Seq(Message)
  BY <1>4
<1>6. \A u \in Users : Sound(saved'[u], gen')
  BY <1>0, <1>3, <1>4 DEF ReplyInv, ShownShape
<1>7. Waiting' = Waiting
  BY <1>0 DEF Waiting
<1>8. BusyShape'
  BY <1>0, <1>7 DEF ReplyInv, BusyShape
<1>9. Sound(shown, gen)' /\ (Streamed => AllFit(shown))'
  BY <1>0, <1>1, <1>2, <1>4, <1>7 DEF Streamed
<1>10. mounted'
  BY DEF Mount
<1>11. busyShown' = FALSE /\ busyShown' = (busy'.req \/ busy'.stream)
  BY <1>0, <1>1, <1>2, ReplyForm DEF CtlInv, CtlType
<1>12. ShownShape' /\ QueueShape' /\ TextShape'
  BY <1>0, <1>1, <1>4, <1>5, <1>6, <1>9, <1>10, <1>11, Rendered
<1> QED
  BY <1>8, <1>12 DEF ReplyInv

-----------------------------------------------------------------------------
(* Theorems                                                                *)

(* An edit that overtakes a render is remembered.                          *)
LEMMA RaceStays ==
  ASSUME [Next]_vars, ~raced'
  PROVE  ~raced /\ \A i \in DOMAIN shown : ApplyEdit(i) => queue = <<>>
<1>1. ASSUME NEW i \in DOMAIN shown, ApplyEdit(i) PROVE ~raced /\ queue = <<>>
  <2>1. raced' = (raced \/ queue # <<>>)
    BY <1>1, Zenon DEF ApplyEdit
  <2> QED
    BY <2>1, Zenon
<1>2. \/ raced' = raced \/ \E i \in DOMAIN shown : ApplyEdit(i)
  BY DEF Next, Progress, vars, page, Render, FlushFires, Respond, HeadersSettle, Deliver, StreamEnds,
     SaveFires, StreamCut, Send, Delete, Stop, Mount, CloseEdit, Regenerate, OpenEdit, Leave, SetUser
<1>3. CASE raced' = raced
  <2>1. ~raced
    BY <1>3
  <2> QED
    BY <1>1, <2>1
<1>4. CASE \E i \in DOMAIN shown : ApplyEdit(i)
  BY <1>1, <1>4
<1> QED
  BY <1>2, <1>3, <1>4

LEMMA NextReply ==
  ASSUME IInv, ReplyInv, ~raced', [Next]_vars
  PROVE  ReplyInv'
<1>1. ASSUME Progress PROVE ReplyInv'
  BY <1>1, RenderReply, FlushReply, RespondReply, HeadersReply, DeliverReply, EndReply DEF Progress
<1>2. ASSUME NEW i \in DOMAIN shown, Regenerate(i) PROVE ReplyInv'
  BY <1>2, RegenerateReply
<1>3. ASSUME NEW i \in DOMAIN shown, ApplyEdit(i) PROVE ReplyInv'
  <2>1. queue = <<>>
    BY <1>3, RaceStays
  <2> QED
    BY <1>3, <2>1, EditReply
<1> QED
  BY <1>1, <1>2, <1>3, IdleReply, SaveReply, CutReply, SendReply, DeleteReply, StopReply, LeaveReply,
     MountReply DEF Next

LEMMA InitReply ==
  ASSUME Init
  PROVE  ReplyInv
<1>0. IInv
  BY InitIInv
<1>1. /\ queue = <<>> /\ latest = shown /\ saved = [u \in Users |-> IF u = user THEN shown ELSE <<>>]
      /\ gen = 0 /\ pend = [gen |-> 0, text |-> <<>>] /\ timer = 0 /\ post = 0
      /\ headers = {} /\ sources = {} /\ busy = Idle /\ busyShown = FALSE /\ got = 0 /\ mounted
  BY DEF Init
<1>2. ~Waiting /\ ~busy.req /\ ~busy.stream /\ Now = shown
  BY <1>1, BaseShown DEF Waiting, Idle
<1> DEFINE m == UserMessage(0)
           n == [Complete(LoadingMessage(0)) EXCEPT !.text = Reply(0)]
<1>3. shown \in {<<>>, <<m, n>>}
  BY DEF Init
<1>4. /\ m.from = "user" /\ m.key = 0 /\ n.from = "assistant" /\ n.key = 0 /\ n.st = "complete"
      /\ n.text = Reply(0)
  BY DEF UserMessage, LoadingMessage, Complete
<1> HIDE DEF m, n
<1>5. Part(Reply(0), 0, 0, ReplyLen) /\ ReplyLen \in 0..ReplyLen
  <2>1. 0 \in Gens
    BY GensForm
  <2> QED
    BY <2>1, PartReply
<1>6. Sound(<<>>, 0)
  BY DEF Sound
<1>7. Sound(shown, 0) /\ \A i \in DOMAIN shown : ~Pending(shown[i])
  <2>1. CASE shown = <<>>
    BY <1>6, <2>1
  <2>2. CASE shown = <<m, n>>
    <3>1. DOMAIN shown = {1, 2} /\ Len(shown) = 2 /\ shown[1] = m /\ shown[2] = n
      BY <2>2
    <3>2. OwnText(m) /\ OwnText(n) /\ ~Pending(m) /\ ~Pending(n)
      BY <1>4, <1>5 DEF OwnText, Pending
    <3> QED
      BY <1>4, <3>1, <3>2 DEF Sound
  <2> QED
    BY <1>3, <2>1, <2>2
<1>8. \A u \in Users : Sound(saved[u], 0)
  BY <1>1, <1>6, <1>7
<1>9. BusyShape
  BY <1>1, <1>2 DEF BusyShape
<1>10. ShownShape
  BY <1>1, <1>7, <1>8 DEF ShownShape
<1>11. shown # <<>> => Last(shown) = shown[Len(shown)] /\ Len(shown) \in DOMAIN shown
  BY <1>0, ReplyForm, LastForm
<1>12. Follows(shown, shown)
  BY <1>7, <1>11, FollowsSelf DEF Sound
<1>13. QueueShape
  BY <1>1, <1>2, <1>7, <1>11, <1>12 DEF QueueShape
<1>14. TextShape
  BY <1>1, <1>2 DEF TextShape, Streamed
<1> QED
  BY <1>9, <1>10, <1>13, <1>14 DEF ReplyInv

(* Whatever the order of clicks, renders, timers and network events, page, *)
(* buffer and request agree on the reply that is being received, until a   *)
(* save-edit click (applyEdit) overtakes a render.                         *)
THEOREM ReplyInvariance == Spec => [](IInv /\ (~raced => ReplyInv))
<1>1. Init => IInv /\ (~raced => ReplyInv)
  BY InitIInv, InitReply
<1>2. IInv /\ (~raced => ReplyInv) /\ [Next]_vars => (IInv /\ (~raced => ReplyInv))'
  <2> SUFFICES ASSUME IInv, ~raced => ReplyInv, [Next]_vars PROVE IInv' /\ (~raced' => ReplyInv')
    OBVIOUS
  <2>1. IInv'
    BY NextMsgs, NextCtl, HalvesNext
  <2>2. ASSUME ~raced' PROVE ReplyInv'
    <3>1. ~raced
      BY <2>2, RaceStays
    <3> QED
      BY <2>2, <3>1, NextReply
  <2> QED
    BY <2>1, <2>2
<1> QED
  BY <1>1, <1>2, PTL DEF Spec

(* No message ever holds text of another request, doubled text or text out *)
(* of order: mergePendingStreamChunk, the flush and applyStreamingChunk    *)
(* never mix replies, whatever the pieces spell.  A gap needs a reply that *)
(* echoes itself.                                                          *)
THEOREM RepliesNeverMix == Spec => []OwnReply
<1>1. IInv /\ (~raced => ReplyInv) => OwnReply
  <2> SUFFICES ASSUME IInv, ReplyInv, NEW m \in Range(shown) \cup Range(latest),
                      m.from = "assistant", ~m.edited
               PROVE  InOrder(m.text, m.key) /\ (Echoes(m.key) \/ IsPrefix(m.text, Reply(m.key)))
    BY DEF OwnReply
  <2>1. Sound(shown, gen) /\ Sound(latest, gen)
    BY LatestSound DEF ReplyInv, ShownShape
  <2>2. shown \in Seq(Message) /\ latest \in Seq(Message)
    BY ReplyForm
  <2>3. OwnText(m) /\ m \in Message
    <3>1. CASE m \in Range(shown)
      BY <2>1, <2>2, <3>1 DEF Sound, Range
    <3>2. CASE m \in Range(latest)
      BY <2>1, <2>2, <3>2 DEF Sound, Range
    <3> QED
      BY <3>1, <3>2
  <2>4. PICK b \in 0..ReplyLen : Part(m.text, m.key, 0, b)
    BY <2>3 DEF OwnText
  <2>5. m.key \in Gens /\ b \in Nat /\ b <= ReplyLen
    BY <2>3 DEF Message
  <2>6. IsPrefix(Piece(m.key, 0, b), Reply(m.key))
    BY <2>5, PiecePrefix
  <2>7. Echoes(m.key) \/ IsPrefix(m.text, Reply(m.key))
    BY <2>4, <2>6 DEF Part
  <2>8. InOrder(m.text, m.key)
    <3> DEFINE t == m.text
    <3>1. /\ t \in Text /\ (\A i \in 1..Len(t) : t[i][1] = m.key)
          /\ \A i, j \in 1..Len(t) : i < j => t[i][2] < t[j][2]
      BY <2>4 DEF Part
    <3>2. DOMAIN t = 1..Len(t)
      BY <3>1 DEF Text
    <3> HIDE DEF t
    <3>3. InOrder(t, m.key)
      BY <3>1, <3>2 DEF InOrder
    <3> QED
      BY <3>3 DEF t
  <2> QED
    BY <2>7, <2>8
<1> QED
  BY <1>1, ReplyInvariance, PTL

(* Buffer, queue and message together hold every piece that came: neither  *)
(* the 50 ms flush nor the order of updates loses or doubles one; a reply  *)
(* that echoes itself still ends with the piece that came last.            *)
THEOREM NoPieceLost == Spec => []NothingLost
<1>1. IInv /\ (~raced => ReplyInv) => NothingLost
  <2> DEFINE m == Last(Upcoming)
  <2> SUFFICES ASSUME IInv, ReplyInv, got > 0, Upcoming # <<>>, Streams(m, gen)
               PROVE  IF Echoes(gen) THEN m.text # <<>> /\ Last(m.text) = <<gen, got>>
                      ELSE m.text = Piece(gen, 0, got)
    BY DEF NothingLost, Streams
  <2>1. Upcoming = ApplyAll(Now, FlushOf(gen), gen)
    BY ReplyForm, FlushForm, ApplyAllConcat DEF Upcoming, Now
  <2>2. Upcoming \in Seq(Message) /\ Upto(Upcoming)
    BY <2>1, FlushShows DEF Streamed
  <2>3. Len(Upcoming) \in DOMAIN Upcoming /\ m = Upcoming[Len(Upcoming)]
    BY <2>2, LastForm
  <2>4. Part(m.text, gen, 0, got)
    BY <2>2, <2>3 DEF Upto, Whole
  <2>5. 0 < got
    BY ReplyForm
  <2> HIDE DEF m
  <2> QED
    BY <2>4, <2>5 DEF Part, Last
<1> QED
  BY <1>1, ReplyInvariance, PTL

(* Once nothing is under way no message is left loading or streaming: every*)
(* way a request ends also ends its message, up to the first save-edit     *)
(* click that drops an update.                                             *)
THEOREM MessagesSettle == Spec => []Settled
<1>1. IInv /\ (~raced => ReplyInv) => Settled
  <2> SUFFICES ASSUME IInv, ReplyInv, queue = <<>>, busy = Idle
               PROVE  \A m \in Range(shown) : ~Pending(m)
    BY DEF Settled
  <2>1. ~busyShown
    BY DEF ReplyInv, BusyShape, Idle
  <2>2. \A i \in DOMAIN shown : ~Pending(shown[i])
    BY <2>1 DEF ReplyInv, ShownShape
  <2> QED
    BY <2>2 DEF Range
<1> QED
  BY <1>1, ReplyInvariance, PTL

(* A step from ms to ns leaves the final replies as they are.              *)
KeepsFinal(ms, ns) ==
  \A i \in DOMAIN ms \cap DOMAIN ns :
    LET m == ms[i]  n == ns[i] IN
    m.from = "assistant" /\ n.from = "assistant" /\ n.key = m.key /\ Final(m) /\ ~n.edited
      => n = m

LEMMA KeepsPrefix ==
  ASSUME IInv, ReplyInv, NEW k \in Nat, k <= Len(shown), shown' \in Seq(Message),
         \A j \in 1..k : shown'[j] = shown[j] \/ shown'[j].edited,
         \A j \in 1..Len(shown') : j > k => shown'[j].key = gen + 1
  PROVE  KeepsFinal(shown, shown')
<1>1. shown \in Seq(Message) /\ Sound(shown, gen) /\ gen \in Nat
  BY ReplyForm DEF ReplyInv, ShownShape
<1>2. \A i \in DOMAIN shown : shown[i].key \in Nat /\ shown[i].key <= gen
  BY <1>1, KeyForm DEF Sound
<1> SUFFICES ASSUME NEW i \in DOMAIN shown, i \in DOMAIN shown', shown'[i].key = shown[i].key,
                    ~shown'[i].edited
             PROVE  shown'[i] = shown[i]
  BY DEF KeepsFinal
<1>3. i \in 1..Len(shown')
  OBVIOUS
<1>4. CASE i > k
  BY <1>1, <1>2, <1>3, <1>4
<1>5. CASE ~(i > k)
  <2>1. i \in 1..k
    BY <1>3, <1>5
  <2> QED
    BY <2>1
<1> QED
  BY <1>4, <1>5

LEMMA KeepsFollows ==
  ASSUME IInv, ReplyInv, NEW ns \in Seq(Message), Follows(shown, ns), busyShown
  PROVE  KeepsFinal(shown, ns)
<1>1. shown \in Seq(Message) /\ shown # <<>> /\ Pending(Last(shown))
  BY ReplyForm DEF ReplyInv, ShownShape
<1>2. Last(shown) = shown[Len(shown)] /\ DOMAIN shown = 1..Len(shown) /\ Len(shown) \in Nat
  BY <1>1, LastForm
<1>3. \A i \in DOMAIN shown : Final(shown[i]) => i < Len(shown)
  BY <1>1, <1>2 DEF Final, Pending
<1>4. \A i \in DOMAIN shown : i < Len(shown) => ns[i] = shown[i]
  BY DEF Follows
<1> QED
  BY <1>3, <1>4 DEF KeepsFinal

LEMMA StepKeeps ==
  ASSUME IInv, ReplyInv, IInv', ~raced', [Next]_vars
  PROVE  KeepsFinal(shown, shown')
<1>0. shown \in Seq(Message) /\ shown' \in Seq(Message) /\ Len(shown) \in Nat /\ Len(shown') \in Nat
  BY SMTT(30) DEF IInv, TypeOK
<1>1. CASE shown' = shown
  BY <1>1 DEF KeepsFinal
<1>2. CASE Render
  <2>1. shown' = Now /\ Now \in Seq(Message) /\ Follows(shown, Now)
    BY <1>2, ReplyForm DEF Render, Now, ReplyInv, QueueShape
  <2>2. CASE busyShown
    BY <2>1, <2>2, KeepsFollows
  <2>3. CASE ~busyShown
    BY <1>1, <2>1, <2>3, IdleForm
  <2> QED
    BY <2>2, <2>3
<1>3. CASE Stop
  BY <1>3, StopReply, KeepsFollows DEF Stop
<1>4. CASE Send
  <2> DEFINE u == UserMessage(gen + 1)
             l == LoadingMessage(gen + 1)
             b == <<u, l>>
             n == Len(shown)
  <2>1. shown' = shown \o b
    BY <1>4, SendReply
  <2>2. u.key = gen + 1 /\ l.key = gen + 1
    BY DEF UserMessage, LoadingMessage
  <2>3. u \in Message /\ l \in Message
    BY <1>4, GestureForm DEF Send
  <2> HIDE DEF u, l
  <2>4. b \in Seq(Message) /\ Len(b) = 2 /\ b[1] = u /\ b[2] = l
    BY <2>3
  <2> HIDE DEF b
  <2>5. /\ Len(shown') = n + Len(b)
        /\ \A j \in 1..(n + Len(b)) : shown'[j] = IF j <= n THEN shown[j] ELSE b[j - n]
    BY <1>0, <2>1, <2>4, ConcatProperties, ZenonT(60)
  <2>6. n \in Nat /\ \A j \in 1..n : shown'[j] = shown[j]
    BY <1>0, <2>4, <2>5
  <2>7. \A j \in 1..Len(shown') : j > n => shown'[j].key = gen + 1
    <3> SUFFICES ASSUME NEW j \in 1..Len(shown'), j > n PROVE shown'[j].key = gen + 1
      OBVIOUS
    <3>1. j - n = 1 \/ j - n = 2
      BY <2>4, <2>5, <2>6
    <3>2. shown'[j] = b[j - n]
      BY <2>5, <2>6
    <3> QED
      BY <2>2, <2>4, <3>1, <3>2
  <2> QED
    BY <1>0, <2>6, <2>7, KeepsPrefix
<1>5. ASSUME NEW i \in DOMAIN shown, Regenerate(i) PROVE KeepsFinal(shown, shown')
  <2>1. PICK n \in Nat : /\ n <= Len(shown) /\ Len(shown') = n + 1
                         /\ \A j \in 1..n : shown'[j] = shown[j]
                         /\ shown'[n + 1].key = gen + 1
    BY <1>5, RegenerateReply
  <2>2. \A j \in 1..Len(shown') : j > n => shown'[j].key = gen + 1
    <3>1. \A j \in 1..Len(shown') : j > n => j = n + 1
      BY <2>1
    <3> QED
      BY <2>1, <3>1
  <2> QED
    BY <1>0, <2>1, <2>2, KeepsPrefix
<1>6. ASSUME NEW i \in DOMAIN shown, ApplyEdit(i) PROVE KeepsFinal(shown, shown')
  <2>1. PICK n \in Nat : /\ n <= Len(shown) /\ (Len(shown') = n \/ Len(shown') = n + 1)
                         /\ \A j \in 1..n : shown'[j] = shown[j] \/ shown'[j].edited
                         /\ Len(shown') = n + 1 => shown'[n + 1].key = gen + 1
    <3>1. queue = <<>>
      BY <1>6, RaceStays
    <3> QED
      BY <1>6, <3>1, EditReply
  <2>2. \A j \in 1..Len(shown') : j > n => shown'[j].key = gen + 1
    <3>1. \A j \in 1..Len(shown') : j > n => j = n + 1 /\ Len(shown') = n + 1
      BY <2>1
    <3> QED
      BY <2>1, <3>1
  <2> QED
    BY <1>0, <2>1, <2>2, KeepsPrefix
<1>7. CASE Delete
  <2>1. \A j \in DOMAIN shown' : \E k \in DOMAIN shown : shown'[j] = shown[k] /\ (k = j \/ k = j + 1)
    BY <1>7, DeleteReply
  <2>2. Sound(shown, gen)
    BY DEF ReplyInv, ShownShape
  <2> SUFFICES ASSUME NEW i \in DOMAIN shown, i \in DOMAIN shown', shown[i].from = "assistant",
                      shown'[i].from = "assistant", shown'[i].key = shown[i].key
               PROVE  shown'[i] = shown[i]
    BY DEF KeepsFinal
  <2>3. PICK k \in DOMAIN shown : shown'[i] = shown[k]
    BY <2>1
  <2> QED
    BY <2>2, <2>3 DEF Sound
<1>8. CASE Mount \/ \E saves \in BOOLEAN : Leave(saves)
  <2>1. shown = <<>> \/ shown' = <<>>
    BY <1>8 DEF Mount, Leave, ReplyInv, ShownShape
  <2> QED
    BY <2>1 DEF KeepsFinal
<1>9. \/ shown' = shown \/ Render \/ Stop \/ Send \/ Delete \/ Mount
      \/ \E saves \in BOOLEAN : Leave(saves)
      \/ \E i \in DOMAIN shown : Regenerate(i) \/ ApplyEdit(i)
  BY DEF Next, Progress, vars, FlushFires, Respond, HeadersSettle, Deliver, StreamEnds, SaveFires,
     StreamCut, CloseEdit, OpenEdit, SetUser
<1> QED
  BY <1>1, <1>2, <1>3, <1>4, <1>5, <1>6, <1>7, <1>8, <1>9

(* A final reply stays as it is until somebody edits or removes it: no late*)
(* chunk, error, stop or flush of an older request reaches it, as long as  *)
(* no save-edit click overtakes a render.                                  *)
THEOREM FinalRepliesStay == Spec => ([]~raced => FinalStays)
<1>1. IInv /\ ReplyInv /\ IInv' /\ ~raced' /\ [Next]_vars =>
        [\A i \in DOMAIN shown \cap DOMAIN shown' :
           LET m == shown[i]  n == shown'[i] IN
           m.from = "assistant" /\ n.from = "assistant" /\ n.key = m.key /\ Final(m) /\ ~n.edited
             => n = m]_vars
  BY StepKeeps DEF KeepsFinal
<1> QED
  BY <1>1, ReplyInvariance, PTL DEF Spec, FinalStays
=============================================================================

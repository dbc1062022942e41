--------------------------- MODULE PlaygroundChat ---------------------------
(***************************************************************************)
(* The chat playground of the web console: one mounted Playground at a     *)
(* time, the requests it sends and the conversation it keeps.              *)
(*                                                                         *)
(* web/src/features/playground: hooks/use-stream-request.ts (the stream    *)
(* controller and its generation), hooks/use-chat-handler.ts (the request  *)
(* generation, the 50 ms chunk buffer, stop), hooks/use-playground-state.ts*)
(* (messages, debounced save, load), hooks/use-playground-conversation.ts  *)
(* (send, regenerate, edit, delete) and lib/message, lib/storage.          *)
(*                                                                         *)
(* React decides when a functional update of the messages runs: at once    *)
(* when nothing is queued (eager state), otherwise in the next render.  A  *)
(* click renders synchronously after its handler; an update posted by a    *)
(* timer, a stream event or a promise waits in queue for a Render step, so *)
(* a click can come first and its handler closes over the older messages.  *)
(*                                                                         *)
(* The i-th piece of the reply to request g is the pair <<g, i>>.  What    *)
(* the pieces spell is abstracted to Alike, any set of pairs of a text and *)
(* a chunk that continues it although it happens to start with the same    *)
(* characters ('1' after '1').  The reasoning text is buffered, merged and *)
(* flushed exactly as the content and is left out, as are versions, think  *)
(* tags and timings.                                                       *)
(***************************************************************************)
EXTENDS Naturals, Sequences, FiniteSets, SequencesExt

CONSTANTS
  Users,           \* accounts of the people at this browser
  NoUser,          \* auth.user is null
  ReplyLen,        \* pieces of a full reply
  MaxStored,       \* MAX_STORED_MESSAGES
  MaxReq,          \* bound: requests sent
  MaxGestures,     \* bound: gestures, mounts and account changes
  Alike,           \* texts and continuations that start with the same characters
  AdoptsAccounts   \* the refresh of a mounted page may adopt another account

ASSUME UserAssumption == NoUser \notin Users /\ Users # {}
\* The stored conversation holds at least one exchange.
ASSUME ReplyAssumption == ReplyLen \in Nat \ {0} /\ MaxStored \in Nat \ {0, 1}
ASSUME ChatBoundAssumption ==
  /\ MaxReq \in Nat \ {0} /\ MaxGestures \in Nat
  /\ AdoptsAccounts \in BOOLEAN

VARIABLES
  user,       \* auth.user of the store
  mounted,    \* the Playground is on the page
  shown,      \* messages of the last render
  queue,      \* message updates posted and not rendered
  gen,        \* requestGenerationRef
  pend,       \* pendingStreamChunksRef
  timer,      \* streamFlushTimerRef: its generation, 0 when null
  post,       \* generation of the live non-streaming request, 0 when none
  ctl,        \* generation of the stream controller
  headers,    \* sends of the controller that wait for getHeaders
  sources,    \* event sources that are not closed
  active,     \* source: the ctl of the active one, 0 when null
  busy,       \* isRequesting and isStreaming as last set
  busyShown,  \* isGenerating of the last render
  editing,    \* editingMessageKey
  latest,     \* latestMessagesRef
  saveTimer,  \* messagesSaveTimerRef is set
  saved,      \* localStorage, one conversation per account
  failed,     \* history: the last load or save of the page threw, and none is due
  reqs,       \* requests sent
  gestures,   \* gestures so far
  got,        \* history: pieces the handler took for the current request
  raced       \* history: a save-edit click came between an update and its render

chat    == <<gen, pend, timer, post, got>>
stream  == <<ctl, headers, sources, active>>
persist == <<latest, saveTimer, saved, failed>>
page    == <<user, mounted, editing, reqs, gestures, raced>>
vars    == <<user, mounted, shown, queue, gen, pend, timer, post, ctl, headers,
             sources, active, busy, busyShown, editing, latest, saveTimer, saved,
             failed, reqs, gestures, got, raced>>

MaxGen == MaxGestures + 1
Gens   == 0..MaxGen

\* edited: the text is no longer what was received, rewritten by the user or by
\* loadMessages.
Message == [from : {"user", "assistant"}, key : Gens, by : Users \cup {NoUser},
            st : {"loading", "streaming", "complete", "error"},
            text : Seq(Gens \X (1..ReplyLen)), edited : BOOLEAN]
Update  == [kind : {"set", "flush", "complete", "error", "response", "stopped"},
            gen : Gens, text : Seq(Gens \X (1..ReplyLen)), val : Seq(Message)]
Source  == [ctl : Gens, gen : Gens, snapshot : BOOLEAN, sent : 0..ReplyLen,
            cut : BOOLEAN]

TypeOK ==
  /\ user \in Users \cup {NoUser} /\ mounted \in BOOLEAN
  /\ shown \in Seq(Message) /\ queue \in Seq(Update)
  /\ gen \in Gens /\ timer \in Gens /\ post \in Gens /\ ctl \in Gens /\ active \in Gens
  /\ pend \in [gen : Gens, text : Seq(Gens \X (1..ReplyLen))]
  /\ headers \subseteq [ctl : Gens, gen : Gens]
  /\ sources \subseteq Source
  /\ busy \in [req : BOOLEAN, stream : BOOLEAN] /\ busyShown \in BOOLEAN
  /\ editing \in [from : {"none", "user", "assistant"}, key : Gens]
  /\ latest \in Seq(Message) /\ saveTimer \in BOOLEAN
  /\ saved \in [Users -> Seq(Message)]
  /\ \A u \in Users : Len(saved[u]) <= MaxStored
  /\ reqs \in 0..MaxReq /\ gestures \in 0..MaxGestures /\ got \in 0..ReplyLen
  /\ failed \in BOOLEAN /\ raced \in BOOLEAN

NoEdit == [from |-> "none", key |-> 0]
Idle   == [req |-> FALSE, stream |-> FALSE]

-----------------------------------------------------------------------------
(* Messages                                                                *)

Reply(g) == [i \in 1..ReplyLen |-> <<g, i>>]

\* Pieces a + 1 to b of the reply to g.
Piece(g, a, b) == SubSeq(Reply(g), a + 1, b)

UserMessage(g) == [from |-> "user", key |-> g, by |-> user, st |-> "complete",
                   text |-> <<>>, edited |-> FALSE]
LoadingMessage(g) == [from |-> "assistant", key |-> g, by |-> user, st |-> "loading",
                      text |-> <<>>, edited |-> FALSE]

Pending(m) == m.from = "assistant" /\ m.st \in {"loading", "streaming"}
Final(m)   == m.st \in {"complete", "error"}

\* Mutant: no difference is made between a snapshot and a continuation.
Appended(text, chunk) == text \o chunk

\* chunk.startsWith(text): a snapshot does, and a continuation may.
StartsWith(chunk, text) == IsPrefix(text, chunk) \/ <<text, chunk>> \in Alike

\* mergePendingStreamChunk and getAppendableChunk: a chunk that starts with the
\* text so far is taken for a snapshot of it, any other chunk continues it.
Joined(text, chunk) ==
  IF text # <<>> /\ StartsWith(chunk, text) THEN chunk ELSE text \o chunk

\* applyStreamingChunk: only an error message ignores chunks.
ApplyChunk(m, chunk) ==
  IF m.st = "error" THEN m
  ELSE [m EXCEPT !.text = Joined(m.text, chunk), !.st = "streaming"]

Complete(m) == [m EXCEPT !.st = "complete"]

\* What one update makes of the last message.
Applied(u, m) ==
  CASE u.kind = "flush"    -> ApplyChunk(m, u.text)
    [] u.kind = "complete" -> IF Final(m) THEN m ELSE Complete(m)
    [] u.kind = "error"    -> [m EXCEPT !.st = "error", !.text = <<>>]
    [] u.kind = "response" -> [Complete(m) EXCEPT !.text = u.text]
    [] u.kind = "stopped"  -> IF Pending(m) THEN Complete(m) ELSE m

\* The generation is compared again when the update runs.
Runs(u, g) == u.gen = g

\* updateMessages of an array, or of a function on the last assistant message.
Apply(ms, u, g) ==
  IF u.kind = "set" THEN u.val
  ELSE IF ~Runs(u, g) \/ ms = <<>> \/ Last(ms).from # "assistant" THEN ms
  ELSE [ms EXCEPT ![Len(ms)] = Applied(u, @)]

ApplyAll(ms, us, g) ==
  LET after[i \in 0..Len(us)] == IF i = 0 THEN ms ELSE Apply(after[i - 1], us[i], g)
  IN after[Len(us)]

Upd(kind, g, text) == [kind |-> kind, gen |-> g, text |-> text, val |-> <<>>]
SetTo(ms) == [kind |-> "set", gen |-> 0, text |-> <<>>, val |-> ms]

\* Mutant: the stored conversation grows without bound.
TrimNothing(ms) == ms

Newest(ms, n) == IF Len(ms) <= n THEN ms ELSE SubSeq(ms, Len(ms) - n + 1, Len(ms))

\* trimMessages, on every save and load.
Trim(ms) == Newest(ms, MaxStored)

\* normalizeStoredMessageForLoad: the replies in long are collapsed to their last
\* run of sections or cut off, and a pending message with text is complete.
Normalized(ms, long) ==
  [i \in DOMAIN ms |->
     [ms[i] EXCEPT !.edited = @ \/ i \in long,
                   !.st = IF Pending(ms[i]) /\ ms[i].text # <<>> THEN "complete" ELSE @]]

\* sanitizeMessagesOnLoad: the last one still pending is an interrupted one.
Sanitized(ms) ==
  [i \in DOMAIN ms |->
     IF Pending(ms[i]) /\ \A j \in DOMAIN ms : j > i => ~Pending(ms[j])
     THEN [ms[i] EXCEPT !.st = IF ms[i].text = <<>> THEN "error" ELSE "complete"]
     ELSE ms[i]]

\* trimMessagesByContentSize keeps the newest n, at least one.
Loaded(ms, long, n) == Sanitized(Newest(Trim(Normalized(ms, long)), n))

\* The page shows the conversation stored for the account: none, or one
\* exchange of an earlier visit.
Init ==
  /\ user \in Users /\ mounted = TRUE
  /\ shown \in {<<>>, <<UserMessage(0), [Complete(LoadingMessage(0)) EXCEPT !.text = Reply(0)]>>}
  /\ latest = shown /\ saved = [u \in Users |-> IF u = user THEN shown ELSE <<>>]
  /\ queue = <<>> /\ saveTimer = FALSE /\ failed = FALSE /\ raced = FALSE
  /\ gen = 0 /\ pend = [gen |-> 0, text |-> <<>>] /\ timer = 0 /\ post = 0
  /\ ctl = 0 /\ headers = {} /\ sources = {} /\ active = 0
  /\ busy = Idle /\ busyShown = FALSE /\ editing = NoEdit
  /\ reqs = 0 /\ gestures = 0 /\ got = 0

-----------------------------------------------------------------------------
(* Updates and renders                                                     *)

\* onMessageUpdate outside of a click: the first update of an empty queue may
\* run at once, its result fixed; persistMessages is part of running.
Post(us) ==
  \/ queue' = queue \o us /\ UNCHANGED persist
  \/ /\ queue = <<>> /\ us # <<>>
     /\ LET v == Apply(shown, Head(us), gen)
        IN queue' = <<SetTo(v)>> \o Tail(us) /\ latest' = v
     /\ saveTimer' = TRUE /\ failed' = FALSE
     /\ UNCHANGED saved

\* The synchronous render at the end of a click: everything queued, then us,
\* under the generation the handler leaves behind.
ClickRender(us, g) ==
  /\ shown' = ApplyAll(shown, queue \o us, g)
  /\ queue' = <<>>
  /\ latest' = shown'
  /\ saveTimer' = TRUE /\ failed' = FALSE
  /\ busyShown' = (busy'.req \/ busy'.stream)
  /\ UNCHANGED saved

Render ==
  /\ mounted
  /\ queue # <<>> \/ busyShown # (busy.req \/ busy.stream)
  /\ shown' = ApplyAll(shown, queue, gen)
  /\ queue' = <<>>
  /\ busyShown' = (busy.req \/ busy.stream)
  /\ IF queue = <<>> THEN UNCHANGED <<latest, saveTimer, failed>>
     ELSE latest' = shown' /\ saveTimer' = TRUE /\ failed' = FALSE
  /\ UNCHANGED <<chat, stream, page, busy, saved>>

\* Mutant: one key for all accounts.
StoredForAll(u) == TRUE

\* getUserStorageKey: the key of whoever is signed in at that moment.
StoredFor(u) == u = user

\* The debounce timer of persistMessages.  saveMessages swallows an error of the
\* schema or of setItem, and nothing sets the timer again.
SaveFires ==
  /\ mounted /\ saveTimer
  /\ saveTimer' = FALSE
  /\ \/ /\ saved' = [u \in Users |-> IF StoredFor(u) THEN Trim(latest) ELSE saved[u]]
        /\ failed' = FALSE
     \/ UNCHANGED saved /\ failed' = TRUE
  /\ UNCHANGED <<chat, stream, page, shown, queue, busy, busyShown, latest>>

-----------------------------------------------------------------------------
(* The stream controller                                                   *)

\* close() of the active source; nothing it dispatches passes isCurrent again.
CloseActive(cs) == {s \in cs : s.ctl # active}

\* send, up to its await, and cancel: a new generation, no source.
Supersede(wait) ==
  /\ ctl' = ctl + 1
  /\ active' = 0
  /\ sources' = CloseActive(sources)
  /\ headers' = headers \cup wait

\* flushStreamUpdates(g), the update it posts.
FlushOf(g) ==
  IF g # gen \/ pend.gen # g \/ pend.text = <<>> THEN <<>>
  ELSE <<Upd("flush", g, pend.text)>>

\* What is left of the buffer once flushStreamUpdates(g) has returned.
Flushed(g) ==
  IF g # gen THEN UNCHANGED <<pend, timer>>
  ELSE timer' = 0 /\ pend' = [pend EXCEPT !.text = IF pend.gen = g THEN <<>> ELSE @]

\* handleStreamComplete / handleStreamError: flush, then the final update.
Ended(g, kind) ==
  IF g # gen THEN UNCHANGED <<pend, timer, queue, persist>>
  ELSE /\ Post(FlushOf(g) \o <<Upd(kind, g, <<>>)>>)
       /\ Flushed(g)

\* Mutant: the error path of a request leaves isRequesting set.
StillRequesting(g) == busy.req

\* setIsRequesting(false), and setStreaming(false) when the source is closed.
NotRequesting(g) == IF g # gen THEN busy.req ELSE FALSE

\* Mutant: headers that come late still open a stream.
HeadersAnyway(h) == TRUE

\* The generation is compared once getHeaders has settled.
HeadersCurrent(h) == h.ctl = ctl

\* getHeaders settles: the source is created and started, or onError.
HeadersSettle(h) ==
  /\ h \in headers
  /\ headers' = headers \ {h}
  /\ \/ /\ ~HeadersCurrent(h)
        /\ UNCHANGED <<sources, active, busy, pend, timer, queue, persist>>
     \/ /\ HeadersCurrent(h)
        /\ \E snap \in BOOLEAN :
             sources' = sources \cup {[ctl |-> h.ctl, gen |-> h.gen, snapshot |-> snap,
                                       sent |-> 0, cut |-> FALSE]}
        /\ active' = h.ctl
        /\ busy' = [busy EXCEPT !.stream = TRUE]
        /\ UNCHANGED <<pend, timer, queue, persist>>
     \/ /\ HeadersCurrent(h)
        /\ Ended(h.gen, "error")      \* getHeaders or stream() threw
        /\ busy' = [busy EXCEPT !.req = NotRequesting(h.gen)]
        /\ UNCHANGED <<sources, active>>
  /\ UNCHANGED <<page, shown, busyShown, gen, post, ctl, got>>

\* isCurrent() of a source; completed is covered: it is set only together with
\* closing the source, which clears source.
IsCurrent(s) == s.ctl = ctl /\ s.ctl = active

\* Mutant: a chunk replaces the one that waits for the flush.
BufferLatest(chunk) == chunk

\* mergePendingStreamChunk into pendingStreamChunksRef.
Buffered(chunk) == Joined(pend.text, chunk)

\* A message event with the next piece, as a continuation or as a snapshot.
Deliver(s) ==
  LET chunk == IF s.snapshot THEN SubSeq(Reply(s.gen), 1, s.sent + 1)
               ELSE <<Reply(s.gen)[s.sent + 1]>>
  IN
  /\ s \in sources /\ ~s.cut /\ s.sent < ReplyLen
  /\ IsCurrent(s)
  /\ sources' = (sources \ {s}) \cup {[s EXCEPT !.sent = @ + 1]}
  /\ IF s.gen = gen /\ pend.gen = gen
     THEN /\ pend' = [pend EXCEPT !.text = Buffered(chunk)]
          /\ timer' = IF timer = 0 THEN gen ELSE timer
          /\ got' = got + 1
     ELSE UNCHANGED <<pend, timer, got>>
  /\ UNCHANGED <<page, shown, queue, busy, busyShown, persist, gen, post, ctl, headers, active>>

\* [DONE], or an error, parse error or bad status of the active source.
StreamEnds(s) ==
  /\ s \in sources /\ ~s.cut
  /\ IsCurrent(s)
  /\ \/ s.sent = ReplyLen /\ Ended(s.gen, "complete")
     \/ Ended(s.gen, "error")
  /\ sources' = CloseActive(sources)
  /\ active' = 0
  /\ busy' = [req |-> NotRequesting(s.gen), stream |-> FALSE]
  /\ UNCHANGED <<page, shown, busyShown, gen, post, ctl, headers, got>>

\* The connection ends with status 200 and without [DONE]: no listener acts.
StreamCut(s) ==
  /\ s \in sources /\ ~s.cut
  /\ sources' = (sources \ {s}) \cup {[s EXCEPT !.cut = TRUE]}
  /\ UNCHANGED <<chat, page, shown, queue, busy, busyShown, persist, ctl, headers, active>>

\* The 50 ms timer.
FlushFires ==
  /\ mounted /\ timer # 0
  /\ Post(FlushOf(timer))
  /\ Flushed(timer)
  /\ UNCHANGED <<page, shown, busy, busyShown, stream, gen, post, got>>

\* The non-streaming request is answered: a choice, none, or an error; the
\* finally clause clears the controller and isRequesting.
Respond ==
  /\ post # 0 /\ post = gen
  /\ \/ Post(<<Upd("response", gen, Reply(gen))>>) /\ UNCHANGED <<pend, timer>>
     \/ Ended(gen, "error")
  /\ post' = 0
  /\ busy' = [busy EXCEPT !.req = FALSE]
  /\ UNCHANGED <<page, shown, busyShown, stream, gen, got>>

-----------------------------------------------------------------------------
(* Gestures                                                                *)

Gesture == mounted /\ gestures < MaxGestures /\ gestures' = gestures + 1

\* Mutant: a stopped or replaced request keeps its buffer and its timer.
KeepBuffer(g) == timer' = (IF timer = 0 THEN 0 ELSE g) /\ pend' = [pend EXCEPT !.gen = g]

\* discardPendingStreamUpdates.
Discard(g) == timer' = 0 /\ pend' = [gen |-> g, text |-> <<>>]

\* updateMessages(next) and sendChat: sendStreamingChat or sendNonStreamingChat.
SendChat(next) ==
  LET g == gen + 1 IN
  /\ reqs < MaxReq /\ reqs' = reqs + 1
  /\ gen' = g
  /\ got' = 0
  /\ Discard(g)
  /\ \/ post' = 0 /\ Supersede({[ctl |-> ctl + 1, gen |-> g]})
     \/ post' = g /\ Supersede({})
  /\ busy' = [req |-> TRUE, stream |-> FALSE]
  /\ ClickRender(<<SetTo(next)>>, g)

\* handleSendMessage: the input is disabled while generating.
Send ==
  /\ Gesture /\ ~busyShown
  /\ SendChat(shown \o <<UserMessage(gen + 1), LoadingMessage(gen + 1)>>)
  /\ UNCHANGED <<user, mounted, editing, raced>>

\* handleRegenerateMessage: from a user message, or in place of a reply.
Regenerate(i) ==
  /\ Gesture /\ ~busyShown
  /\ SendChat(SubSeq(shown, 1, IF shown[i].from = "user" THEN i ELSE i - 1)
              \o <<LoadingMessage(gen + 1)>>)
  /\ UNCHANGED <<user, mounted, editing, raced>>

\* handleEditMessage, guarded by useMessageActionGuard.
OpenEdit(i) ==
  /\ Gesture /\ ~busyShown
  /\ editing' = [from |-> shown[i].from, key |-> shown[i].key]
  /\ UNCHANGED <<user, mounted, reqs, raced, shown, queue, busy, busyShown, persist, chat, stream>>

\* handleEditOpenChange(false).
CloseEdit ==
  /\ Gesture /\ editing # NoEdit
  /\ editing' = NoEdit
  /\ UNCHANGED <<user, mounted, reqs, raced, shown, queue, busy, busyShown, persist, chat, stream>>

IsEdited(m) == m.from = editing.from /\ m.key = editing.key

\* applyEdit: not guarded, and computed from the messages of the last render, so
\* that it drops whatever is queued.  A user message can also be sent again with
\* its new text.
ApplyEdit(i) ==
  LET edited == [shown EXCEPT ![i].edited = TRUE] IN
  /\ Gesture /\ IsEdited(shown[i])
  /\ raced' = (raced \/ queue # <<>>)
  /\ editing' = NoEdit
  /\ \/ /\ busy' = busy
        /\ ClickRender(<<SetTo(edited)>>, gen)
        /\ UNCHANGED <<reqs, chat, stream>>
     \/ /\ shown[i].from = "user"
        /\ SendChat(SubSeq(edited, 1, i) \o <<LoadingMessage(gen + 1)>>)
  /\ UNCHANGED <<user, mounted>>

\* handleDeleteMessage, and clearMessages, which also ends editing; an idle page
\* has nothing queued, so the updater of a delete sees what is shown.
Delete ==
  /\ Gesture /\ ~busyShown /\ shown # <<>>
  /\ busy' = busy
  /\ \/ /\ \E i \in DOMAIN shown : ClickRender(<<SetTo(RemoveAt(shown, i))>>, gen)
        /\ UNCHANGED editing
     \/ ClickRender(<<SetTo(<<>>)>>, gen) /\ editing' = NoEdit
  /\ UNCHANGED <<user, mounted, reqs, raced, chat, stream>>

\* Mutant: stop leaves the message as it is.
StopQuietly(g) == <<>>

\* The update of stopGeneration.
StopUpdate(g) == <<Upd("stopped", g, <<>>)>>

\* setStreaming(false) of stopStream and setIsRequesting(false).
AfterStop == Idle

\* stopGeneration: the flush is posted under the old generation and may run at
\* once; if it does not, the new generation makes it a no-op.
Stop ==
  LET g == gen + 1
      flush == FlushOf(gen)
      eager == Apply(shown, Head(flush), gen)
  IN
  /\ Gesture /\ busyShown
  /\ gen' = g
  /\ Discard(g)
  /\ Supersede({})
  /\ post' = 0
  /\ busy' = AfterStop
  /\ got' = 0
  /\ \/ ClickRender(flush \o StopUpdate(g), g)
     \/ queue = <<>> /\ flush # <<>> /\ ClickRender(<<SetTo(eager)>> \o StopUpdate(g), g)
  /\ UNCHANGED <<user, mounted, editing, reqs, raced>>

\* The page is left: both unmount effects, and the save that was due.  A page
\* that is closed or reloaded runs neither, and the save may fail.
Leave(saves) ==
  /\ Gesture
  /\ mounted' = FALSE
  /\ gen' = gen + 1 /\ got' = 0
  /\ pend' = [gen |-> gen + 1, text |-> <<>>] /\ timer' = 0 /\ post' = 0
  /\ Supersede({})
  /\ shown' = <<>> /\ queue' = <<>> /\ latest' = <<>>
  /\ busy' = Idle /\ busyShown' = FALSE /\ editing' = NoEdit
  /\ saveTimer' = FALSE /\ failed' = FALSE
  /\ saved' = [u \in Users |-> IF saves /\ saveTimer /\ StoredFor(u) THEN Trim(latest) ELSE saved[u]]
  /\ UNCHANGED <<user, reqs, raced>>

\* Mutant: what was repaired on load is not written back.
SavedAsIs(ms) == saved

\* loadMessages writes back what it changed.
SavedAfterLoad(ms) == [saved EXCEPT ![user] = ms]

\* The page opens and its load timer (0 ms) fires before any gesture.  What was
\* changed on load is written back, which may fail; a conversation of more than
\* MAX_STORED_MESSAGES_BYTES is removed; one that cannot be read or parsed stays,
\* under an empty page.
Mount ==
  /\ ~mounted /\ user # NoUser
  /\ mounted' = TRUE
  /\ \/ /\ \E long \in SUBSET {i \in DOMAIN saved[user] : saved[user][i].from = "assistant"},
             n \in 1..MaxStored : shown' = Loaded(saved[user], long, n)
        /\ \/ saved' = SavedAfterLoad(shown') /\ failed' = FALSE
           \/ shown' # saved[user] /\ UNCHANGED saved /\ failed' = TRUE
     \/ shown' = <<>> /\ saved' = [saved EXCEPT ![user] = <<>>] /\ failed' = FALSE
     \/ shown' = <<>> /\ UNCHANGED saved /\ failed' = TRUE
  /\ latest' = shown'
  /\ UNCHANGED <<chat, stream, user, editing, reqs, gestures, raced, queue, busy, busyShown, saveTimer>>

\* Signed out, also under a mounted page that has yet to navigate; signed in
\* elsewhere, or adopted by a refresh while the page stays mounted.
SetUser(u) ==
  /\ u # user /\ gestures < MaxGestures
  /\ gestures' = gestures + 1
  /\ u # NoUser => ~mounted \/ AdoptsAccounts
  /\ user' = u
  /\ UNCHANGED <<chat, stream, persist, mounted, editing, reqs, raced, shown, queue, busy, busyShown>>

-----------------------------------------------------------------------------
Progress ==
  \/ Render \/ FlushFires \/ Respond
  \/ \E h \in headers : HeadersSettle(h)
  \/ \E s \in sources : Deliver(s) \/ StreamEnds(s)

Next ==
  \/ Progress \/ SaveFires
  \/ \E s \in sources : StreamCut(s)
  \/ Send \/ Delete \/ Stop \/ Mount \/ CloseEdit
  \/ \E i \in DOMAIN shown : Regenerate(i) \/ OpenEdit(i) \/ ApplyEdit(i)
  \/ \E saves \in BOOLEAN : Leave(saves)
  \/ \E u \in Users \cup {NoUser} : SetUser(u)

\* Renders, timers and the network go on by themselves; no gesture has to come.
Spec == Init /\ [][Next]_vars /\ WF_vars(Progress)

-----------------------------------------------------------------------------
(* Properties                                                              *)

\* What the page shows once everything posted and buffered has run.
Upcoming == ApplyAll(shown, queue \o FlushOf(gen), gen)

\* A later part of the reply to g starts with the characters of an earlier one.
Echoes(g) ==
  \E a, b, c \in 0..ReplyLen : a < b /\ b < c /\ <<Piece(g, a, b), Piece(g, b, c)>> \in Alike

InOrder(text, g) ==
  \A i \in DOMAIN text :
    text[i][1] = g /\ \A j \in DOMAIN text : i < j => text[i][2] < text[j][2]

\* No message ever holds text of another request, doubled text or text out of
\* order, and it has a gap only where mergePendingStreamChunk takes a chunk that
\* echoes the text so far for a snapshot: an unedited reply is otherwise a prefix
\* of what its own request was sent.  A save-edit click that overtakes a render
\* drops updates and is excepted, here and below.
OwnReply ==
  ~raced =>
    \A m \in Range(shown) \cup Range(latest) :
      m.from = "assistant" /\ ~m.edited =>
        InOrder(m.text, m.key) /\ (Echoes(m.key) \/ IsPrefix(m.text, Reply(m.key)))

\* Buffer, queue and message together lose no piece of a streamed reply that
\* was neither stopped nor failed: after the pending flush and render, while it
\* streams and once it is complete, the message is exactly what was received.  A
\* reply that echoes itself can lose earlier text, never the piece that came last.
NothingLost ==
  LET m == Last(Upcoming) IN
  ~raced /\ got > 0 /\ Upcoming # <<>>
  /\ m.from = "assistant" /\ m.key = gen /\ ~m.edited /\ m.st # "error" =>
    IF Echoes(gen) THEN m.text # <<>> /\ Last(m.text) = <<gen, got>>
    ELSE m.text = Piece(gen, 0, got)

\* No message is left loading or streaming once nothing is under way, unless a
\* save-edit click dropped the update that ends it.
Settled ==
  mounted /\ queue = <<>> /\ busy = Idle /\ ~raced => \A m \in Range(shown) : ~Pending(m)

\* At most one event source is open, it is the active one, and the page shows
\* the stop button for it; none survives a stop, a new request or the page.
OneOpenStream ==
  \A s, t \in sources : s = t /\ s.ctl = active /\ busy.stream /\ mounted

\* What is on the page is what is stored for the account, or a save is due, or
\* the last load or save threw, which saveMessages and loadMessages swallow.
SavedOrDue ==
  mounted /\ user # NoUser /\ queue = <<>> /\ ~saveTimer /\ ~failed => saved[user] = Trim(shown)

\* A conversation is stored under the account it was held with.
OwnerOnly == \A u \in Users : \A m \in Range(saved[u]) : m.by = u

\* The stop button goes away by itself: every request started settles, unless
\* the connection was cut without [DONE], which no listener notices.
GenerationEnds == busyShown ~> (~busyShown \/ \E s \in sources : s.cut)

\* A final reply stays as it is until somebody edits or removes it.
FinalStays ==
  [][\A i \in DOMAIN shown \cap DOMAIN shown' :
       LET m == shown[i]  n == shown'[i] IN
       m.from = "assistant" /\ n.from = "assistant" /\ n.key = m.key /\ Final(m) /\ ~n.edited
         => n = m]_vars
=============================================================================

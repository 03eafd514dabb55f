------------------------ MODULE PageLibraries_proofs ------------------------
(* Proofs about the script libraries of the page, for any values of the      *)
(* constants: the session of lib/strophe.js (Strophe), and of PageParts the  *)
(* FileReader, FileWriter, storage, watches and listeners of                 *)
(* lib/phonegap.js and the app's plugin.                                     *)
(*                                                                           *)
(* Both are proved the same way.  The object a library keeps is a record,    *)
(* and a handler is an operator on it: a lemma about each operator says what *)
(* it leaves alone or keeps, a lemma about the next-state relation puts them *)
(* together, and the theorems follow from the inductive invariant.           *)
EXTENDS Strophe, PageParts, SequenceTheorems, FiniteSetTheorems,
    WellFoundedInduction, TLAPS

(****************************** lib/strophe.js *******************************)

USE NamesAssumption

-----------------------------------------------------------------------------
(* Sequences of any values.                                                  *)

IsSeq(s) == \E S : s \in Seq(S)

LEMMA SeqFacts ==
    ASSUME NEW s, IsSeq(s)
    PROVE  Len(s) \in Nat /\ DOMAIN s = 1..Len(s) /\ (Len(s) = 0 <=> s = <<>>)
<1>1. PICK S : s \in Seq(S)
  BY DEF IsSeq
<1>2. QED
  BY <1>1, LenProperties, EmptySeq

LEMMA EmptyIsSeq == IsSeq(<<>>) /\ Len(<<>>) = 0
BY EmptySeq DEF IsSeq

LEMMA AppendSeq ==
    ASSUME NEW s, IsSeq(s), NEW x
    PROVE  /\ IsSeq(Append(s, x)) /\ Len(Append(s, x)) = Len(s) + 1
           /\ \A i \in 1..Len(s) : Append(s, x)[i] = s[i]
           /\ Append(s, x)[Len(s) + 1] = x
<1>1. PICK S : s \in Seq(S)
  BY DEF IsSeq
<1>2. s \in Seq(S \cup {x}) /\ x \in S \cup {x}
  BY <1>1, SeqMonotonic
<1>3. QED
  BY <1>2, AppendProperties DEF IsSeq

LEMMA ExceptIsSeq ==
    ASSUME NEW s, IsSeq(s), NEW i \in 1..Len(s), NEW x
    PROVE  /\ IsSeq([s EXCEPT ![i] = x]) /\ Len([s EXCEPT ![i] = x]) = Len(s)
           /\ \A j \in 1..Len(s) : [s EXCEPT ![i] = x][j] = IF j = i THEN x ELSE s[j]
<1>1. PICK S : s \in Seq(S)
  BY DEF IsSeq
<1>2. s \in Seq(S \cup {x}) /\ x \in S \cup {x}
  BY <1>1, SeqMonotonic
<1>3. QED
  BY <1>2, ExceptSeq DEF IsSeq

LEMMA RemoveAtSeq ==
    ASSUME NEW s, IsSeq(s), NEW i \in 1..Len(s)
    PROVE  /\ IsSeq(RemoveAt(s, i)) /\ Len(RemoveAt(s, i)) = Len(s) - 1
           /\ \A j \in 1..Len(s) - 1 : RemoveAt(s, i)[j] = IF j < i THEN s[j] ELSE s[j + 1]
<1>1. PICK S : s \in Seq(S)
  BY DEF IsSeq
<1>2. Len(s) \in Nat /\ i \in Int
  BY SeqFacts
<1> DEFINE l == SubSeq(s, 1, i - 1)
           r == SubSeq(s, i + 1, Len(s))
<1>3. \A j \in 1..Len(s) : s[j] \in S
  BY <1>1, ElementOfSeq
<1>4. /\ l \in Seq(S) /\ Len(l) = i - 1
      /\ \A j \in 1..i - 1 : l[j] = s[j]
  <2>1. i - 1 \in Int /\ \A j \in 1..i - 1 : s[j] \in S
    BY <1>2, <1>3
  <2>2. /\ l \in Seq(S) /\ Len(l) = IF 1 <= i - 1 THEN i - 1 - 1 + 1 ELSE 0
        /\ \A j \in 1..(i - 1) - 1 + 1 : l[j] = s[1 + j - 1]
    BY <2>1, SubSeqProperties
  <2>3. QED
    BY <2>2, <1>2
<1>5. /\ r \in Seq(S) /\ Len(r) = Len(s) - i
      /\ \A j \in 1..Len(s) - i : r[j] = s[i + j]
  <2>1. i + 1 \in Int /\ Len(s) \in Int /\ \A j \in i + 1..Len(s) : s[j] \in S
    BY <1>2, <1>3
  <2>2. /\ r \in Seq(S) /\ Len(r) = IF i + 1 <= Len(s) THEN Len(s) - (i + 1) + 1 ELSE 0
        /\ \A j \in 1..Len(s) - (i + 1) + 1 : r[j] = s[i + 1 + j - 1]
    BY <2>1, SubSeqProperties
  <2>3. QED
    BY <2>2, <1>2
<1> HIDE DEF l, r
<1>6. /\ l \o r \in Seq(S) /\ Len(l \o r) = Len(l) + Len(r)
      /\ \A j \in 1..Len(l) + Len(r) : (l \o r)[j] = IF j <= Len(l) THEN l[j] ELSE r[j - Len(l)]
  BY <1>4, <1>5, ConcatProperties, ZenonT(40)
<1>7. ASSUME NEW j \in 1..Len(s) - 1
      PROVE  (l \o r)[j] = IF j < i THEN s[j] ELSE s[j + 1]
  <2>1. (l \o r)[j] = IF j <= i - 1 THEN l[j] ELSE r[j - (i - 1)]
    BY <1>2, <1>4, <1>5, <1>6, SMTT(30)
  <2>2. QED
    BY <2>1, <1>2, <1>4, <1>5
<1>8. RemoveAt(s, i) = l \o r
  BY DEF RemoveAt, l, r
<1>9. Len(l \o r) = Len(s) - 1 /\ IsSeq(l \o r)
  BY <1>2, <1>4, <1>5, <1>6 DEF IsSeq
<1>10. QED
  BY <1>7, <1>8, <1>9

-----------------------------------------------------------------------------
(* The object.                                                               *)

FieldNames == {"service", "rid", "sid", "do_session", "handlers", "addHandlers",
    "removeHandlers", "timedHandlers", "addTimeds", "removeTimeds", "authenticated",
    "connected", "disconnecting", "errors", "paused", "data", "requests", "idle",
    "status", "iq"}

RequestFields == {"body", "sid", "func", "rid", "sends", "state", "age", "dead", "taken"}

\* The requests past the first two were never sent
RequestsOK(s) ==
    /\ IsSeq(s)
    /\ \A i \in 1..Len(s) : DOMAIN s[i] = RequestFields /\ (i > 2 => s[i].state = "new")

Object(c) ==
    /\ DOMAIN c = FieldNames
    /\ RequestsOK(c.requests)
    /\ DOMAIN c.iq = Iqs

\* The timed handlers that are not scheduled for removal
Pending(c) == Scheduled(c) \ c.removeTimeds

\* What a method does that neither asks nor answers an iq
Tame(c, d) ==
    Object(c) =>
        /\ Object(d)
        /\ d.handlers \subseteq c.handlers
        /\ d.addHandlers \cap Iqs \subseteq c.addHandlers
        /\ Scheduled(d) \cap Iqs \subseteq Scheduled(c)
        /\ Pending(d) \cap Iqs \subseteq Pending(c)
        /\ d.iq = c.iq

LEMMA TameSelf == ASSUME NEW c PROVE Tame(c, c)
BY DEF Tame

LEMMA TameThen ==
    ASSUME NEW c, NEW d, NEW e, Tame(c, d), Tame(d, e)
    PROVE  Tame(c, e)
BY DEF Tame

\* A method that leaves the handlers and the iqs alone
Apart(c, d) ==
    /\ DOMAIN d = FieldNames
    /\ d.handlers = c.handlers /\ d.addHandlers = c.addHandlers
    /\ d.timedHandlers = c.timedHandlers /\ d.addTimeds = c.addTimeds
    /\ d.removeTimeds = c.removeTimeds /\ d.iq = c.iq

LEMMA ApartTame ==
    ASSUME NEW c, NEW d, Object(c) => Apart(c, d) /\ RequestsOK(d.requests)
    PROVE  Tame(c, d)
BY DEF Tame, Apart, Object, Pending, Scheduled

LEMMA StatusTame ==
    ASSUME NEW c, NEW status PROVE Tame(c, ChangeConnectStatus(c, status))
<1>1. Object(c) => Apart(c, ChangeConnectStatus(c, status))
  BY DEF ChangeConnectStatus, Apart, Object, FieldNames
<1>2. Object(c) => RequestsOK(ChangeConnectStatus(c, status).requests)
  BY DEF ChangeConnectStatus, Object, FieldNames
<1>3. QED
  BY <1>1, <1>2, ApartTame

\* The handlers the library registers and drops itself
LEMMA AddHandlerTame ==
    ASSUME NEW c, NEW hs, hs \cap Iqs = {} PROVE Tame(c, AddHandler(c, hs))
<1>1. SUFFICES ASSUME Object(c) PROVE Tame(c, AddHandler(c, hs))
  BY DEF Tame
<1> DEFINE d == AddHandler(c, hs)
<1>2. /\ DOMAIN d = FieldNames /\ d.requests = c.requests /\ d.iq = c.iq
      /\ d.handlers = c.handlers /\ d.addHandlers = c.addHandlers \cup hs
      /\ d.timedHandlers = c.timedHandlers /\ d.addTimeds = c.addTimeds
      /\ d.removeTimeds = c.removeTimeds
  BY <1>1 DEF AddHandler, Object, FieldNames
<1>3. QED
  BY <1>1, <1>2 DEF Tame, Object, Pending, Scheduled

LEMMA DeleteHandlerTame ==
    ASSUME NEW c, NEW hs PROVE Tame(c, DeleteHandler(c, hs))
<1>1. Object(c) => Apart(c, DeleteHandler(c, hs))
  BY DEF DeleteHandler, Apart, Object, FieldNames
<1>2. Object(c) => RequestsOK(DeleteHandler(c, hs).requests)
  BY DEF DeleteHandler, Object, FieldNames
<1>3. QED
  BY <1>1, <1>2, ApartTame

LEMMA AddDisconnectTame ==
    ASSUME NEW c PROVE Tame(c, AddTimedHandler(c, "disconnect"))
<1>1. SUFFICES ASSUME Object(c) PROVE Tame(c, AddTimedHandler(c, "disconnect"))
  BY DEF Tame
<1> DEFINE d == AddTimedHandler(c, "disconnect")
<1>2. /\ DOMAIN d = FieldNames /\ d.requests = c.requests /\ d.iq = c.iq
      /\ d.handlers = c.handlers /\ d.addHandlers = c.addHandlers
      /\ d.timedHandlers = c.timedHandlers /\ d.addTimeds = c.addTimeds \cup {"disconnect"}
      /\ d.removeTimeds = c.removeTimeds
  BY <1>1 DEF AddTimedHandler, Object, FieldNames
<1>3. "disconnect" \notin Iqs
  OBVIOUS
<1>4. QED
  BY <1>1, <1>2, <1>3 DEF Tame, Object, Pending, Scheduled

LEMMA DoDisconnectTame ==
    ASSUME NEW c PROVE Tame(c, DoDisconnect(c))
<1> DEFINE announced == IF c.connected THEN ChangeConnectStatus(c, "DISCONNECTED") ELSE c
<1>1. Tame(c, announced)
  BY StatusTame, TameSelf
<1>2. DoDisconnect(c) =
        [announced EXCEPT !.authenticated = FALSE, !.disconnecting = FALSE,
                     !.connected = FALSE, !.sid = FALSE, !.rid = @ + Window,
                     !.handlers = {}, !.addHandlers = {}, !.removeHandlers = {},
                     !.timedHandlers = {}, !.addTimeds = {}, !.removeTimeds = {}]
  BY DEF DoDisconnect
<1> HIDE DEF announced
<1>3. ASSUME Object(announced)
      PROVE  LET d == DoDisconnect(c)
             IN  /\ DOMAIN d = FieldNames /\ d.requests = announced.requests /\ d.iq = announced.iq
                 /\ d.handlers = {} /\ d.addHandlers = {} /\ d.timedHandlers = {}
                 /\ d.addTimeds = {}
  BY <1>2, <1>3, ZenonT(40) DEF Object, FieldNames
<1>4. Tame(announced, DoDisconnect(c))
  BY <1>3 DEF Tame, Object, Pending, Scheduled
<1>5. QED
  BY <1>1, <1>4, TameThen

LEMMA NoRequestsTame ==
    ASSUME NEW c PROVE Tame(c, [c EXCEPT !.requests = <<>>])
<1>1. RequestsOK(<<>>)
  BY EmptyIsSeq DEF RequestsOK
<1>2. Object(c) => Apart(c, [c EXCEPT !.requests = <<>>]) /\ [c EXCEPT !.requests = <<>>].requests = <<>>
  BY DEF Apart, Object, FieldNames
<1>3. QED
  BY <1>1, <1>2, ApartTame

LEMMA OnDisconnectTimeoutTame ==
    ASSUME NEW c PROVE Tame(c, OnDisconnectTimeout(c))
BY NoRequestsTame, DoDisconnectTame, TameThen DEF OnDisconnectTimeout

-----------------------------------------------------------------------------
(* The request queue.                                                        *)

LEMMA NewRequest ==
    ASSUME NEW body, NEW sid, NEW func, NEW rid, NEW sends
    PROVE  LET req == Request(body, sid, func, rid, sends)
           IN  DOMAIN req = RequestFields /\ req.state = "new"
BY DEF Request, RequestFields

LEMMA PushTame ==
    ASSUME NEW c, NEW body, NEW func
    PROVE  /\ Tame(c, PushRequest(c, body, func))
           /\ Object(c) => Len(PushRequest(c, body, func).requests) = Len(c.requests) + 1
<1>1. SUFFICES ASSUME Object(c)
               PROVE  /\ Tame(c, PushRequest(c, body, func))
                      /\ Len(PushRequest(c, body, func).requests) = Len(c.requests) + 1
  BY DEF Tame
<1> DEFINE req == Request(body, c.sid, func, c.rid, 0)
           d == PushRequest(c, body, func)
<1>2. DOMAIN req = RequestFields /\ req.state = "new"
  BY NewRequest
<1> HIDE DEF req
<1>3. Apart(c, d) /\ d.requests = Append(c.requests, req)
  BY <1>1 DEF PushRequest, Apart, Object, FieldNames, req
<1>4. IsSeq(c.requests) /\ Len(c.requests) \in Nat
  BY <1>1, SeqFacts DEF Object, RequestsOK
<1>5. /\ IsSeq(d.requests) /\ Len(d.requests) = Len(c.requests) + 1
      /\ \A i \in 1..Len(c.requests) : d.requests[i] = c.requests[i]
      /\ d.requests[Len(c.requests) + 1] = req
  BY <1>3, <1>4, AppendSeq
<1>6. \A i \in 1..Len(d.requests) : i \in 1..Len(c.requests) \/ i = Len(c.requests) + 1
  BY <1>4, <1>5
<1> HIDE DEF d
<1>7. RequestsOK(d.requests)
  BY <1>1, <1>2, <1>5, <1>6 DEF RequestsOK, Object
<1>8. Tame(c, d)
  BY <1>3, <1>7, ApartTame
<1>9. QED
  BY <1>5, <1>8 DEF d

\* One of the first two requests is replaced by another
LEMMA PutRequest ==
    ASSUME NEW s, RequestsOK(s), NEW i \in 1..Len(s), NEW req,
           DOMAIN req = RequestFields, i <= 2 \/ req.state = "new"
    PROVE  RequestsOK([s EXCEPT ![i] = req]) /\ Len([s EXCEPT ![i] = req]) = Len(s)
<1>1. IsSeq(s) /\ Len(s) \in Nat
  BY SeqFacts DEF RequestsOK
<1> DEFINE t == [s EXCEPT ![i] = req]
<1>2. /\ IsSeq(t) /\ Len(t) = Len(s)
      /\ \A j \in 1..Len(s) : t[j] = IF j = i THEN req ELSE s[j]
  BY <1>1, ExceptIsSeq, SMTT(30)
<1> HIDE DEF t
<1>3. QED
  BY <1>2 DEF RequestsOK, t

LEMMA ProcessTame ==
    ASSUME NEW c, NEW i \in 1..Len(c.requests), i <= 2
    PROVE  Tame(c, ProcessRequest(c, i))
<1>1. SUFFICES ASSUME Object(c) PROVE Tame(c, ProcessRequest(c, i))
  BY DEF Tame
<1> DEFINE old == c.requests[i]
           new == [Request(old.body, old.sid, old.func, old.rid, old.sends)
                     EXCEPT !.taken = old.taken]
           req == IF NeedsRestart(old) THEN new ELSE old
           posted == [c EXCEPT !.requests[i] = Post(req)]
           failed == ChangeConnectStatus(ChangeConnectStatus(c, "CONNFAIL"), "DISCONNECTING")
<1>2. DOMAIN old = RequestFields
  BY <1>1 DEF Object, RequestsOK
<1>3. DOMAIN new = RequestFields
  BY NewRequest
<1>4. DOMAIN Post(req) = RequestFields
  BY <1>2, <1>3 DEF Post
<1>5. Tame(c, posted)
  <2> HIDE DEF req
  <2>1. Apart(c, posted) /\ posted.requests = [c.requests EXCEPT ![i] = Post(req)]
    BY <1>1 DEF Apart, Object, FieldNames
  <2>2. RequestsOK(posted.requests)
    BY <1>1, <1>4, <2>1, PutRequest DEF Object
  <2>3. QED
    BY <2>1, <2>2, ApartTame
<1>6. Tame(c, failed)
  BY StatusTame, TameThen
<1>7. ProcessRequest(c, i) \in {OnDisconnectTimeout(c), c, failed, posted}
  <2> HIDE DEF failed, posted
  <2>1. QED
    BY DEF ProcessRequest, failed, posted
<1> HIDE DEF failed, posted
<1>8. QED
  BY <1>5, <1>6, <1>7, OnDisconnectTimeoutTame, TameSelf

LEMMA ThrottledTame ==
    ASSUME NEW c PROVE Tame(c, ThrottledRequestHandler(c))
<1>1. SUFFICES ASSUME Object(c) PROVE Tame(c, ThrottledRequestHandler(c))
  BY DEF Tame
<1> DEFINE d == ProcessRequest(c, 1)
<1>2. CASE c.requests = <<>>
  BY <1>2, TameSelf DEF ThrottledRequestHandler
<1>3. CASE c.requests # <<>>
  <2>1. 1 \in 1..Len(c.requests)
    BY <1>1, <1>3, SeqFacts DEF Object, RequestsOK
  <2>2. Tame(c, d)
    BY <2>1, ProcessTame
  <2>3. Len(d.requests) \in Nat
    BY <1>1, <2>2, SeqFacts DEF Tame, Object, RequestsOK
  <2>4. ThrottledRequestHandler(c) = d
           \/ (ThrottledRequestHandler(c) = ProcessRequest(d, 2) /\ Len(d.requests) > 1)
    BY <1>3 DEF ThrottledRequestHandler
  <2> HIDE DEF d
  <2>5. Len(d.requests) > 1 => Tame(d, ProcessRequest(d, 2))
    BY <2>3, ProcessTame
  <2>6. QED
    BY <2>2, <2>4, <2>5, TameThen
<1>4. QED
  BY <1>2, <1>3

\* One request less
LEMMA RemovedRequests ==
    ASSUME NEW s, RequestsOK(s), NEW i \in 1..Len(s)
    PROVE  RequestsOK(RemoveAt(s, i))
<1> DEFINE t == RemoveAt(s, i)
<1>1. /\ IsSeq(t) /\ Len(t) = Len(s) - 1 /\ Len(s) \in Nat
      /\ \A j \in 1..Len(s) - 1 : t[j] = IF j < i THEN s[j] ELSE s[j + 1]
  BY RemoveAtSeq, SeqFacts DEF RequestsOK
<1>2. \A j \in 1..Len(s) : DOMAIN s[j] = RequestFields /\ (j > 2 => s[j].state = "new")
  BY DEF RequestsOK
<1> HIDE DEF t
<1>3. ASSUME NEW j \in 1..Len(t)
      PROVE  DOMAIN t[j] = RequestFields /\ (j > 2 => t[j].state = "new")
  <2>1. t[j] = IF j < i THEN s[j] ELSE s[j + 1]
    BY <1>1
  <2>2. j \in 1..Len(s) /\ j + 1 \in 1..Len(s) /\ (j > 2 => j + 1 > 2)
    BY <1>1
  <2>3. QED
    BY <1>2, <2>1, <2>2
<1>4. QED
  BY <1>1, <1>3 DEF RequestsOK, t

LEMMA RemoveTame ==
    ASSUME NEW c, NEW i \in 1..Len(c.requests)
    PROVE  Tame(c, RemoveRequest(c, i))
<1> DEFINE d == [c EXCEPT !.requests = RemoveAt(@, i)]
<1>1. ASSUME Object(c) PROVE Apart(c, d) /\ d.requests = RemoveAt(c.requests, i)
  BY <1>1 DEF Apart, Object, FieldNames
<1>2. ASSUME Object(c) PROVE RequestsOK(RemoveAt(c.requests, i))
  BY <1>2, RemovedRequests DEF Object
<1>3. Tame(c, d)
  BY <1>1, <1>2, ApartTame
<1>4. QED
  BY <1>3, ThrottledTame, TameThen DEF RemoveRequest

LEMMA RestartTame ==
    ASSUME NEW c, c.requests # <<>>
    PROVE  Tame(c, RestartRequest(c, 1))
<1>1. SUFFICES ASSUME Object(c) PROVE Tame(c, RestartRequest(c, 1))
  BY DEF Tame
<1> DEFINE old == c.requests[1]
           req == [old EXCEPT !.dead = IF @ = 0 THEN 1 ELSE @]
           d == [c EXCEPT !.requests[1].dead = IF @ = 0 THEN 1 ELSE @]
<1>2. 1 \in 1..Len(c.requests) /\ 1 <= 2 /\ IsSeq(c.requests)
  BY <1>1, SeqFacts DEF Object, RequestsOK
<1>3. DOMAIN req = RequestFields
  BY <1>1, <1>2 DEF Object, RequestsOK
<1>4. Apart(c, d) /\ d.requests = [c.requests EXCEPT ![1] = req]
  <2>1. d = [c EXCEPT !.requests = [c.requests EXCEPT ![1] = req]]
    OBVIOUS
  <2> HIDE DEF req, d
  <2>2. QED
    BY <1>1, <2>1 DEF Apart, Object, FieldNames
<1> HIDE DEF req
<1>5. RequestsOK(d.requests) /\ Len(d.requests) = Len(c.requests)
  BY <1>1, <1>2, <1>3, <1>4, PutRequest DEF Object
<1>6. Tame(c, d)
  BY <1>4, <1>5, ApartTame
<1>7. 1 \in 1..Len(d.requests)
  BY <1>2, <1>5
<1>8. RestartRequest(c, 1) = ProcessRequest(d, 1)
  BY DEF RestartRequest
<1> HIDE DEF d
<1>9. Tame(d, ProcessRequest(d, 1))
  BY <1>2, <1>7, ProcessTame
<1>10. QED
  BY <1>6, <1>8, <1>9, TameThen

LEMMA HitErrorTame ==
    ASSUME NEW c PROVE Tame(c, HitError(c))
<1> DEFINE d == [c EXCEPT !.errors = IF @ > ErrorLimit THEN @ ELSE @ + 1]
<1>1. Object(c) => Apart(c, d) /\ RequestsOK(d.requests)
  BY DEF Apart, Object, FieldNames
<1>2. Tame(c, d)
  BY <1>1, ApartTame
<1>3. HitError(c) \in {OnDisconnectTimeout(d), d}
  BY DEF HitError
<1> HIDE DEF d
<1>4. QED
  BY <1>2, <1>3, OnDisconnectTimeoutTame, TameThen

LEMMA SendTame ==
    ASSUME NEW c, NEW items PROVE Tame(c, Send(c, items))
<1> DEFINE d == [c EXCEPT !.data = @ \o items]
           e == ThrottledRequestHandler(d)
           f == [e EXCEPT !.idle = TRUE]
<1>1. Object(c) => Apart(c, d) /\ RequestsOK(d.requests)
  BY DEF Apart, Object, FieldNames
<1>2. Tame(c, d)
  BY <1>1, ApartTame
<1>3. Tame(d, e)
  BY ThrottledTame
<1>4. Send(c, items) = f
  BY DEF Send
<1> HIDE DEF d, e
<1>5. Object(e) => Apart(e, f) /\ RequestsOK(f.requests)
  BY DEF Apart, Object, FieldNames
<1>6. Tame(e, f)
  BY <1>5, ApartTame
<1>7. Tame(c, f)
  BY <1>2, <1>3, <1>6, TameThen
<1>8. QED
  BY <1>4, <1>7

LEMMA SendTerminateTame ==
    ASSUME NEW c PROVE Tame(c, SendTerminate(c))
<1> DEFINE d == PushRequest(c, <<"terminate">>, "data")
           e == [d EXCEPT !.disconnecting = TRUE]
<1>1. Tame(c, d)
  BY PushTame
<1>2. SendTerminate(c) = ThrottledRequestHandler(e)
  BY DEF SendTerminate
<1> HIDE DEF d
<1>3. Object(d) => Apart(d, e) /\ RequestsOK(e.requests)
  BY DEF Apart, Object, FieldNames
<1>4. Tame(d, e)
  BY <1>3, ApartTame
<1> HIDE DEF e
<1>5. QED
  BY <1>1, <1>2, <1>4, ThrottledTame, TameThen

LEMMA DisconnectTame ==
    ASSUME NEW c PROVE Tame(c, Disconnect(c))
<1> DEFINE announced == ChangeConnectStatus(c, "DISCONNECTING")
           timed == AddTimedHandler(announced, "disconnect")
<1>1. Tame(c, announced) /\ Tame(announced, timed) /\ Tame(timed, SendTerminate(timed))
  BY StatusTame, AddDisconnectTame, SendTerminateTame
<1>2. Disconnect(c) \in {announced, SendTerminate(timed)}
  BY DEF Disconnect
<1> HIDE DEF announced, timed
<1>3. QED
  BY <1>1, <1>2, TameThen

-----------------------------------------------------------------------------
(* The handlers of the negotiation.                                          *)

LEMMA ConnectedTame ==
    ASSUME NEW c PROVE Tame(c, Connected(c))
<1> DEFINE d == [c EXCEPT !.authenticated = TRUE]
           e == ChangeConnectStatus(d, "CONNECTED")
<1>1. Object(c) => Apart(c, d) /\ RequestsOK(d.requests)
  BY DEF Apart, Object, FieldNames
<1>2. Tame(c, d) /\ Tame(d, e) /\ Tame(e, Send(e, <<"presence">>))
  BY <1>1, ApartTame, StatusTame, SendTame
<1>3. Connected(c) = Send(e, <<"presence">>)
  BY DEF Connected
<1> HIDE DEF d, e
<1>4. QED
  BY <1>2, <1>3, TameThen

\* Some handlers are dropped, others registered, and something is sent
LEMMA GoOnTame ==
    ASSUME NEW c, NEW dropped, NEW added, added \cap Iqs = {}, NEW items
    PROVE  /\ Tame(c, Send(AddHandler(DeleteHandler(c, dropped), added), items))
           /\ Tame(c, Send(AddHandler(c, added), items))
BY DeleteHandlerTame, AddHandlerTame, SendTame, TameThen

LEMMA SysHandlerTame ==
    ASSUME NEW c, NEW type, NEW h \in SysHandlers
    PROVE  Tame(c, RunHandler(c, h, type))
<1>1. \A hs \in SUBSET SysHandlers : hs \cap Iqs = {}
  OBVIOUS
<1>2. Tame(c, SaslChallenge1(c)) /\ Tame(c, SaslChallenge2(c)) /\ Tame(c, SaslSuccess(c)) /\ Tame(c, Auth1(c))
  <2>1. /\ {"challenge2", "success", "failure"} \cap Iqs = {} /\ {"success", "failure"} \cap Iqs = {}
        /\ {"features"} \cap Iqs = {} /\ {"auth2"} \cap Iqs = {}
    BY <1>1 DEF SysHandlers
  <2>2. QED
    BY <2>1, GoOnTame DEF SaslChallenge1, SaslChallenge2, SaslSuccess, Auth1
<1>3. Tame(c, SaslFailure(c))
  BY DeleteHandlerTame, StatusTame, TameThen DEF SaslFailure
<1>4. Tame(c, SaslAuth1(c, type))
  <2> DEFINE d == [c EXCEPT !.do_session = @ \/ type = "bind+session"]
  <2>1. Object(c) => Apart(c, d) /\ RequestsOK(d.requests)
    BY DEF Apart, Object, FieldNames
  <2>2. Tame(c, d)
    BY <2>1, ApartTame
  <2>3. SaslAuth1(c, type) \in {ChangeConnectStatus(d, "AUTHFAIL"), Send(AddHandler(d, {"bind"}), <<"bind">>)}
    BY DEF SaslAuth1
  <2> HIDE DEF d
  <2>4. {"bind"} \cap Iqs = {}
    BY <1>1 DEF SysHandlers
  <2>5. Tame(d, ChangeConnectStatus(d, "AUTHFAIL")) /\ Tame(d, Send(AddHandler(d, {"bind"}), <<"bind">>))
    BY <2>4, StatusTame, GoOnTame
  <2>6. QED
    BY <2>2, <2>3, <2>5, TameThen
<1>5. Tame(c, SaslBind(c, type))
  <2>1. {"session"} \cap Iqs = {}
    BY <1>1 DEF SysHandlers
  <2>2. QED
    BY <2>1, StatusTame, GoOnTame, ConnectedTame DEF SaslBind
<1>6. Tame(c, SaslSession(c, type))
  BY StatusTame, ConnectedTame DEF SaslSession
<1>7. Tame(c, Auth2(c, type))
  BY StatusTame, ConnectedTame, DisconnectTame, TameThen DEF Auth2
<1>8. RunHandler(c, h, type) \in
        {SaslChallenge1(c), SaslChallenge2(c), SaslSuccess(c), SaslFailure(c), SaslAuth1(c, type),
         SaslBind(c, type), SaslSession(c, type), Auth1(c), Auth2(c, type)}
  BY DEF RunHandler, SysHandlers
<1>9. QED
  BY <1>2, <1>3, <1>4, <1>5, <1>6, <1>7, <1>8

-----------------------------------------------------------------------------
(* The iqs.                                                                  *)

Answered(c, q) == c.iq[q] \cap {"result", "error"} # {}

\* Where the handler and the timeout of an iq may be
IqsOK(c) ==
    \A q \in Iqs :
        /\ c.iq[q] = {} => q \notin c.handlers \cup c.addHandlers \cup Scheduled(c)
        /\ q \in c.addHandlers => q \notin c.handlers
        /\ Answered(c, q) => q \notin c.handlers \cup c.addHandlers \cup Pending(c)

\* What any step does: an answered iq is left alone
Keeps(c, d) ==
    Object(c) /\ IqsOK(c) =>
        /\ Object(d) /\ IqsOK(d)
        /\ \A q \in Iqs : Answered(c, q) => d.iq[q] = c.iq[q]

LEMMA TameKeeps ==
    ASSUME NEW c, NEW d, Tame(c, d)
    PROVE  Keeps(c, d)
<1>1. SUFFICES ASSUME Object(c), IqsOK(c)
               PROVE  IqsOK(d)
  BY DEF Keeps, Tame
<1>2. SUFFICES ASSUME NEW q \in Iqs
      PROVE  /\ d.iq[q] = {} => q \notin d.handlers \cup d.addHandlers \cup Scheduled(d)
             /\ q \in d.addHandlers => q \notin d.handlers
             /\ Answered(d, q) => q \notin d.handlers \cup d.addHandlers \cup Pending(d)
  BY DEF IqsOK
<1>3. /\ q \in d.handlers => q \in c.handlers
      /\ q \in d.addHandlers => q \in c.addHandlers
      /\ q \in Scheduled(d) => q \in Scheduled(c)
      /\ q \in Pending(d) => q \in Pending(c)
      /\ d.iq[q] = c.iq[q]
  BY <1>1 DEF Tame
<1>4. QED
  BY <1>1, <1>3 DEF IqsOK, Answered

LEMMA KeepsThen ==
    ASSUME NEW c, NEW d, NEW e, Keeps(c, d), Keeps(d, e)
    PROVE  Keeps(c, e)
BY DEF Keeps, Answered

LEMMA StanzaKeeps ==
    ASSUME NEW c, NEW stanza PROVE Keeps(c, HandleStanza(c, stanza))
<1>1. SUFFICES ASSUME Object(c), IqsOK(c) PROVE Keeps(c, HandleStanza(c, stanza))
  BY DEF Keeps
<1> DEFINE run(h) == IsMatch(h, stanza) /\ (c.authenticated \/ h \in SysHandlers)
           called == {h \in c.handlers : run(h)}
           rest == c.handlers \ called
           h == CHOOSE x \in called : TRUE
           b == [c EXCEPT !.handlers = {}]
           d == RunHandler(b, h, stanza.type)
           e == [d EXCEPT !.handlers = @ \cup rest]
<1>2. HandleStanza(c, stanza) = IF called = {} THEN c ELSE e
  BY DEF HandleStanza
<1>3. called \subseteq c.handlers /\ rest = c.handlers \ called /\ (called # {} => h \in called)
  OBVIOUS
<1> HIDE DEF called, rest, h
<1>4. CASE called = {}
  BY <1>2, <1>4, TameSelf, TameKeeps
<1>5. CASE called # {}
  <2>1. /\ DOMAIN b = FieldNames /\ b.handlers = {} /\ b.addHandlers = c.addHandlers
        /\ b.timedHandlers = c.timedHandlers /\ b.addTimeds = c.addTimeds
        /\ b.removeTimeds = c.removeTimeds /\ b.iq = c.iq /\ b.requests = c.requests
    BY <1>1 DEF Object, FieldNames
  <2>2. Object(b) /\ Scheduled(b) = Scheduled(c) /\ Pending(b) = Pending(c)
    BY <1>1, <2>1 DEF Object, Scheduled, Pending
  <2> HIDE DEF b
  <2>3. CASE h \in SysHandlers
    <3>1. Tame(b, d)
      BY <2>3, SysHandlerTame
    <3> HIDE DEF d
    <3>2. /\ Object(d) /\ d.handlers \subseteq {} /\ d.addHandlers \cap Iqs \subseteq c.addHandlers
          /\ Scheduled(d) \cap Iqs \subseteq Scheduled(c) /\ Pending(d) \cap Iqs \subseteq Pending(c)
          /\ d.iq = c.iq
      BY <2>1, <2>2, <3>1 DEF Tame
    <3>3. /\ DOMAIN e = FieldNames /\ e.handlers = d.handlers \cup rest /\ e.addHandlers = d.addHandlers
          /\ e.timedHandlers = d.timedHandlers /\ e.addTimeds = d.addTimeds
          /\ e.removeTimeds = d.removeTimeds /\ e.iq = d.iq /\ e.requests = d.requests
      BY <3>2 DEF Object, FieldNames
    <3>4. Object(e) /\ Scheduled(e) = Scheduled(d) /\ Pending(e) = Pending(d)
      BY <3>2, <3>3 DEF Object, Scheduled, Pending
    <3>5. Tame(c, e)
      BY <1>3, <3>2, <3>3, <3>4 DEF Tame
    <3>6. QED
      BY <1>2, <1>5, <3>5, TameKeeps
  <2>4. CASE h \notin SysHandlers
    <3>1. d = [DeleteTimedHandler(b, {h}) EXCEPT !.iq[h] = @ \cup {stanza.type}]
      BY <2>4 DEF RunHandler, IqHandler, SysHandlers
    <3> HIDE DEF d
    <3>2. /\ DOMAIN d = FieldNames /\ d.handlers = {} /\ d.addHandlers = c.addHandlers
          /\ d.timedHandlers = c.timedHandlers /\ d.addTimeds = c.addTimeds
          /\ d.removeTimeds = c.removeTimeds \cup {h} /\ d.requests = c.requests
          /\ d.iq = [c.iq EXCEPT ![h] = @ \cup {stanza.type}]
      BY <2>1, <3>1 DEF DeleteTimedHandler, FieldNames
    <3>3. /\ DOMAIN e = FieldNames /\ e.handlers = rest /\ e.addHandlers = c.addHandlers
          /\ e.timedHandlers = c.timedHandlers /\ e.addTimeds = c.addTimeds
          /\ e.removeTimeds = c.removeTimeds \cup {h} /\ e.requests = c.requests
          /\ e.iq = [c.iq EXCEPT ![h] = @ \cup {stanza.type}]
      BY <3>2 DEF FieldNames
    <3> HIDE DEF e
    <3>4. Object(e) /\ Scheduled(e) = Scheduled(c) /\ Pending(e) = Pending(c) \ {h}
      BY <1>1, <3>3 DEF Object, Scheduled, Pending
    <3>5. \A q \in Iqs : e.iq[q] = IF q = h THEN c.iq[q] \cup {stanza.type} ELSE c.iq[q]
      BY <1>1, <3>3 DEF Object
    <3>6. h \in c.handlers /\ h \notin rest /\ rest \subseteq c.handlers
      BY <1>3, <1>5
    <3>7. ASSUME NEW q \in Iqs
          PROVE  /\ e.iq[q] = {} => q \notin e.handlers \cup e.addHandlers \cup Scheduled(e)
                 /\ q \in e.addHandlers => q \notin e.handlers
                 /\ Answered(e, q) => q \notin e.handlers \cup e.addHandlers \cup Pending(e)
                 /\ Answered(c, q) => e.iq[q] = c.iq[q]
      <4>1. CASE q = h
        BY <1>1, <3>3, <3>4, <3>5, <3>6, <4>1 DEF IqsOK
      <4>2. CASE q # h
        BY <1>1, <3>3, <3>4, <3>5, <3>6, <4>2 DEF IqsOK, Answered
      <4>3. QED
        BY <4>1, <4>2
    <3>8. QED
      BY <1>2, <1>5, <3>4, <3>7 DEF Keeps, IqsOK
  <2>5. QED
    BY <2>3, <2>4
<1>6. QED
  BY <1>4, <1>5

LEMMA StanzasKeep ==
    ASSUME NEW c, NEW stanzas PROVE Keeps(c, HandleStanzas(c, stanzas))
<1> DEFINE d == IF Len(stanzas) > 0 THEN HandleStanza(c, stanzas[1]) ELSE c
<1>1. Keeps(c, d)
  BY StanzaKeeps, TameSelf, TameKeeps
<1>2. HandleStanzas(c, stanzas) = IF Len(stanzas) > 1 THEN HandleStanza(d, stanzas[2]) ELSE d
  BY DEF HandleStanzas
<1> HIDE DEF d
<1>3. QED
  BY <1>1, <1>2, StanzaKeeps, KeepsThen

-----------------------------------------------------------------------------
(* Answers.                                                                  *)

LEMMA TamesKeep ==
    /\ \A c : Keeps(c, c)
    /\ \A c, d, e : Tame(c, d) /\ Keeps(d, e) => Keeps(c, e)
    /\ \A c, d, e : Keeps(c, d) /\ Tame(d, e) => Keeps(c, e)
BY TameSelf, TameKeeps, KeepsThen

\* The handlers to be added are none of the list's
LEMMA UpdateKeeps == ASSUME NEW c PROVE Keeps(c, UpdateHandlers(c))
<1> DEFINE d == UpdateHandlers(c)
<1>1. SUFFICES ASSUME Object(c), IqsOK(c) PROVE Keeps(c, d)
  BY DEF Keeps
<1>2. /\ DOMAIN d = FieldNames /\ d.requests = c.requests /\ d.iq = c.iq
      /\ d.handlers = (c.handlers \ c.removeHandlers) \cup c.addHandlers /\ d.addHandlers = {}
      /\ d.timedHandlers = c.timedHandlers /\ d.addTimeds = c.addTimeds
      /\ d.removeTimeds = c.removeTimeds
  BY <1>1 DEF UpdateHandlers, Object, FieldNames
<1> HIDE DEF d
<1>3. Object(d) /\ Scheduled(d) = Scheduled(c) /\ Pending(d) = Pending(c)
  BY <1>1, <1>2 DEF Object, Scheduled, Pending
<1>4. IqsOK(d)
  BY <1>1, <1>2, <1>3 DEF IqsOK, Answered
<1>5. QED
  BY <1>2, <1>3, <1>4 DEF Keeps

LEMMA DataRecvKeeps == ASSUME NEW c, NEW answer PROVE Keeps(c, DataRecv(c, answer))
<1> DEFINE b == IF answer.type = "parsererror" THEN Disconnect(c) ELSE c
           d == UpdateHandlers(b)
           failed == ChangeConnectStatus(d, "CONNFAIL")
<1>1. Keeps(c, d)
  BY DisconnectTame, TameSelf, TamesKeep, UpdateKeeps
<1>2. DataRecv(c, answer) \in {c, DoDisconnect(d), d, Disconnect(failed), HandleStanzas(d, answer.stanzas)}
  <2> HIDE DEF failed
  <2>1. QED
    BY DEF DataRecv, failed
<1> HIDE DEF d
<1>3. Tame(d, DoDisconnect(d)) /\ Tame(d, Disconnect(failed))
  BY DoDisconnectTame, StatusTame, DisconnectTame, TameThen
<1> HIDE DEF failed
<1>4. Keeps(d, HandleStanzas(d, answer.stanzas))
  BY StanzasKeep
<1>5. QED
  BY <1>1, <1>2, <1>3, <1>4, TamesKeep, KeepsThen

LEMMA AuthenticateTame ==
    ASSUME NEW c, NEW offer, NEW node PROVE Tame(c, Authenticate(c, offer, node))
<1> DEFINE announced == ChangeConnectStatus(c, "AUTHENTICATING")
           failed == ChangeConnectStatus(c, "CONNFAIL")
           auth(hs, item) == Send(AddHandler(announced, hs), <<item>>)
<1>1. Tame(c, announced) /\ Tame(c, Disconnect(failed))
  BY StatusTame, DisconnectTame, TameThen
<1>2. /\ {"success", "failure"} \cap Iqs = {} /\ {"challenge1", "failure"} \cap Iqs = {}
      /\ {"auth1"} \cap Iqs = {}
  BY DEF SysHandlers
<1>3. /\ Tame(announced, auth({"success", "failure"}, "auth"))
      /\ Tame(announced, auth({"challenge1", "failure"}, "authDigest"))
      /\ Tame(announced, auth({"auth1"}, "auth1"))
  BY <1>2, GoOnTame
<1>4. Authenticate(c, offer, node) \in
        {auth({"success", "failure"}, "auth"), Disconnect(failed),
         auth({"challenge1", "failure"}, "authDigest"), auth({"auth1"}, "auth1")}
  BY DEF Authenticate
<1> HIDE DEF announced, failed
<1>5. QED
  BY <1>1, <1>3, <1>4, TameThen

LEMMA ConnectCbTame == ASSUME NEW c, NEW answer PROVE Tame(c, ConnectCb(c, answer))
<1> DEFINE d == [c EXCEPT !.connected = TRUE]
           e == [d EXCEPT !.sid = TRUE]
           push == PushRequest(e, <<>>, "connect")
<1>1. Object(c) => Apart(c, d) /\ RequestsOK(d.requests)
  BY DEF Apart, Object, FieldNames
<1>2. ConnectCb(c, answer) \in {d, ChangeConnectStatus(d, "CONNFAIL"), ThrottledRequestHandler(push),
                                Authenticate(e, answer.offer, answer.node)}
  BY DEF ConnectCb
<1>3. Tame(c, d)
  BY <1>1, ApartTame
<1> HIDE DEF d
<1>4. Object(d) => Apart(d, e) /\ RequestsOK(e.requests)
  BY DEF Apart, Object, FieldNames
<1>5. Tame(d, e) /\ Tame(e, push) /\ Tame(push, ThrottledRequestHandler(push))
  BY <1>4, ApartTame, PushTame, ThrottledTame
<1> HIDE DEF e, push
<1>6. Tame(e, Authenticate(e, answer.offer, answer.node)) /\ Tame(d, ChangeConnectStatus(d, "CONNFAIL"))
  BY AuthenticateTame, StatusTame
<1>7. QED
  BY <1>2, <1>3, <1>5, <1>6, TameThen

LEMMA CallbackKeeps ==
    ASSUME NEW c, NEW req, NEW answer PROVE Keeps(c, Callback(c, req, answer))
<1> DEFINE d == IF req.func = "connect" THEN ConnectCb(c, answer) ELSE DataRecv(c, answer)
           e == [d EXCEPT !.errors = 0]
<1>1. Keeps(c, d)
  BY ConnectCbTame, DataRecvKeeps, TameKeeps
<1>2. Callback(c, req, answer) \in {d, e}
  BY DEF Callback
<1> HIDE DEF d
<1>3. Object(d) => Apart(d, e) /\ RequestsOK(e.requests)
  BY DEF Apart, Object, FieldNames
<1>4. Tame(d, e)
  BY <1>3, ApartTame
<1>5. QED
  BY <1>1, <1>2, <1>4, TamesKeep

LEMMA AnsweredKeeps ==
    ASSUME NEW c, NEW i \in 1..Len(c.requests), i <= 2, NEW status, NEW answer
    PROVE  Keeps(c, OnRequestStateChange(c, i, status, answer))
<1>1. SUFFICES ASSUME Object(c) PROVE Keeps(c, OnRequestStateChange(c, i, status, answer))
  BY DEF Keeps
<1> DEFINE req     == c.requests[i]
           state   == IF status = "4xx" THEN "refused" ELSE "failed"
           failed  == [c EXCEPT !.requests[i].state = state]
           removed == status \in {"200", "3xx", "4xx"} \/ req.sends > SendLimit
           left    == IF removed THEN RemoveRequest(c, i) ELSE failed
           restart == i = 2 \/ (i = 1 /\ left.requests # <<>> /\ left.requests[1].age > 0)
           next    == IF restart THEN RestartRequest(left, 1) ELSE left
<1>2. Tame(c, failed)
  <2> DEFINE other == [c.requests[i] EXCEPT !.state = state]
  <2>1. DOMAIN other = RequestFields
    BY <1>1 DEF Object, RequestsOK
  <2>2. failed = [c EXCEPT !.requests = [c.requests EXCEPT ![i] = other]]
    OBVIOUS
  <2> HIDE DEF other, failed
  <2>3. Apart(c, failed) /\ failed.requests = [c.requests EXCEPT ![i] = other]
    BY <1>1, <2>2 DEF Apart, Object, FieldNames
  <2>4. RequestsOK(failed.requests)
    BY <1>1, <2>1, <2>3, PutRequest DEF Object
  <2>5. QED
    BY <2>3, <2>4, ApartTame
<1>3. Tame(c, RemoveRequest(c, i))
  BY RemoveTame
<1>4. OnRequestStateChange(c, i, status, answer) =
        IF c.disconnecting /\ status \in {"4xx", "5xx"} THEN HitError(failed)
        ELSE IF status = "200"
          THEN IF restart /\ left.requests = <<>> THEN left ELSE Callback(next, req, answer)
        ELSE IF status = "4xx"
          THEN DoDisconnect(ChangeConnectStatus(HitError(left), "DISCONNECTING"))
        ELSE IF status = "3xx" THEN left
        ELSE IF removed THEN HitError(left)
        ELSE ThrottledRequestHandler(HitError(left))
  BY DEF OnRequestStateChange
<1> HIDE DEF failed, removed, req
<1>5. Tame(c, left)
  BY <1>2, <1>3
<1> HIDE DEF left
<1>6. ASSUME ~(restart /\ left.requests = <<>>) PROVE Tame(c, next)
  <2>1. restart => Tame(left, RestartRequest(left, 1))
    BY <1>6, RestartTame
  <2> HIDE DEF restart
  <2>2. QED
    BY <1>5, <2>1, TameThen
<1>7. Tame(c, HitError(failed)) /\ Tame(c, HitError(left))
  BY <1>2, <1>5, HitErrorTame, TameThen
<1>8. /\ Tame(c, ThrottledRequestHandler(HitError(left)))
      /\ Tame(c, DoDisconnect(ChangeConnectStatus(HitError(left), "DISCONNECTING")))
  <2> DEFINE h == HitError(left)
             t == ChangeConnectStatus(h, "DISCONNECTING")
  <2>1. Tame(h, t) /\ Tame(t, DoDisconnect(t)) /\ Tame(h, ThrottledRequestHandler(h))
    BY StatusTame, DoDisconnectTame, ThrottledTame
  <2>2. QED
    BY <1>7, <2>1, TameThen
<1>9. ~(restart /\ left.requests = <<>>) => Keeps(c, Callback(next, req, answer))
  BY <1>6, CallbackKeeps, TamesKeep
<1> HIDE DEF restart, next
<1>10. QED
  BY <1>4, <1>5, <1>7, <1>8, <1>9, TameKeeps

-----------------------------------------------------------------------------
(* The idle timer.                                                           *)

LEMMA TimedKeeps ==
    ASSUME NEW c, NEW due, NEW early PROVE Keeps(c, RunTimedHandlers(c, due, early))
<1>1. SUFFICES ASSUME Object(c), IqsOK(c) PROVE Keeps(c, RunTimedHandlers(c, due, early))
  BY DEF Keeps
<1> DEFINE timed  == Scheduled(c) \ c.removeTimeds
           active == IF c.authenticated THEN timed ELSE timed \cap {"disconnect"}
           over   == "disconnect" \in active \cap due
           seen   == IF over THEN active \cap early ELSE active
           none   == [c EXCEPT !.addTimeds = {}, !.removeTimeds = {}]
           ran    == IqTimeouts(none, seen \cap due)
           left   == IF over THEN OnDisconnectTimeout(ran) ELSE ran
           d      == [left EXCEPT !.timedHandlers = seen \ due]
<1>2. RunTimedHandlers(c, due, early) = d
  BY DEF RunTimedHandlers
<1>3. seen \subseteq Pending(c) /\ Pending(c) \subseteq Scheduled(c)
  BY DEF Pending
<1> HIDE DEF over, seen
<1>4. /\ DOMAIN ran = FieldNames /\ ran.requests = c.requests
      /\ ran.handlers = c.handlers /\ ran.addHandlers = c.addHandlers
      /\ ran.timedHandlers = c.timedHandlers /\ ran.addTimeds = {} /\ ran.removeTimeds = {}
      /\ ran.iq = [q \in Iqs |-> IF q \in seen \cap due THEN c.iq[q] \cup {"timeout"} ELSE c.iq[q]]
  <2> DEFINE b == DeleteHandler(none, seen \cap due)
  <2>1. /\ DOMAIN b = FieldNames /\ b.requests = c.requests /\ b.iq = c.iq
        /\ b.handlers = c.handlers /\ b.addHandlers = c.addHandlers
        /\ b.timedHandlers = c.timedHandlers /\ b.addTimeds = {} /\ b.removeTimeds = {}
    BY <1>1 DEF DeleteHandler, Object, FieldNames
  <2>2. ran = [b EXCEPT !.iq = [q \in Iqs |-> IF q \in seen \cap due THEN b.iq[q] \cup {"timeout"} ELSE b.iq[q]]]
    BY DEF IqTimeouts
  <2> HIDE DEF b, ran
  <2>3. QED
    BY <2>1, <2>2 DEF FieldNames
<1> HIDE DEF ran
<1>5. Object(ran)
  BY <1>1, <1>4 DEF Object
<1>6. Tame(ran, left)
  BY OnDisconnectTimeoutTame, TameSelf
<1> HIDE DEF left
<1>7. /\ Object(left) /\ left.iq = ran.iq /\ left.handlers \subseteq c.handlers
      /\ left.addHandlers \cap Iqs \subseteq c.addHandlers
  BY <1>4, <1>5, <1>6 DEF Tame
<1>8. left.addTimeds = {} /\ left.removeTimeds = {}
  <2>1. CASE left = ran
    BY <1>4, <2>1
  <2>2. CASE left = OnDisconnectTimeout(ran)
    BY <1>5, <2>2 DEF OnDisconnectTimeout, DoDisconnect, ChangeConnectStatus, Object, FieldNames
  <2>3. QED
    BY <2>1, <2>2 DEF left
<1>9. /\ DOMAIN d = FieldNames /\ d.requests = left.requests /\ d.iq = ran.iq
      /\ d.handlers = left.handlers /\ d.addHandlers = left.addHandlers
      /\ d.timedHandlers = seen \ due /\ d.addTimeds = {} /\ d.removeTimeds = {}
  BY <1>7, <1>8 DEF Object, FieldNames
<1> HIDE DEF d
<1>10. Object(d) /\ Scheduled(d) = seen \ due /\ Pending(d) = seen \ due
  BY <1>7, <1>9 DEF Object, Scheduled, Pending
<1>11. \A q \in Iqs : d.iq[q] = IF q \in seen \cap due THEN c.iq[q] \cup {"timeout"} ELSE c.iq[q]
  BY <1>4, <1>9
<1>12. ASSUME NEW q \in Iqs
       PROVE  /\ d.iq[q] = {} => q \notin d.handlers \cup d.addHandlers \cup Scheduled(d)
              /\ q \in d.addHandlers => q \notin d.handlers
              /\ Answered(d, q) => q \notin d.handlers \cup d.addHandlers \cup Pending(d)
              /\ Answered(c, q) => d.iq[q] = c.iq[q]
  <2>1. /\ q \in d.handlers => q \in c.handlers
        /\ q \in d.addHandlers => q \in c.addHandlers
        /\ q \in Scheduled(d) => q \in Scheduled(c)
        /\ q \in Pending(d) => q \in Pending(c)
        /\ q \in seen => q \in Pending(c)
    BY <1>3, <1>7, <1>9, <1>10
  <2>2. Answered(d, q) => Answered(c, q)
    BY <1>11 DEF Answered
  <2>3. Answered(c, q) => d.iq[q] = c.iq[q]
    BY <1>1, <1>11, <2>1 DEF IqsOK
  <2>4. d.iq[q] = {} => c.iq[q] = {}
    BY <1>11
  <2>5. QED
    BY <1>1, <2>1, <2>2, <2>3, <2>4 DEF IqsOK
<1>13. QED
  BY <1>2, <1>10, <1>12 DEF Keeps, IqsOK

LEMMA SendQueuedTame == ASSUME NEW c PROVE Tame(c, SendQueued(c))
<1>1. SUFFICES ASSUME Object(c) PROVE Tame(c, SendQueued(c))
  BY DEF Tame
<1> DEFINE poll == /\ c.authenticated /\ ~c.disconnecting
                   /\ c.requests = <<>> /\ c.data = <<>>
           d    == IF poll THEN [c EXCEPT !.data = <<"blank">>] ELSE c
           none == [d EXCEPT !.data = <<>>]
           body == Without(d.data, {"blank"})
           e    == PushRequest(none, body, "data")
<1>2. SendQueued(c) = IF Len(d.requests) < 2 /\ d.data # <<>> /\ ~d.paused
                        THEN ProcessRequest(e, Len(e.requests)) ELSE d
  BY DEF SendQueued
<1>3. Apart(c, d) /\ RequestsOK(d.requests) /\ Object(d)
  BY <1>1 DEF Apart, Object, FieldNames
<1> HIDE DEF d, body
<1>4. Apart(d, none) /\ RequestsOK(none.requests) /\ Len(none.requests) = Len(d.requests)
  BY <1>3 DEF Apart, Object, FieldNames
<1> HIDE DEF none
<1>5. Tame(c, d) /\ Tame(d, none)
  BY <1>3, <1>4, ApartTame
<1>6. Tame(none, e) /\ Len(e.requests) = Len(d.requests) + 1
  BY <1>3, <1>4, <1>5, PushTame DEF Tame
<1>7. Len(d.requests) \in Nat
  BY <1>3, SeqFacts DEF RequestsOK
<1> HIDE DEF e
<1>8. Len(d.requests) < 2 => Tame(e, ProcessRequest(e, Len(e.requests)))
  BY <1>6, <1>7, ProcessTame
<1>9. QED
  BY <1>2, <1>5, <1>6, <1>8, TameThen

LEMMA CheckFirstTame == ASSUME NEW c PROVE Tame(c, CheckFirst(c))
<1> DEFINE d == ThrottledRequestHandler(c)
<1>1. CheckFirst(c) \in {c, d, ThrottledRequestHandler(d)}
  <2> HIDE DEF d
  <2>1. CheckFirst(c) \in {c, d, ThrottledRequestHandler(c), ThrottledRequestHandler(d)}
    BY DEF CheckFirst, d
  <2>2. QED
    BY <2>1 DEF d
<1>2. Tame(c, d) /\ Tame(d, ThrottledRequestHandler(d))
  BY ThrottledTame
<1> HIDE DEF d
<1>3. QED
  BY <1>1, <1>2, TameSelf, TameThen

LEMMA OnIdleKeeps == ASSUME NEW c, NEW due, NEW early PROVE Keeps(c, OnIdle(c, due, early))
<1> DEFINE r == RunTimedHandlers(c, due, early)
           s == SendQueued(r)
           d == CheckFirst(s)
           e == [d EXCEPT !.idle = d.connected]
<1>1. Keeps(c, r) /\ Tame(r, s) /\ Tame(s, d)
  BY TimedKeeps, SendQueuedTame, CheckFirstTame
<1>2. OnIdle(c, due, early) = e
  BY DEF OnIdle
<1> HIDE DEF r, s, d
<1>3. Object(d) => Apart(d, e) /\ RequestsOK(e.requests)
  BY DEF Apart, Object, FieldNames
<1>4. Tame(d, e)
  BY <1>3, ApartTame
<1>5. QED
  BY <1>1, <1>2, <1>4, TamesKeep

-----------------------------------------------------------------------------
(* The steps.                                                                *)

\* Every request is replaced by one in the same state
LEMMA MapRequests ==
    ASSUME NEW s, RequestsOK(s), NEW t, t = [i \in DOMAIN s |-> t[i]],
           \A i \in 1..Len(s) : DOMAIN t[i] = RequestFields /\ t[i].state = s[i].state
    PROVE  RequestsOK(t) /\ Len(t) = Len(s)
<1>1. DOMAIN s = 1..Len(s) /\ Len(s) \in Nat
  BY SeqFacts DEF RequestsOK
<1> DEFINE S == {t[i] : i \in 1..Len(s)}
<1>2. t \in [1..Len(s) -> S]
  BY <1>1
<1>3. t \in Seq(S)
  BY <1>1, <1>2, SeqDef
<1>4. Len(t) = Len(s)
  BY <1>1, <1>2, <1>3, LenProperties
<1> HIDE DEF S
<1>5. QED
  BY <1>3, <1>4 DEF RequestsOK, IsSeq

LEMMA RebaseTame == ASSUME NEW c PROVE Tame(c, Rebase(c))
<1>1. SUFFICES ASSUME Object(c) PROVE Tame(c, Rebase(c))
  BY DEF Tame
<1>2. CASE c.requests = <<>>
  <2> DEFINE d == [c EXCEPT !.rid = 0]
  <2>1. Apart(c, d) /\ RequestsOK(d.requests)
    BY <1>1 DEF Apart, Object, FieldNames
  <2>2. QED
    BY <1>2, <2>1, ApartTame DEF Rebase
<1>3. CASE c.requests # <<>>
  <2> DEFINE first == c.requests[1].rid
             s == c.requests
             t == [i \in DOMAIN s |-> [s[i] EXCEPT !.rid = @ - first]]
             d == [c EXCEPT !.rid = @ - first, !.requests = t]
  <2>1. Rebase(c) = d
    BY <1>3 DEF Rebase
  <2>2. \A i \in 1..Len(s) : i \in DOMAIN s /\ DOMAIN s[i] = RequestFields
    BY <1>1, SeqFacts DEF Object, RequestsOK
  <2> HIDE DEF first
  <2>3. ASSUME NEW i \in 1..Len(s)
        PROVE  DOMAIN t[i] = RequestFields /\ t[i].state = s[i].state
    BY <2>2 DEF RequestFields
  <2>4. RequestsOK(s)
    BY <1>1 DEF Object
  <2>5. t = [i \in DOMAIN s |-> t[i]]
    OBVIOUS
  <2>6. RequestsOK(t)
    BY <2>3, <2>4, <2>5, MapRequests
  <2> HIDE DEF t
  <2>7. Apart(c, d) /\ d.requests = t
    BY <1>1 DEF Apart, Object, FieldNames
  <2> HIDE DEF d
  <2>8. QED
    BY <2>1, <2>6, <2>7, ApartTame
<1>4. QED
  BY <1>2, <1>3

LEMMA TakenTame == ASSUME NEW i PROVE Tame(conn, Taken(i)) /\ (Object(conn) => Len(Taken(i).requests) = Len(conn.requests))
<1>1. SUFFICES ASSUME Object(conn)
               PROVE  Tame(conn, Taken(i)) /\ Len(Taken(i).requests) = Len(conn.requests)
  BY DEF Tame
<1> DEFINE s == conn.requests
           t == [j \in DOMAIN s |-> IF j <= i THEN [s[j] EXCEPT !.taken = TRUE] ELSE s[j]]
           d == [conn EXCEPT !.requests = t]
<1>2. Taken(i) = d
  BY DEF Taken
<1>3. RequestsOK(s) /\ \A j \in 1..Len(s) : j \in DOMAIN s /\ DOMAIN s[j] = RequestFields
  BY <1>1, SeqFacts DEF Object, RequestsOK
<1>4. ASSUME NEW j \in 1..Len(s)
      PROVE  DOMAIN t[j] = RequestFields /\ t[j].state = s[j].state
  BY <1>3 DEF RequestFields
<1>5. t = [j \in DOMAIN s |-> t[j]]
  OBVIOUS
<1>6. RequestsOK(t) /\ Len(t) = Len(s)
  BY <1>3, <1>4, <1>5, MapRequests
<1> HIDE DEF t
<1>7. Apart(conn, d) /\ d.requests = t
  BY <1>1 DEF Apart, Object, FieldNames
<1> HIDE DEF s, d
<1>8. Tame(conn, d)
  BY <1>6, <1>7, ApartTame
<1>9. Len(d.requests) = Len(conn.requests)
  BY <1>6, <1>7 DEF s
<1>10. QED
  BY <1>2, <1>8, <1>9

\* A request that was sent is one of the first two
LEMMA SentFirst ==
    ASSUME Object(conn), NEW i \in DOMAIN conn.requests, conn.requests[i].state # "new"
    PROVE  i \in 1..Len(conn.requests) /\ i <= 2
<1>1. i \in 1..Len(conn.requests) /\ Len(conn.requests) \in Nat
  BY SeqFacts DEF Object, RequestsOK
<1>2. QED
  BY <1>1 DEF Object, RequestsOK

LEMMA BecomeKeeps ==
    ASSUME NEW c, Keeps(conn, c), Become(c)
    PROVE  Keeps(conn, conn')
BY RebaseTame, TamesKeep DEF Become

\* A field of a request changes, and the request is one of the first two or new
LEMMA SetRequest ==
    ASSUME Object(conn), NEW i \in DOMAIN conn.requests, NEW req,
           DOMAIN req = RequestFields, i <= 2 \/ req.state = "new",
           conn' = [conn EXCEPT !.requests = [conn.requests EXCEPT ![i] = req]]
    PROVE  Keeps(conn, conn')
<1>1. i \in 1..Len(conn.requests) /\ RequestsOK(conn.requests)
  BY SeqFacts DEF Object, RequestsOK
<1>2. Apart(conn, conn') /\ conn'.requests = [conn.requests EXCEPT ![i] = req]
  BY DEF Apart, Object, FieldNames
<1>3. RequestsOK(conn'.requests)
  BY <1>1, <1>2, PutRequest
<1>4. QED
  BY <1>2, <1>3, ApartTame, TameKeeps

LEMMA SendIQKeeps ==
    ASSUME Object(conn), IqsOK(conn), NEW q \in Iqs, SendIQ(q)
    PROVE  Keeps(conn, conn')
<1> DEFINE b == [conn EXCEPT !.iq[q] = {"sent"}]
           asked == AddHandler(b, {q})
           timed == IF q \in TimedIqs THEN AddTimedHandler(asked, q) ELSE asked
<1>1. conn.iq[q] = {} /\ Become(Send(timed, <<q>>))
  BY DEF SendIQ
<1>2. /\ DOMAIN b = FieldNames /\ b.requests = conn.requests
      /\ b.handlers = conn.handlers /\ b.addHandlers = conn.addHandlers
      /\ b.timedHandlers = conn.timedHandlers /\ b.addTimeds = conn.addTimeds
      /\ b.removeTimeds = conn.removeTimeds /\ b.iq = [conn.iq EXCEPT ![q] = {"sent"}]
  BY DEF Object, FieldNames
<1> HIDE DEF b
<1>3. /\ DOMAIN asked = FieldNames /\ asked.requests = conn.requests
      /\ asked.handlers = conn.handlers /\ asked.addHandlers = conn.addHandlers \cup {q}
      /\ asked.timedHandlers = conn.timedHandlers /\ asked.addTimeds = conn.addTimeds
      /\ asked.removeTimeds = conn.removeTimeds /\ asked.iq = [conn.iq EXCEPT ![q] = {"sent"}]
  BY <1>2 DEF AddHandler, FieldNames
<1> HIDE DEF asked
<1>4. /\ DOMAIN timed = FieldNames /\ timed.requests = conn.requests
      /\ timed.handlers = conn.handlers /\ timed.addHandlers = conn.addHandlers \cup {q}
      /\ timed.timedHandlers = conn.timedHandlers /\ timed.addTimeds \subseteq conn.addTimeds \cup {q}
      /\ timed.removeTimeds = conn.removeTimeds /\ timed.iq = [conn.iq EXCEPT ![q] = {"sent"}]
  BY <1>3 DEF AddTimedHandler, FieldNames
<1> HIDE DEF timed
<1>5. Object(timed)
  BY <1>4 DEF Object
<1>6. \A p \in Iqs : timed.iq[p] = IF p = q THEN {"sent"} ELSE conn.iq[p]
  BY <1>4 DEF Object
<1>7. ASSUME NEW p \in Iqs
      PROVE  /\ timed.iq[p] = {} => p \notin timed.handlers \cup timed.addHandlers \cup Scheduled(timed)
             /\ p \in timed.addHandlers => p \notin timed.handlers
             /\ Answered(timed, p) => p \notin timed.handlers \cup timed.addHandlers \cup Pending(timed)
             /\ Answered(conn, p) => timed.iq[p] = conn.iq[p]
  <2>1. CASE p = q
    <3>1. p \notin conn.handlers
      BY <1>1, <2>1 DEF IqsOK
    <3>2. ~Answered(conn, p) /\ ~Answered(timed, p) /\ timed.iq[p] # {}
      BY <1>1, <1>6, <2>1 DEF Answered
    <3>3. QED
      BY <1>4, <3>1, <3>2
  <2>2. CASE p # q
    <3>1. /\ p \in timed.handlers => p \in conn.handlers
          /\ p \in timed.addHandlers => p \in conn.addHandlers
          /\ p \in Scheduled(timed) => p \in Scheduled(conn)
          /\ p \in Pending(timed) => p \in Pending(conn)
          /\ timed.iq[p] = conn.iq[p]
      BY <1>4, <1>6, <2>2 DEF Scheduled, Pending
    <3>2. QED
      BY <3>1 DEF IqsOK, Answered
  <2>3. QED
    BY <2>1, <2>2
<1>8. Keeps(conn, timed)
  BY <1>5, <1>7 DEF Keeps, IqsOK
<1>9. Keeps(conn, Send(timed, <<q>>))
  BY <1>8, SendTame, TamesKeep
<1>10. QED
  BY <1>1, <1>9, BecomeKeeps

LEMMA NextKeeps ==
    ASSUME Object(conn), IqsOK(conn), [Next]_vars
    PROVE  Keeps(conn, conn')
<1>1. CASE Connect
  <2> DEFINE announced == ChangeConnectStatus(conn, "CONNECTING")
             push == PushRequest(announced, <<"open">>, "connect")
  <2>1. Tame(conn, announced) /\ Tame(announced, push) /\ Tame(push, ThrottledRequestHandler(push))
    BY StatusTame, PushTame, ThrottledTame
  <2>2. Become(ThrottledRequestHandler(push))
    BY <1>1 DEF Connect
  <2> HIDE DEF announced, push
  <2>3. QED
    BY <2>1, <2>2, TameThen, TameKeeps, BecomeKeeps
<1>2. CASE Attach
  <2> DEFINE b == [conn EXCEPT !.authenticated = TRUE, !.connected = TRUE, !.sid = TRUE]
             announced == ChangeConnectStatus(b, "ATTACHED")
  <2>1. Apart(conn, b) /\ RequestsOK(b.requests)
    BY DEF Apart, Object, FieldNames
  <2>2. Tame(conn, b) /\ Tame(b, announced)
    BY <2>1, ApartTame, StatusTame
  <2>3. Become(announced)
    BY <1>2 DEF Attach
  <2> HIDE DEF b, announced
  <2>4. QED
    BY <2>2, <2>3, TameThen, TameKeeps, BecomeKeeps
<1>3. CASE Quit
  BY <1>3, DisconnectTame, TameKeeps, BecomeKeeps DEF Quit
<1>4. CASE Pause \/ Resume
  <2>1. PICK paused \in BOOLEAN : conn' = [conn EXCEPT !.paused = paused]
    BY <1>4 DEF Pause, Resume
  <2>2. Apart(conn, conn') /\ RequestsOK(conn'.requests)
    BY <2>1 DEF Apart, Object, FieldNames
  <2>3. QED
    BY <2>2, ApartTame, TameKeeps
<1>5. CASE Flush
  BY <1>5, OnIdleKeeps, BecomeKeeps DEF Flush
<1>6. ASSUME NEW q \in Iqs, SendIQ(q)
      PROVE  Keeps(conn, conn')
  BY <1>6, SendIQKeeps
<1>7. ASSUME NEW i \in DOMAIN conn.requests, Answer(i) \/ AnswerDefective(i)
      PROVE  Keeps(conn, conn')
  <2>1. conn.requests[i].state = "posted"
    BY <1>7 DEF Answer, AnswerDefective
  <2>2. i \in 1..Len(conn.requests) /\ i <= 2
    BY <2>1, SentFirst
  <2>3. PICK answer : Become(OnRequestStateChange(Taken(i), i, "200", answer))
    BY <1>7 DEF Answer, AnswerDefective
  <2>4. Tame(conn, Taken(i)) /\ i \in 1..Len(Taken(i).requests)
    BY <2>2, TakenTame
  <2>5. Keeps(Taken(i), OnRequestStateChange(Taken(i), i, "200", answer))
    BY <2>2, <2>4, AnsweredKeeps
  <2>6. QED
    BY <2>3, <2>4, <2>5, TamesKeep, BecomeKeeps
<1>8. ASSUME NEW i \in DOMAIN conn.requests, Fail(i)
      PROVE  Keeps(conn, conn')
  <2>1. conn.requests[i].state = "posted"
    BY <1>8 DEF Fail
  <2>2. i \in 1..Len(conn.requests) /\ i <= 2
    BY <2>1, SentFirst
  <2>3. PICK status \in FailStatus : Become(OnRequestStateChange(conn, i, status, [type |-> "empty"]))
    BY <1>8 DEF Fail
  <2>4. QED
    BY <2>2, <2>3, AnsweredKeeps, BecomeKeeps
<1>9. ASSUME NEW i \in DOMAIN conn.requests, Backoff(i) \/ Age(i) \/ StayDead(i)
      PROVE  Keeps(conn, conn')
  <2> DEFINE req == conn.requests[i]
  <2>1. i \in 1..Len(conn.requests) /\ DOMAIN req = RequestFields /\ (i > 2 => req.state = "new")
    BY SeqFacts DEF Object, RequestsOK
  <2>2. CASE Backoff(i)
    <3> DEFINE new == [req EXCEPT !.state = "posted"]
    <3>1. conn' = [conn EXCEPT !.requests = [conn.requests EXCEPT ![i] = new]]
      BY <2>2 DEF Backoff
    <3>2. DOMAIN new = RequestFields /\ i <= 2
      BY <2>1, <2>2, SentFirst DEF Backoff
    <3> HIDE DEF new
    <3>3. QED
      BY <3>1, <3>2, SetRequest
  <2>3. CASE Age(i)
    <3> DEFINE new == [req EXCEPT !.age = @ + 1]
    <3>1. conn' = [conn EXCEPT !.requests = [conn.requests EXCEPT ![i] = new]]
      BY <2>3 DEF Age
    <3>2. DOMAIN new = RequestFields /\ i <= 2
      BY <2>1, <2>3, SentFirst DEF Age
    <3> HIDE DEF new
    <3>3. QED
      BY <3>1, <3>2, SetRequest
  <2>4. CASE StayDead(i)
    <3> DEFINE new == [req EXCEPT !.dead = 2]
    <3>1. conn' = [conn EXCEPT !.requests = [conn.requests EXCEPT ![i] = new]]
      BY <2>4 DEF StayDead
    <3>2. DOMAIN new = RequestFields /\ new.state = req.state
      BY <2>1 DEF RequestFields
    <3>3. i \in Nat
      BY <2>1
    <3>4. i <= 2 \/ new.state = "new"
      BY <2>1, <3>2, <3>3
    <3> HIDE DEF new, req
    <3>5. QED
      BY <3>1, <3>2, <3>4, SetRequest
  <2>5. QED
    BY <1>9, <2>2, <2>3, <2>4
<1>10. ASSUME NEW due, Idle(due)
       PROVE  Keeps(conn, conn')
  BY <1>10, OnIdleKeeps, BecomeKeeps DEF Idle
<1>11. CASE UNCHANGED vars
  BY <1>11, TamesKeep DEF vars
<1>12. QED
  BY <1>1, <1>2, <1>3, <1>4, <1>5, <1>6, <1>7, <1>8, <1>9, <1>10, <1>11
     DEF Next, PageCalls, Exchange, Time

ConnectionInv == Object(conn) /\ IqsOK(conn)

LEMMA InitConnection == Init => ConnectionInv
<1>1. SUFFICES ASSUME NEW service, conn = Connection(service) PROVE ConnectionInv
  BY DEF Init
<1>2. /\ DOMAIN conn = FieldNames /\ conn.requests = <<>> /\ conn.iq = [q \in Iqs |-> {}]
      /\ conn.handlers = {} /\ conn.addHandlers = {}
      /\ conn.timedHandlers = {} /\ conn.addTimeds = {}
  BY <1>1 DEF Connection, FieldNames
<1>3. QED
  BY <1>2, EmptyIsSeq DEF ConnectionInv, Object, RequestsOK, IqsOK, Answered, Scheduled, Pending

LEMMA ConnectionSafe == Spec => []ConnectionInv
<1>1. ConnectionInv /\ [Next]_vars => ConnectionInv'
  <2>1. SUFFICES ASSUME Object(conn), IqsOK(conn), [Next]_vars
                 PROVE  Object(conn') /\ IqsOK(conn')
    BY DEF ConnectionInv, Object, IqsOK, Answered, Scheduled, Pending
  <2>2. QED
    BY <2>1, NextKeeps DEF Keeps
<1>2. QED
  BY <1>1, InitConnection, PTL DEF Spec

\* Whatever is sent, retried, restarted, removed, aborted or terminated, only
\* the first two requests of the queue are ever open
THEOREM TwoInFlightTheorem == Spec => []TwoInFlight
<1>1. ASSUME ConnectionInv PROVE TwoInFlight
  <2>1. InFlight \subseteq {1, 2}
    <3>1. ASSUME NEW i \in InFlight PROVE i \in {1, 2}
      <4>1. i \in DOMAIN conn.requests /\ conn.requests[i].state # "new"
        BY <3>1 DEF InFlight
      <4>2. QED
        BY <1>1, <4>1, SentFirst, SeqFacts DEF ConnectionInv, Object, RequestsOK
    <3>2. QED
      BY <3>1
  <2>2. IsFiniteSet(1..2) /\ Cardinality(1..2) = 2
    <3>1. 1 \in Int /\ 2 \in Int /\ 2 - 1 + 1 = 2 /\ ~(1 > 2)
      OBVIOUS
    <3>2. QED
      BY <3>1, FS_Interval, Zenon
  <2>3. InFlight \subseteq 1..2
    BY <2>1
  <2>4. IsFiniteSet(InFlight) /\ Cardinality(InFlight) <= Cardinality(1..2)
    BY <2>2, <2>3, FS_Subset
  <2>5. QED
    BY <2>2, <2>4 DEF TwoInFlight
<1>2. QED
  BY <1>1, ConnectionSafe, PTL

\* However the answer of an iq, its timeout and the lists of handlers cross,
\* once callback or errback ran for the answer nothing is called for it again
THEOREM AnswerTheorem == Spec => AnswerCancelsTimeout
<1>1. ConnectionInv /\ [Next]_vars
        => [\A q \in Iqs : conn.iq[q] \cap {"result", "error"} # {} => conn'.iq[q] = conn.iq[q]]_vars
  BY NextKeeps DEF ConnectionInv, Keeps, Answered
<1>2. QED
  BY <1>1, ConnectionSafe, PTL DEF Spec, AnswerCancelsTimeout

-----------------------------------------------------------------------------
(* Who is connected.  A stream is negotiated item by item: the page sends    *)
(* one, the server answers it with one stanza, and the handler of that       *)
(* stanza sends the next.                                                    *)

\* The items that a stanza of the negotiation answers, and its names
Negotiation == SysHandlers \cup {"auth", "authDigest", "challenge", "response1", "response2", "restart"}

\* What a server has yet to read of a request
Body(req) == IF req.taken THEN <<>> ELSE req.body

\* A sequence of items with none and with at most one of the negotiation
Clean(s)  == \A k \in 1..Len(s) : s[k] \notin Negotiation
Single(s) == \A k, l \in 1..Len(s) : s[k] \in Negotiation /\ s[l] \in Negotiation => k = l

\* The same for the requests of a queue
BodySeqs(s)    == \A i \in 1..Len(s) : IsSeq(s[i].body)
CleanBodies(s) == \A i \in 1..Len(s) : Clean(Body(s[i]))
OneBody(s) ==
    /\ \A i \in 1..Len(s) : Single(Body(s[i]))
    /\ \A i, j \in 1..Len(s) : ~Clean(Body(s[i])) /\ ~Clean(Body(s[j])) => i = j

\* Requests of connect, and those that name no session
NoConnect(s)  == \A i \in 1..Len(s) : s[i].func # "connect"
OneConnect(s) == \A i, j \in 1..Len(s) : s[i].func = "connect" /\ s[j].func = "connect" => i = j
NoSid(s)      == \A i \in 1..Len(s) : ~s[i].sid

\* The requests t ask for no more than the requests s
Fewer(s, t) ==
    /\ BodySeqs(s) => BodySeqs(t)
    /\ CleanBodies(s) => CleanBodies(t)
    /\ OneBody(s) => OneBody(t)
    /\ NoConnect(s) => NoConnect(t)
    /\ OneConnect(s) => OneConnect(t)
    /\ NoSid(s) => NoSid(t)
    /\ s = <<>> => t = <<>>

\* A request that is made, sent or taken again
SameRequest(req, other) ==
    /\ other.body = req.body /\ other.sid = req.sid /\ other.func = req.func
    /\ other.taken = req.taken

LEMMA FewerSelf == ASSUME NEW s PROVE Fewer(s, s)
BY DEF Fewer

LEMMA FewerThen == ASSUME NEW s, NEW t, NEW u, Fewer(s, t), Fewer(t, u) PROVE Fewer(s, u)
BY DEF Fewer

LEMMA FewerNone == ASSUME NEW s PROVE Fewer(s, <<>>)
<1>1. Len(<<>>) = 0
  BY EmptySeq
<1>2. \A i \in 1..0 : FALSE
  OBVIOUS
<1>3. QED
  BY <1>1, <1>2, Zenon DEF Fewer, BodySeqs, CleanBodies, OneBody, NoConnect, OneConnect, NoSid

LEMMA NoItems == ASSUME NEW s, s = <<>> PROVE Clean(s) /\ Single(s)
<1>1. Len(s) = 0
  BY EmptySeq
<1>2. \A i \in 1..0 : FALSE
  OBVIOUS
<1>3. QED
  BY <1>1, <1>2, Zenon DEF Clean, Single

\* Some of the requests, each at a place of its own
LEMMA FewerPlaces ==
    ASSUME NEW s, NEW t, NEW place \in [1..Len(t) -> 1..Len(s)],
           \A i \in 1..Len(t) : /\ t[i].sid = s[place[i]].sid /\ t[i].func = s[place[i]].func
                                /\ t[i].body = s[place[i]].body
                                /\ t[i].taken = s[place[i]].taken \/ t[i].taken,
           \A i, j \in 1..Len(t) : place[i] = place[j] => i = j,
           s = <<>> => t = <<>>
    PROVE  Fewer(s, t)
<1>1. ASSUME NEW i \in 1..Len(t)
      PROVE  Body(t[i]) = Body(s[place[i]]) \/ Body(t[i]) = <<>>
  BY DEF Body
<1>2. ASSUME NEW i \in 1..Len(t)
      PROVE  /\ Clean(Body(s[place[i]])) => Clean(Body(t[i]))
             /\ Single(Body(s[place[i]])) => Single(Body(t[i]))
  BY <1>1, NoItems
<1>3. \A i \in 1..Len(t) : place[i] \in 1..Len(s)
  OBVIOUS
<1>4. BodySeqs(s) => BodySeqs(t)
  BY <1>3, Zenon DEF BodySeqs
<1>5. CleanBodies(s) => CleanBodies(t)
  BY <1>2, <1>3, Zenon DEF CleanBodies
<1>6. OneBody(s) => OneBody(t)
  BY <1>2, <1>3, Zenon DEF OneBody
<1>7. NoConnect(s) => NoConnect(t)
  BY <1>3, Zenon DEF NoConnect
<1>8. OneConnect(s) => OneConnect(t)
  <2>1. SUFFICES ASSUME OneConnect(s), NEW i \in 1..Len(t), NEW j \in 1..Len(t),
                        t[i].func = "connect", t[j].func = "connect"
                 PROVE  i = j
    BY DEF OneConnect
  <2>2. /\ place[i] \in 1..Len(s) /\ s[place[i]].func = "connect"
        /\ place[j] \in 1..Len(s) /\ s[place[j]].func = "connect"
    BY <1>3, <2>1
  <2> DEFINE a == place[i]
             b == place[j]
  <2> HIDE DEF a, b
  <2>3. a = b
    BY <2>1, <2>2 DEF OneConnect, a, b
  <2>4. QED
    BY <2>1, <2>3 DEF a, b
<1>9. NoSid(s) => NoSid(t)
  BY <1>3, Zenon DEF NoSid
<1>10. QED
  BY <1>4, <1>5, <1>6, <1>7, <1>8, <1>9 DEF Fewer

\* The same requests, made again or with another state
LEMMA FewerSame ==
    ASSUME NEW s, NEW t, IsSeq(s), IsSeq(t), Len(t) = Len(s),
           \A i \in 1..Len(s) : SameRequest(s[i], t[i])
    PROVE  Fewer(s, t)
<1> DEFINE place == [i \in 1..Len(t) |-> i]
<1>1. place \in [1..Len(t) -> 1..Len(s)] /\ \A i \in 1..Len(t) : place[i] = i
  OBVIOUS
<1>2. s = <<>> => t = <<>>
  BY SeqFacts
<1> HIDE DEF place
<1>3. QED
  BY <1>1, <1>2, FewerPlaces DEF SameRequest

LEMMA FewerPut ==
    ASSUME NEW s, IsSeq(s), NEW i \in 1..Len(s), NEW req, SameRequest(s[i], req)
    PROVE  Fewer(s, [s EXCEPT ![i] = req])
<1>1. /\ IsSeq([s EXCEPT ![i] = req]) /\ Len([s EXCEPT ![i] = req]) = Len(s)
      /\ \A j \in 1..Len(s) : [s EXCEPT ![i] = req][j] = IF j = i THEN req ELSE s[j]
  BY ExceptIsSeq
<1>2. QED
  BY <1>1, FewerSame DEF SameRequest

LEMMA FewerRemoved ==
    ASSUME NEW s, IsSeq(s), NEW i \in 1..Len(s)
    PROVE  /\ Fewer(s, RemoveAt(s, i))
           /\ OneConnect(s) /\ s[i].func = "connect" => NoConnect(RemoveAt(s, i))
<1> DEFINE t == RemoveAt(s, i)
           place == [j \in 1..Len(t) |-> IF j < i THEN j ELSE j + 1]
<1>1. /\ IsSeq(t) /\ Len(t) = Len(s) - 1 /\ Len(s) \in Nat
      /\ \A j \in 1..Len(s) - 1 : t[j] = IF j < i THEN s[j] ELSE s[j + 1]
  BY RemoveAtSeq, SeqFacts
<1> HIDE DEF t
<1>2. /\ place \in [1..Len(t) -> 1..Len(s)]
      /\ \A j, k \in 1..Len(t) : place[j] = place[k] => j = k
      /\ \A j \in 1..Len(t) : place[j] # i
  BY <1>1
<1>3. \A j \in 1..Len(t) : t[j] = s[place[j]]
  BY <1>1
<1>4. s # <<>>
  BY <1>1, SeqFacts
<1> HIDE DEF place
<1>5. Fewer(s, t)
  BY <1>2, <1>3, <1>4, FewerPlaces
<1>6. OneConnect(s) /\ s[i].func = "connect" => NoConnect(t)
  <2>1. \A j \in 1..Len(t) : place[j] \in 1..Len(s)
    BY <1>2
  <2>2. QED
    BY <1>2, <1>3, <2>1, Zenon DEF OneConnect, NoConnect
<1>7. QED
  BY <1>5, <1>6 DEF t

-----------------------------------------------------------------------------
(* The object and what the server owes                                       *)

SysWaiting(c) == (c.handlers \cup c.addHandlers) \cap SysHandlers # {}

\* The session is gone and nothing will be answered any more
Lost(c) == ~c.connected /\ ~c.sid /\ NoConnect(c.requests) /\ NoSid(c.requests)

\* The page has nothing of the negotiation to be read
Free(c) == Clean(c.data) /\ CleanBodies(c.requests)

\* w are the items the server has read and not answered
Sound(c, w) ==
    /\ IsSeq(w) /\ IsSeq(c.data) /\ BodySeqs(c.requests)
    /\ c.status = "CONNECTED" => c.connected /\ c.authenticated /\ c.sid
    /\ SysWaiting(c) => (c.connected /\ c.sid) \/ Lost(c)
    /\ Single(w) /\ Single(c.data) /\ OneBody(c.requests)
    /\ CleanBodies(c.requests) \/ Clean(c.data)
    /\ Free(c) \/ Clean(w)
    /\ OneConnect(c.requests)
    /\ ~NoConnect(c.requests) => ~SysWaiting(c) /\ Free(c) /\ Clean(w)
    /\ c.status = "none" => /\ c.requests = <<>> /\ c.data = <<>> /\ ~SysWaiting(c)
                            /\ ~c.connected /\ ~c.authenticated /\ Clean(w)

\* Where a handler of the negotiation leaves the object
Able(c) ==
    /\ NoConnect(c.requests) /\ c.status # "none"
    /\ (c.connected /\ c.sid) \/ Lost(c)

\* What a page is told when it is not connected
NotConnected == Status \ {"none", "CONNECTED"}

Steady(c, d) ==
    /\ d.connected = c.connected /\ d.sid = c.sid /\ d.authenticated = c.authenticated
    /\ d.status = c.status \/ d.status \in NotConnected

Ended(c, d) ==
    /\ ~d.connected /\ ~d.sid /\ ~d.authenticated /\ ~SysWaiting(d)
    /\ d.status \in NotConnected \/ (d.status = c.status /\ ~c.connected)

\* What a method does that negotiates nothing
Follows(c, d) ==
    Object(c) =>
        /\ Object(d) /\ Fewer(c.requests, d.requests) /\ d.data = c.data
        /\ SysWaiting(d) => SysWaiting(c)
        /\ Steady(c, d) \/ Ended(c, d)

\* and neither takes a session from under its requests
Serves(c, d) == Follows(c, d) /\ (Object(c) /\ Able(c) => Able(d))

LEMMA FollowsSelf == ASSUME NEW c PROVE Follows(c, c) /\ Serves(c, c)
BY FewerSelf DEF Follows, Serves, Steady

LEMMA FollowsThen ==
    ASSUME NEW c, NEW d, NEW e, Follows(c, d), Follows(d, e)
    PROVE  Follows(c, e)
<1>1. SUFFICES ASSUME Object(c) PROVE Follows(c, e)
  BY DEF Follows
<1>2. Object(d) /\ Fewer(c.requests, e.requests)
  BY <1>1, FewerThen DEF Follows
<1>3. QED
  BY <1>1, <1>2 DEF Follows, Steady, Ended

LEMMA ServesThen ==
    ASSUME NEW c, NEW d, NEW e, Serves(c, d), Serves(d, e)
    PROVE  Serves(c, e)
<1>1. Follows(c, e)
  BY FollowsThen DEF Serves
<1>2. QED
  BY <1>1 DEF Serves, Follows

LEMMA FollowsSound ==
    ASSUME NEW c, NEW d, Follows(c, d), Object(c), NEW w, Sound(c, w)
    PROVE  Object(d) /\ Sound(d, w)
<1>1. /\ Object(d) /\ Fewer(c.requests, d.requests) /\ d.data = c.data
      /\ SysWaiting(d) => SysWaiting(c)
      /\ Steady(c, d) \/ Ended(c, d)
  BY DEF Follows
<1>2. /\ BodySeqs(d.requests) /\ OneBody(d.requests) /\ OneConnect(d.requests)
      /\ CleanBodies(d.requests) \/ Clean(d.data)
      /\ Free(c) => Free(d)
  BY <1>1 DEF Fewer, Sound, Free
<1>3. d.status = "CONNECTED" => d.connected /\ d.authenticated /\ d.sid
  BY <1>1 DEF Steady, Ended, NotConnected, Sound
<1>4. SysWaiting(d) => (d.connected /\ d.sid) \/ Lost(d)
  BY <1>1 DEF Steady, Ended, Sound, Lost, Fewer
<1>5. ~NoConnect(d.requests) => ~SysWaiting(d) /\ Free(d) /\ Clean(w)
  BY <1>1, <1>2 DEF Sound, Fewer
<1>6. d.status = "none" => /\ d.requests = <<>> /\ d.data = <<>> /\ ~SysWaiting(d)
                           /\ ~d.connected /\ ~d.authenticated /\ Clean(w)
  BY <1>1 DEF Sound, Fewer, Steady, Ended, NotConnected
<1>7. QED
  BY <1>1, <1>2, <1>3, <1>4, <1>5, <1>6 DEF Sound

\* Methods that leave the stream alone
SameStream(c, d) ==
    /\ d.data = c.data /\ d.connected = c.connected /\ d.sid = c.sid
    /\ d.authenticated = c.authenticated
    /\ SysWaiting(d) => SysWaiting(c)
    /\ d.status = c.status \/ d.status \in NotConnected

LEMMA SameServes ==
    ASSUME NEW c, NEW d,
           Object(c) => Object(d) /\ SameStream(c, d) /\ Fewer(c.requests, d.requests)
    PROVE  Serves(c, d)
<1>1. SUFFICES ASSUME Object(c) PROVE Serves(c, d)
  BY DEF Serves, Follows
<1>2. Object(d) /\ SameStream(c, d) /\ Fewer(c.requests, d.requests)
  BY <1>1
<1>3. Follows(c, d)
  BY <1>2 DEF Follows, SameStream, Steady
<1>4. Able(c) => Able(d)
  BY <1>2 DEF Able, Lost, SameStream, Fewer, NotConnected
<1>5. QED
  BY <1>3, <1>4 DEF Serves

-----------------------------------------------------------------------------
(* Methods that negotiate nothing                                            *)

LEMMA StatusServes ==
    ASSUME NEW c, NEW status \in NotConnected PROVE Serves(c, ChangeConnectStatus(c, status))
<1> DEFINE d == ChangeConnectStatus(c, status)
<1>1. ASSUME Object(c) PROVE SameStream(c, d) /\ d.requests = c.requests
  BY <1>1 DEF ChangeConnectStatus, Object, FieldNames, SameStream, SysWaiting
<1>2. Object(c) => Object(d)
  BY StatusTame DEF Tame
<1> HIDE DEF d
<1>3. QED
  BY <1>1, <1>2, FewerSelf, SameServes DEF d

LEMMA DeleteHandlerServes == ASSUME NEW c, NEW hs PROVE Serves(c, DeleteHandler(c, hs))
<1> DEFINE d == DeleteHandler(c, hs)
<1>1. ASSUME Object(c) PROVE SameStream(c, d) /\ d.requests = c.requests
  BY <1>1 DEF DeleteHandler, Object, FieldNames, SameStream, SysWaiting
<1>2. Object(c) => Object(d)
  BY DeleteHandlerTame DEF Tame
<1> HIDE DEF d
<1>3. QED
  BY <1>1, <1>2, FewerSelf, SameServes DEF d

LEMMA AddTimedServes == ASSUME NEW c, NEW t PROVE Serves(c, AddTimedHandler(c, t))
<1> DEFINE d == AddTimedHandler(c, t)
<1>1. ASSUME Object(c)
      PROVE  Object(d) /\ SameStream(c, d) /\ d.requests = c.requests
  BY <1>1 DEF AddTimedHandler, Object, FieldNames, SameStream, SysWaiting
<1> HIDE DEF d
<1>2. QED
  BY <1>1, FewerSelf, SameServes DEF d

\* Nothing is left of the stream, but for requests that are still out
LEMMA DoDisconnectFollows ==
    ASSUME NEW c PROVE Follows(c, DoDisconnect(c)) /\ (c.requests = <<>> => Serves(c, DoDisconnect(c)))
<1>1. SUFFICES ASSUME Object(c)
               PROVE  Follows(c, DoDisconnect(c)) /\ (c.requests = <<>> => Serves(c, DoDisconnect(c)))
  BY DEF Follows, Serves
<1> DEFINE announced == IF c.connected THEN ChangeConnectStatus(c, "DISCONNECTED") ELSE c
           d == DoDisconnect(c)
<1>2. /\ DOMAIN announced = FieldNames /\ announced.requests = c.requests /\ announced.data = c.data
      /\ announced.status = IF c.connected THEN "DISCONNECTED" ELSE c.status
  BY <1>1 DEF ChangeConnectStatus, Object, FieldNames
<1> HIDE DEF announced
<1>3. d = [announced EXCEPT !.authenticated = FALSE, !.disconnecting = FALSE,
                     !.connected = FALSE, !.sid = FALSE, !.rid = @ + Window,
                     !.handlers = {}, !.addHandlers = {}, !.removeHandlers = {},
                     !.timedHandlers = {}, !.addTimeds = {}, !.removeTimeds = {}]
  BY DEF DoDisconnect, announced
<1>4. /\ d.requests = c.requests /\ d.data = c.data /\ ~d.connected /\ ~d.sid /\ ~d.authenticated
      /\ d.handlers = {} /\ d.addHandlers = {}
      /\ d.status = IF c.connected THEN "DISCONNECTED" ELSE c.status
  BY <1>2, <1>3, ZenonT(40) DEF FieldNames
<1>5. Object(d)
  BY <1>1, DoDisconnectTame DEF Tame
<1> HIDE DEF d
<1>6. ~SysWaiting(d) /\ "DISCONNECTED" \in NotConnected
  BY <1>4 DEF SysWaiting, NotConnected, Status
<1>7. Follows(c, d)
  BY <1>4, <1>5, <1>6, FewerSelf DEF Follows, Ended
<1>8. ASSUME c.requests = <<>>, Able(c) PROVE Able(d)
  <2>1. NoSid(<<>>) /\ NoConnect(<<>>)
    <3>1. Len(<<>>) = 0 /\ \A i \in 1..0 : FALSE
      BY EmptySeq
    <3>2. QED
      BY <3>1, Zenon DEF NoSid, NoConnect
  <2>2. d.status # "none"
    BY <1>4, <1>8 DEF Able
  <2>3. QED
    BY <1>4, <1>8, <2>1, <2>2 DEF Able, Lost
<1>9. QED
  BY <1>7, <1>8 DEF Serves, d

LEMMA OnDisconnectTimeoutServes == ASSUME NEW c PROVE Serves(c, OnDisconnectTimeout(c))
<1> DEFINE d == [c EXCEPT !.requests = <<>>]
<1>1. ASSUME Object(c) PROVE SameStream(c, d) /\ d.requests = <<>>
  BY <1>1 DEF Object, FieldNames, SameStream, SysWaiting
<1>2. Object(c) => Object(d)
  BY NoRequestsTame DEF Tame
<1>3. Serves(c, d)
  BY <1>1, <1>2, FewerNone, SameServes
<1>4. OnDisconnectTimeout(c) = DoDisconnect(d)
  BY DEF OnDisconnectTimeout
<1> HIDE DEF d
<1>5. Object(c) => Serves(d, DoDisconnect(d))
  BY <1>1, DoDisconnectFollows
<1>6. QED
  BY <1>3, <1>4, <1>5, ServesThen DEF Serves, Follows

-----------------------------------------------------------------------------
(* The request queue                                                         *)

LEMMA ProcessServes ==
    ASSUME NEW c, NEW i \in 1..Len(c.requests), i <= 2
    PROVE  Serves(c, ProcessRequest(c, i))
<1>1. SUFFICES ASSUME Object(c) PROVE Serves(c, ProcessRequest(c, i))
  BY DEF Serves, Follows
<1> DEFINE old == c.requests[i]
           new == [Request(old.body, old.sid, old.func, old.rid, old.sends)
                     EXCEPT !.taken = old.taken]
           req == IF NeedsRestart(old) THEN new ELSE old
           posted == [c EXCEPT !.requests[i] = Post(req)]
           failed == ChangeConnectStatus(ChangeConnectStatus(c, "CONNFAIL"), "DISCONNECTING")
<1>2. DOMAIN old = RequestFields
  BY <1>1 DEF Object, RequestsOK
<1>3. SameRequest(old, new) /\ SameRequest(old, old) /\ DOMAIN new = RequestFields
  BY NewRequest DEF Request, SameRequest, RequestFields
<1>4. SameRequest(old, req) /\ DOMAIN req = RequestFields
  BY <1>2, <1>3
<1> HIDE DEF req
<1>5. SameRequest(old, Post(req)) /\ DOMAIN Post(req) = RequestFields
  BY <1>4 DEF SameRequest, Post, RequestFields
<1>6. Serves(c, posted)
  <2> DEFINE other == Post(req)
  <2>1. SameStream(c, posted) /\ posted.requests = [c.requests EXCEPT ![i] = other]
    BY <1>1 DEF Object, FieldNames, SameStream, SysWaiting
  <2>2. Apart(c, posted) /\ RequestsOK([c.requests EXCEPT ![i] = other])
    BY <1>1, <1>5, PutRequest DEF Apart, Object, FieldNames
  <2> HIDE DEF other
  <2>3. Object(posted)
    BY <1>1, <2>1, <2>2 DEF Apart, Object
  <2>4. Fewer(c.requests, posted.requests)
    BY <1>1, <1>5, <2>1, FewerPut DEF Object, RequestsOK, other
  <2> HIDE DEF posted
  <2>5. QED
    BY <2>1, <2>3, <2>4, SameServes
<1>7. Serves(c, failed)
  <2>1. "CONNFAIL" \in NotConnected /\ "DISCONNECTING" \in NotConnected
    BY DEF NotConnected, Status
  <2>2. QED
    BY <2>1, StatusServes, ServesThen
<1>8. ProcessRequest(c, i) \in {OnDisconnectTimeout(c), c, failed, posted}
  <2> HIDE DEF failed, posted
  <2>1. QED
    BY DEF ProcessRequest, failed, posted, req
<1> HIDE DEF failed, posted
<1>9. QED
  BY <1>6, <1>7, <1>8, OnDisconnectTimeoutServes, FollowsSelf

LEMMA ThrottledServes ==
    ASSUME NEW c PROVE Serves(c, ThrottledRequestHandler(c))
<1>1. SUFFICES ASSUME Object(c) PROVE Serves(c, ThrottledRequestHandler(c))
  BY DEF Serves, Follows
<1> DEFINE d == ProcessRequest(c, 1)
<1>2. CASE c.requests = <<>>
  BY <1>2, FollowsSelf DEF ThrottledRequestHandler
<1>3. CASE c.requests # <<>>
  <2>1. 1 \in 1..Len(c.requests)
    BY <1>1, <1>3, SeqFacts DEF Object, RequestsOK
  <2>2. Serves(c, d)
    BY <2>1, ProcessServes
  <2>3. Len(d.requests) \in Nat
    BY <1>1, <2>2, SeqFacts DEF Serves, Follows, Object, RequestsOK
  <2>4. ThrottledRequestHandler(c) = d
           \/ (ThrottledRequestHandler(c) = ProcessRequest(d, 2) /\ Len(d.requests) > 1)
    BY <1>3 DEF ThrottledRequestHandler
  <2> HIDE DEF d
  <2>5. Len(d.requests) > 1 => Serves(d, ProcessRequest(d, 2))
    BY <2>3, ProcessServes
  <2>6. QED
    BY <2>2, <2>4, <2>5, ServesThen
<1>4. QED
  BY <1>2, <1>3

\* The request that was answered, if it was a request of connect, was the last
LEMMA RemoveServes ==
    ASSUME NEW c, NEW i \in 1..Len(c.requests), Object(c)
    PROVE  /\ Serves(c, RemoveRequest(c, i))
           /\ OneConnect(c.requests) /\ c.requests[i].func = "connect"
                 => NoConnect(RemoveRequest(c, i).requests)
<1> DEFINE d == [c EXCEPT !.requests = RemoveAt(@, i)]
           t == RemoveAt(c.requests, i)
<1>1. SameStream(c, d) /\ d.requests = t /\ Apart(c, d)
  BY DEF Apart, Object, FieldNames, SameStream, SysWaiting
<1>2. IsSeq(c.requests)
  BY DEF Object, RequestsOK
<1>3. /\ Fewer(c.requests, t)
      /\ OneConnect(c.requests) /\ c.requests[i].func = "connect" => NoConnect(t)
  BY <1>2, FewerRemoved
<1>4. Object(d)
  <2>1. RequestsOK(t)
    BY RemovedRequests DEF Object
  <2>2. QED
    BY <1>1, <2>1 DEF Apart, Object
<1> HIDE DEF t
<1>5. Serves(c, d)
  BY <1>1, <1>3, <1>4, SameServes
<1>6. RemoveRequest(c, i) = ThrottledRequestHandler(d)
  BY DEF RemoveRequest
<1> HIDE DEF d
<1>7. Serves(d, ThrottledRequestHandler(d))
  BY ThrottledServes
<1>9. QED
  BY <1>1, <1>3, <1>4, <1>5, <1>6, <1>7, ServesThen DEF Serves, Follows, Fewer

LEMMA RestartServes ==
    ASSUME NEW c, c.requests # <<>>
    PROVE  Serves(c, RestartRequest(c, 1))
<1>1. SUFFICES ASSUME Object(c) PROVE Serves(c, RestartRequest(c, 1))
  BY DEF Serves, Follows
<1> DEFINE old == c.requests[1]
           req == [old EXCEPT !.dead = IF @ = 0 THEN 1 ELSE @]
           d == [c EXCEPT !.requests[1].dead = IF @ = 0 THEN 1 ELSE @]
<1>2. 1 \in 1..Len(c.requests) /\ 1 <= 2 /\ IsSeq(c.requests)
  BY <1>1, SeqFacts DEF Object, RequestsOK
<1>3. DOMAIN old = RequestFields
  BY <1>1, <1>2 DEF Object, RequestsOK
<1>4. DOMAIN req = RequestFields /\ SameRequest(old, req)
  BY <1>3 DEF SameRequest, RequestFields
<1>5. SameStream(c, d) /\ Apart(c, d) /\ d.requests = [c.requests EXCEPT ![1] = req]
  <2>1. d = [c EXCEPT !.requests = [c.requests EXCEPT ![1] = req]]
    OBVIOUS
  <2> HIDE DEF req, d
  <2>2. QED
    BY <1>1, <2>1 DEF Apart, Object, FieldNames, SameStream, SysWaiting
<1> HIDE DEF req
<1>6. RequestsOK(d.requests) /\ Len(d.requests) = Len(c.requests)
  BY <1>1, <1>2, <1>4, <1>5, PutRequest DEF Object
<1>7. Object(d)
  BY <1>1, <1>5, <1>6 DEF Apart, Object
<1>8. Fewer(c.requests, d.requests)
  BY <1>2, <1>4, <1>5, FewerPut
<1>9. RestartRequest(c, 1) = ProcessRequest(d, 1) /\ 1 \in 1..Len(d.requests)
  BY <1>2, <1>6 DEF RestartRequest
<1> HIDE DEF d
<1>10. Serves(c, d)
  BY <1>5, <1>7, <1>8, SameServes
<1>11. Serves(d, ProcessRequest(d, 1))
  BY <1>2, <1>9, ProcessServes
<1>12. QED
  BY <1>9, <1>10, <1>11, ServesThen

LEMMA HitErrorServes == ASSUME NEW c PROVE Serves(c, HitError(c))
<1> DEFINE d == [c EXCEPT !.errors = IF @ > ErrorLimit THEN @ ELSE @ + 1]
<1>1. ASSUME Object(c) PROVE SameStream(c, d) /\ Object(d) /\ d.requests = c.requests
  BY <1>1 DEF Object, FieldNames, SameStream, SysWaiting
<1>2. HitError(c) \in {OnDisconnectTimeout(d), d}
  BY DEF HitError
<1> HIDE DEF d
<1>3. Serves(c, d)
  BY <1>1, FewerSelf, SameServes
<1>4. QED
  BY <1>2, <1>3, OnDisconnectTimeoutServes, ServesThen

-----------------------------------------------------------------------------
(* Items of the negotiation                                                  *)

LEMMA OneItem == ASSUME NEW x PROVE IsSeq(<<x>>) /\ Len(<<x>>) = 1 /\ <<x>>[1] = x
<1>1. <<x>> \in Seq({x})
  OBVIOUS
<1>2. QED
  BY <1>1 DEF IsSeq

LEMMA ConcatSeq ==
    ASSUME NEW s, NEW t, IsSeq(s), IsSeq(t)
    PROVE  /\ IsSeq(s \o t) /\ Len(s \o t) = Len(s) + Len(t)
           /\ \A i \in 1..Len(s) + Len(t) :
                 (s \o t)[i] = IF i <= Len(s) THEN s[i] ELSE t[i - Len(s)]
<1>1. PICK S, T : s \in Seq(S) /\ t \in Seq(T)
  BY DEF IsSeq
<1>2. s \in Seq(S \cup T) /\ t \in Seq(S \cup T)
  BY <1>1, SeqMonotonic
<1>3. QED
  BY <1>2, ConcatProperties, ZenonT(40) DEF IsSeq

\* What is put behind nothing of the negotiation, and nothing behind it
LEMMA ConcatClean ==
    ASSUME NEW s, NEW t, IsSeq(s), IsSeq(t)
    PROVE  /\ Clean(s \o t) <=> Clean(s) /\ Clean(t)
           /\ Single(s) /\ Clean(t) => Single(s \o t)
           /\ Clean(s) /\ Single(t) => Single(s \o t)
<1> DEFINE u == s \o t
           m == Len(s)
           n == Len(t)
<1>1. /\ Len(u) = m + n /\ m \in Nat /\ n \in Nat
      /\ \A i \in 1..m + n : u[i] = IF i <= m THEN s[i] ELSE t[i - m]
  BY ConcatSeq, SeqFacts
<1> HIDE DEF u, m, n
<1>2. /\ \A i \in 1..m : i \in 1..m + n /\ u[i] = s[i]
      /\ \A i \in 1..n : m + i \in 1..m + n /\ u[m + i] = t[i]
      /\ \A i \in 1..m + n : i \in 1..m \/ i - m \in 1..n
  <2>1. \A i \in 1..n : m + i \in 1..m + n /\ ~(m + i <= m) /\ m + i - m = i
    BY <1>1
  <2>2. \A i \in 1..m : i \in 1..m + n /\ i <= m
    BY <1>1
  <2>3. \A i \in 1..m + n : i \in 1..m \/ i - m \in 1..n
    BY <1>1
  <2>4. QED
    BY <1>1, <2>1, <2>2, <2>3
<1>3. Clean(u) <=> Clean(s) /\ Clean(t)
  <2>1. ASSUME Clean(u) PROVE Clean(s) /\ Clean(t)
    BY <1>1, <1>2, <2>1 DEF Clean, m, n
  <2>2. ASSUME Clean(s), Clean(t) PROVE Clean(u)
    <3>1. SUFFICES ASSUME NEW i \in 1..m + n PROVE u[i] \notin Negotiation
      BY <1>1 DEF Clean
    <3>2. CASE i <= m
      BY <1>1, <2>2, <3>2 DEF Clean, m
    <3>3. CASE ~(i <= m)
      BY <1>1, <1>2, <2>2, <3>3 DEF Clean, n, m
    <3>4. QED
      BY <3>2, <3>3
  <2>3. QED
    BY <2>1, <2>2
<1>4. ASSUME Single(s), Clean(t) PROVE Single(u)
  <2>1. \A i \in 1..m + n : i \in 1..m \/ u[i] \notin Negotiation
    <3>1. \A i \in 1..n : t[i] \notin Negotiation
      BY <1>4 DEF Clean, n
    <3>2. \A i \in 1..m + n : ~(i <= m) => u[i] = t[i - m] /\ i - m \in 1..n
      BY <1>1
    <3>3. \A i \in 1..m + n : i <= m => i \in 1..m
      BY <1>1
    <3>4. QED
      BY <3>1, <3>2, <3>3
  <2>2. QED
    BY <1>1, <1>2, <1>4, <2>1 DEF Single, m
<1>5. ASSUME Clean(s), Single(t) PROVE Single(u)
  <2>1. \A i \in 1..m + n : u[i] \in Negotiation => i - m \in 1..n /\ u[i] = t[i - m]
    BY <1>1, <1>2, <1>5 DEF Clean, m, n
  <2>2. \A i, j \in 1..m + n : u[i] \in Negotiation /\ u[j] \in Negotiation => i - m = j - m
    BY <1>5, <2>1 DEF Single, n
  <2>3. QED
    BY <1>1, <2>2 DEF Single
<1>6. QED
  BY <1>3, <1>4, <1>5 DEF u

LEMMA CleanSingle == ASSUME NEW s, Clean(s) PROVE Single(s)
BY DEF Clean, Single

LEMMA OneItemSingle ==
    ASSUME NEW x PROVE Single(<<x>>) /\ (Clean(<<x>>) <=> x \notin Negotiation)
<1>1. Len(<<x>>) = 1 /\ <<x>>[1] = x
  BY OneItem
<1>2. \A i \in 1..1 : i = 1
  OBVIOUS
<1>3. 1 \in 1..1
  OBVIOUS
<1>4. QED
  BY <1>1, <1>2, <1>3, Zenon DEF Single, Clean

-----------------------------------------------------------------------------
(* Methods that ask for something                                            *)

\* Handlers of the negotiation are registered while there is a session
LEMMA AddHandlerSound ==
    ASSUME NEW c, Object(c), NEW w, Sound(c, w), NEW hs,
           hs \cap SysHandlers = {} \/ (Able(c) /\ c.connected /\ c.sid)
    PROVE  LET d == AddHandler(c, hs)
           IN  /\ Object(d) /\ Sound(d, w) /\ (Able(c) => Able(d))
               /\ d.connected = c.connected /\ d.sid = c.sid /\ d.requests = c.requests /\ d.data = c.data
<1> DEFINE d == AddHandler(c, hs)
<1>1. /\ Object(d) /\ d.requests = c.requests /\ d.data = c.data
      /\ d.connected = c.connected /\ d.sid = c.sid /\ d.authenticated = c.authenticated
      /\ d.status = c.status /\ d.handlers = c.handlers /\ d.addHandlers = c.addHandlers \cup hs
  BY DEF AddHandler, Object, FieldNames
<1> HIDE DEF d
<1>2. Able(c) => Able(d)
  BY <1>1 DEF Able, Lost
<1>3. Sound(d, w)
  <2>1. CASE hs \cap SysHandlers = {}
    <3>1. SysWaiting(d) => SysWaiting(c)
      BY <1>1, <2>1 DEF SysWaiting
    <3>2. QED
      BY <1>1, <3>1 DEF Sound, Lost, Free
  <2>2. CASE Able(c) /\ c.connected /\ c.sid
    BY <1>1, <2>2 DEF Sound, Able, Free
  <2>3. QED
    BY <2>1, <2>2
<1>4. QED
  BY <1>1, <1>2, <1>3 DEF d

\* Data is sent: something of the negotiation only while nothing else is
LEMMA SendSound ==
    ASSUME NEW c, Object(c), NEW w, Sound(c, w), c.status # "none", NEW x,
           x \notin Negotiation \/ (Free(c) /\ Clean(w) /\ NoConnect(c.requests))
    PROVE  LET d == Send(c, <<x>>)
           IN  Object(d) /\ Sound(d, w) /\ (Able(c) => Able(d))
<1> DEFINE b == [c EXCEPT !.data = @ \o <<x>>]
           e == ThrottledRequestHandler(b)
           f == [e EXCEPT !.idle = TRUE]
<1>1. /\ Object(b) /\ b.data = c.data \o <<x>> /\ b.requests = c.requests
      /\ b.connected = c.connected /\ b.sid = c.sid /\ b.authenticated = c.authenticated
      /\ b.status = c.status /\ (SysWaiting(b) <=> SysWaiting(c))
  BY DEF Object, FieldNames, SysWaiting
<1> HIDE DEF b
<1>2. IsSeq(c.data) /\ IsSeq(<<x>>)
  BY OneItem DEF Sound
<1>3. /\ IsSeq(b.data)
      /\ Clean(b.data) <=> Clean(c.data) /\ x \notin Negotiation
      /\ Single(c.data) /\ x \notin Negotiation => Single(b.data)
      /\ Clean(c.data) => Single(b.data)
  BY <1>1, <1>2, ConcatSeq, ConcatClean, OneItemSingle
<1>4. Sound(b, w)
  <2>1. CASE x \notin Negotiation
    <3>1. (Clean(b.data) <=> Clean(c.data)) /\ Single(b.data)
      BY <1>3, <2>1 DEF Sound
    <3>2. QED
      BY <1>1, <1>3, <3>1 DEF Sound, Free, Lost
  <2>2. CASE Free(c) /\ Clean(w) /\ NoConnect(c.requests)
    BY <1>1, <1>3, <2>2 DEF Sound, Free, Lost
  <2>3. QED
    BY <2>1, <2>2
<1>5. Able(c) => Able(b)
  BY <1>1 DEF Able, Lost
<1>6. Serves(b, e)
  BY ThrottledServes
<1>7. Send(c, <<x>>) = f
  BY DEF Send, b
<1> HIDE DEF e
<1>8. Object(e) => Object(f) /\ SameStream(e, f) /\ f.requests = e.requests
  BY DEF Object, FieldNames, SameStream, SysWaiting
<1> HIDE DEF f
<1>9. Serves(e, f)
  BY <1>8, FewerSelf, SameServes
<1>10. Serves(b, f)
  BY <1>6, <1>9, ServesThen
<1>11. QED
  BY <1>1, <1>4, <1>5, <1>7, <1>10, FollowsSound DEF Serves

\* A request of a session, with nothing of the negotiation or with the data
LEMMA AppendedRequest ==
    ASSUME NEW s, IsSeq(s), NEW req, IsSeq(req.body), ~req.taken
    PROVE  LET t == Append(s, req)
           IN  /\ BodySeqs(s) => BodySeqs(t)
               /\ CleanBodies(s) /\ Clean(req.body) => CleanBodies(t)
               /\ OneBody(s) /\ Clean(req.body) => OneBody(t)
               /\ CleanBodies(s) /\ Single(req.body) => OneBody(t)
               /\ NoConnect(s) /\ req.func # "connect" => NoConnect(t)
               /\ NoConnect(t) => NoConnect(s)
               /\ OneConnect(s) /\ req.func # "connect" => OneConnect(t)
               /\ NoConnect(s) => OneConnect(t)
               /\ NoSid(s) /\ ~req.sid => NoSid(t)
<1> DEFINE t == Append(s, req)
           n == Len(s)
<1>1. /\ Len(t) = n + 1 /\ n \in Nat
      /\ \A i \in 1..n : t[i] = s[i]
      /\ t[n + 1] = req /\ Body(req) = req.body
  BY AppendSeq, SeqFacts DEF Body
<1> HIDE DEF t
<1>2. \A i \in 1..n + 1 : i \in 1..n \/ i = n + 1
  BY <1>1
<1>3. \A i \in 1..n : i \in 1..n + 1
  BY <1>1
<1> HIDE DEF n
<1>4. BodySeqs(s) => BodySeqs(t)
  BY <1>1, <1>2 DEF BodySeqs, n
<1>5. CleanBodies(s) /\ Clean(req.body) => CleanBodies(t)
  BY <1>1, <1>2 DEF CleanBodies, n
<1>6. OneBody(s) /\ Clean(req.body) => OneBody(t)
  BY <1>1, <1>2, CleanSingle DEF OneBody, n
<1>7. CleanBodies(s) /\ Single(req.body) => OneBody(t)
  BY <1>1, <1>2, CleanSingle DEF OneBody, CleanBodies, n
<1>8. NoConnect(s) /\ req.func # "connect" => NoConnect(t)
  BY <1>1, <1>2 DEF NoConnect, n
<1>9. NoConnect(t) => NoConnect(s)
  BY <1>1, <1>3 DEF NoConnect, n
<1>10. OneConnect(s) /\ req.func # "connect" => OneConnect(t)
  BY <1>1, <1>2 DEF OneConnect, n
<1>11. NoConnect(s) => OneConnect(t)
  BY <1>1, <1>2 DEF NoConnect, OneConnect, n
<1>12. NoSid(s) /\ ~req.sid => NoSid(t)
  BY <1>1, <1>2 DEF NoSid, n
<1>13. QED
  BY <1>4, <1>5, <1>6, <1>7, <1>8, <1>9, <1>10, <1>11, <1>12 DEF t

LEMMA PushFields ==
    ASSUME NEW c, Object(c), NEW body, NEW func
    PROVE  LET d == PushRequest(c, body, func)
               req == Request(body, c.sid, func, c.rid, 0)
           IN  /\ Object(d) /\ d.requests = Append(c.requests, req)
               /\ req.body = body /\ req.sid = c.sid /\ req.func = func /\ ~req.taken
               /\ d.data = c.data /\ d.connected = c.connected /\ d.sid = c.sid
               /\ d.authenticated = c.authenticated /\ d.status = c.status
               /\ SysWaiting(d) <=> SysWaiting(c)
<1> DEFINE d == PushRequest(c, body, func)
           req == Request(body, c.sid, func, c.rid, 0)
<1>1. Object(d)
  BY PushTame DEF Tame
<1>2. req.body = body /\ req.sid = c.sid /\ req.func = func /\ ~req.taken
  BY DEF Request
<1>3. d = [c EXCEPT !.requests = Append(c.requests, req), !.rid = @ + 1]
  BY DEF PushRequest
<1> HIDE DEF req
<1>4. /\ d.requests = Append(c.requests, req)
      /\ d.data = c.data /\ d.connected = c.connected /\ d.sid = c.sid
      /\ d.authenticated = c.authenticated /\ d.status = c.status
      /\ d.handlers = c.handlers /\ d.addHandlers = c.addHandlers
  BY <1>3 DEF Object, FieldNames
<1> HIDE DEF d
<1>5. QED
  BY <1>1, <1>2, <1>4 DEF SysWaiting, d, req

\* b is c whose data went into the body, or c with another body
LEMMA PushSound ==
    ASSUME NEW b, Object(b), NEW c, NEW w, Sound(c, w), c.status # "none",
           b.requests = c.requests, b.connected = c.connected, b.sid = c.sid,
           b.authenticated = c.authenticated, b.status = c.status, SysWaiting(b) <=> SysWaiting(c),
           NEW body, IsSeq(body),
           \/ b.data = c.data /\ Clean(body)
           \/ b.data = <<>> /\ (Clean(c.data) => Clean(body)) /\ Single(body)
    PROVE  LET d == PushRequest(b, body, "data")
           IN  Object(d) /\ Sound(d, w) /\ (Able(c) => Able(d))
<1> DEFINE d == PushRequest(b, body, "data")
           req == Request(body, b.sid, "data", b.rid, 0)
<1>1. /\ Object(d) /\ d.requests = Append(b.requests, req)
      /\ req.body = body /\ req.sid = b.sid /\ req.func = "data" /\ ~req.taken
      /\ d.data = b.data /\ d.connected = b.connected /\ d.sid = b.sid
      /\ d.authenticated = b.authenticated /\ d.status = b.status
      /\ SysWaiting(d) <=> SysWaiting(b)
  BY PushFields
<1>2. IsSeq(c.requests)
  BY DEF Object, RequestsOK
<1> HIDE DEF d, req
<1>3. /\ BodySeqs(c.requests) => BodySeqs(d.requests)
      /\ CleanBodies(c.requests) /\ Clean(body) => CleanBodies(d.requests)
      /\ OneBody(c.requests) /\ Clean(body) => OneBody(d.requests)
      /\ CleanBodies(c.requests) /\ Single(body) => OneBody(d.requests)
      /\ NoConnect(c.requests) => NoConnect(d.requests)
      /\ OneConnect(c.requests) => OneConnect(d.requests)
      /\ NoSid(c.requests) /\ ~c.sid => NoSid(d.requests)
  BY <1>1, <1>2, AppendedRequest
<1>4. Lost(c) => Lost(d)
  BY <1>1, <1>3 DEF Lost
<1>5. Able(c) => Able(d)
  BY <1>1, <1>3, <1>4 DEF Able
<1>6. IsSeq(d.data) /\ Single(d.data) /\ (Clean(c.data) => Clean(d.data))
  BY <1>1, EmptyIsSeq, NoItems DEF Sound
<1>7. OneBody(d.requests) /\ (CleanBodies(d.requests) \/ Clean(d.data))
  BY <1>1, <1>3, NoItems, CleanSingle DEF Sound
<1>8. Free(c) => Free(d)
  BY <1>3, <1>6 DEF Free
<1>9. Sound(d, w)
  BY <1>1, <1>3, <1>4, <1>6, <1>7, <1>8 DEF Sound
<1>10. QED
  BY <1>1, <1>5, <1>9 DEF d

LEMMA DisconnectSound ==
    ASSUME NEW c, Object(c), NEW w, Sound(c, w)
    PROVE  LET d == Disconnect(c)
           IN  Object(d) /\ Sound(d, w) /\ (Able(c) => Able(d))
<1> DEFINE announced == ChangeConnectStatus(c, "DISCONNECTING")
           timed == AddTimedHandler(announced, "disconnect")
           push == PushRequest(timed, <<"terminate">>, "data")
           ended == [push EXCEPT !.disconnecting = TRUE]
<1>1. Serves(c, announced) /\ Serves(announced, timed)
  BY StatusServes, AddTimedServes DEF NotConnected, Status
<1>2. /\ Object(announced) /\ Sound(announced, w) /\ (Able(c) => Able(announced))
      /\ Object(timed) /\ Sound(timed, w) /\ (Able(c) => Able(timed))
  BY <1>1, FollowsSound DEF Serves
<1>3. timed.status # "none"
  BY DEF AddTimedHandler, ChangeConnectStatus, Object, FieldNames
<1>4. Disconnect(c) \in {announced, ThrottledRequestHandler(ended)}
  BY DEF Disconnect, SendTerminate
<1> HIDE DEF timed, announced
<1>5. IsSeq(<<"terminate">>) /\ Clean(<<"terminate">>)
  BY OneItem, OneItemSingle DEF Negotiation, SysHandlers
<1>6. Object(push) /\ Sound(push, w) /\ (Able(timed) => Able(push))
  BY <1>2, <1>3, <1>5, PushSound
<1> HIDE DEF push
<1>7. Object(ended) /\ SameStream(push, ended) /\ ended.requests = push.requests
  BY <1>6 DEF Object, FieldNames, SameStream, SysWaiting
<1> HIDE DEF ended
<1>8. Serves(push, ThrottledRequestHandler(ended))
  BY <1>7, FewerSelf, SameServes, ThrottledServes, ServesThen
<1>9. QED
  BY <1>2, <1>4, <1>6, <1>8, FollowsSound DEF Serves

-----------------------------------------------------------------------------
(* The handlers of the negotiation, while there is a session and nothing     *)
(* else of it is under way                                                   *)

Ready(c, w) ==
    /\ Object(c) /\ Sound(c, w) /\ Clean(w) /\ Free(c)
    /\ Able(c) /\ c.connected /\ c.sid

Negotiated(c, w) == Object(c) /\ Sound(c, w) /\ Able(c)

LEMMA ServesNegotiated ==
    ASSUME NEW c, NEW d, NEW w, Negotiated(c, w), Serves(c, d)
    PROVE  Negotiated(d, w)
BY FollowsSound DEF Negotiated, Serves

LEMMA SameReady ==
    ASSUME NEW c, NEW d, NEW w, Ready(c, w), Object(d), SameStream(c, d), d.requests = c.requests
    PROVE  Ready(d, w)
<1>1. Serves(c, d)
  BY FewerSelf, SameServes
<1>2. Sound(d, w) /\ Able(d)
  BY <1>1, FollowsSound DEF Ready, Serves
<1>3. QED
  BY <1>2 DEF Ready, SameStream, Free

\* Handlers are registered and an item is sent
LEMMA GoOnSound ==
    ASSUME NEW c, NEW w, Ready(c, w), NEW added, NEW x
    PROVE  Negotiated(Send(AddHandler(c, added), <<x>>), w)
<1> DEFINE d == AddHandler(c, added)
<1>1. /\ Object(d) /\ Sound(d, w) /\ Able(d)
      /\ d.connected = c.connected /\ d.sid = c.sid /\ d.requests = c.requests /\ d.data = c.data
  BY AddHandlerSound DEF Ready
<1> HIDE DEF d
<1>2. Free(d) /\ Clean(w) /\ NoConnect(d.requests) /\ d.status # "none"
  BY <1>1 DEF Ready, Free, Able
<1>3. Negotiated(Send(d, <<x>>), w)
  BY <1>1, <1>2, SendSound DEF Negotiated
<1>4. QED
  BY <1>3 DEF d

LEMMA DropReady ==
    ASSUME NEW c, NEW w, Ready(c, w), NEW dropped
    PROVE  Ready(DeleteHandler(c, dropped), w)
<1> DEFINE d == DeleteHandler(c, dropped)
<1>1. Object(d) /\ SameStream(c, d) /\ d.requests = c.requests
  BY DEF Ready, DeleteHandler, Object, FieldNames, SameStream, SysWaiting
<1> HIDE DEF d
<1>2. QED
  BY <1>1, SameReady DEF d

\* The page is told CONNECTED while the session is there
LEMMA ConnectedSound ==
    ASSUME NEW c, NEW w, Ready(c, w)
    PROVE  Negotiated(Connected(c), w)
<1> DEFINE d == ChangeConnectStatus([c EXCEPT !.authenticated = TRUE], "CONNECTED")
<1>1. /\ Object(d) /\ d.requests = c.requests /\ d.data = c.data
      /\ d.connected = c.connected /\ d.sid = c.sid /\ d.authenticated /\ d.status = "CONNECTED"
      /\ d.handlers = c.handlers /\ d.addHandlers = c.addHandlers
  BY DEF Ready, ChangeConnectStatus, Object, FieldNames
<1>2. Connected(c) = Send(d, <<"presence">>)
  BY DEF Connected
<1> HIDE DEF d
<1>3. SysWaiting(d) <=> SysWaiting(c)
  BY <1>1 DEF SysWaiting
<1>4. Sound(d, w)
  BY <1>1, <1>3 DEF Ready, Sound, Free, Lost
<1>5. Able(d)
  BY <1>1 DEF Ready, Able, Lost
<1>6. "presence" \notin Negotiation
  BY DEF Negotiation, SysHandlers
<1>7. QED
  BY <1>1, <1>2, <1>4, <1>5, <1>6, SendSound DEF Negotiated, Able

LEMMA SysHandlerSound ==
    ASSUME NEW c, NEW w, Ready(c, w), NEW type, NEW h \in SysHandlers
    PROVE  Negotiated(RunHandler(c, h, type), w)
<1>1. Negotiated(c, w)
  BY DEF Ready, Negotiated
<1>2. "AUTHFAIL" \in NotConnected
  BY DEF NotConnected, Status
<1>3. /\ Negotiated(SaslChallenge1(c), w) /\ Negotiated(SaslChallenge2(c), w)
      /\ Negotiated(SaslSuccess(c), w) /\ Negotiated(Auth1(c), w)
  BY DropReady, GoOnSound DEF SaslChallenge1, SaslChallenge2, SaslSuccess, Auth1
<1>4. Negotiated(SaslFailure(c), w)
  BY <1>1, <1>2, DeleteHandlerServes, StatusServes, ServesNegotiated DEF SaslFailure
<1>5. Negotiated(SaslAuth1(c, type), w)
  <2> DEFINE d == [c EXCEPT !.do_session = @ \/ type = "bind+session"]
  <2>1. Object(d) /\ SameStream(c, d) /\ d.requests = c.requests
    BY DEF Ready, Object, FieldNames, SameStream, SysWaiting
  <2>2. SaslAuth1(c, type) \in {ChangeConnectStatus(d, "AUTHFAIL"), Send(AddHandler(d, {"bind"}), <<"bind">>)}
    BY DEF SaslAuth1
  <2> HIDE DEF d
  <2>3. Ready(d, w) /\ Negotiated(d, w)
    BY <2>1, SameReady DEF Ready, Negotiated
  <2>4. QED
    BY <1>2, <2>2, <2>3, GoOnSound, StatusServes, ServesNegotiated
<1>6. Negotiated(ChangeConnectStatus(c, "AUTHFAIL"), w)
  BY <1>1, <1>2, StatusServes, ServesNegotiated
<1>7. Negotiated(SaslBind(c, type), w)
  BY <1>6, GoOnSound, ConnectedSound DEF SaslBind
<1>8. Negotiated(SaslSession(c, type), w)
  BY <1>6, ConnectedSound DEF SaslSession
<1>9. Negotiated(Auth2(c, type), w)
  BY <1>6, ConnectedSound, DisconnectSound DEF Auth2, Negotiated
<1>10. RunHandler(c, h, type) \in
         {SaslChallenge1(c), SaslChallenge2(c), SaslSuccess(c), SaslFailure(c), SaslAuth1(c, type),
          SaslBind(c, type), SaslSession(c, type), Auth1(c), Auth2(c, type)}
  BY DEF RunHandler, SysHandlers
<1>11. QED
  BY <1>3, <1>4, <1>5, <1>7, <1>8, <1>9, <1>10

-----------------------------------------------------------------------------
(* Stanzas                                                                   *)

Negotiates(stanza) == stanza.for \in SysHandlers \cup {"challenge"}

LEMMA PlainReplies ==
    ASSUME NEW x, x \notin Negotiation, NEW stanza \in Replies(x)
    PROVE  ~Negotiates(stanza)
<1>1. Replies(x) = {Stanza(x, t) : t \in {"result", "error"}}
  BY DEF Replies, Negotiation, SysHandlers
<1>2. stanza.for = x
  BY <1>1 DEF Stanza
<1>3. QED
  BY <1>2 DEF Negotiates, Negotiation

\* The handler of an iq, or none
LEMMA IqStanza ==
    ASSUME NEW c, Object(c), NEW stanza,
           \A h \in c.handlers : IsMatch(h, stanza) => h \notin SysHandlers
    PROVE  LET e == HandleStanza(c, stanza)
           IN  Object(e) /\ SameStream(c, e) /\ e.requests = c.requests
<1> DEFINE run(h) == IsMatch(h, stanza) /\ (c.authenticated \/ h \in SysHandlers)
           called == {h \in c.handlers : run(h)}
           rest == c.handlers \ called
           h == CHOOSE x \in called : TRUE
           b == [c EXCEPT !.handlers = {}]
           d == RunHandler(b, h, stanza.type)
           e == [d EXCEPT !.handlers = @ \cup rest]
<1>1. HandleStanza(c, stanza) = IF called = {} THEN c ELSE e
  BY DEF HandleStanza
<1>2. called # {} => h \notin SysHandlers
  <2>1. called # {} => h \in called
    OBVIOUS
  <2> HIDE DEF h
  <2>2. QED
    BY <2>1
<1> HIDE DEF called, h
<1>3. CASE called = {}
  BY <1>1, <1>3 DEF SameStream
<1>4. CASE called # {}
  <2>1. d = [DeleteTimedHandler(b, {h}) EXCEPT !.iq[h] = @ \cup {stanza.type}]
    BY <1>2, <1>4 DEF RunHandler, IqHandler, SysHandlers
  <2>2. /\ DOMAIN d = FieldNames /\ d.handlers = {} /\ d.addHandlers = c.addHandlers
        /\ d.requests = c.requests /\ d.iq = [c.iq EXCEPT ![h] = @ \cup {stanza.type}]
        /\ d.data = c.data /\ d.connected = c.connected /\ d.sid = c.sid
        /\ d.authenticated = c.authenticated /\ d.status = c.status
    BY <2>1 DEF DeleteTimedHandler, FieldNames, Object
  <2> HIDE DEF d
  <2>3. /\ DOMAIN e = FieldNames /\ e.handlers = rest /\ e.addHandlers = c.addHandlers
        /\ e.requests = c.requests /\ DOMAIN e.iq = DOMAIN c.iq
        /\ e.data = c.data /\ e.connected = c.connected /\ e.sid = c.sid
        /\ e.authenticated = c.authenticated /\ e.status = c.status
    BY <2>2 DEF FieldNames
  <2> HIDE DEF e
  <2>4. QED
    BY <1>1, <1>4, <2>3 DEF Object, SameStream, SysWaiting
<1>5. QED
  BY <1>3, <1>4

LEMMA PlainStanza ==
    ASSUME NEW c, Object(c), NEW stanza, ~Negotiates(stanza)
    PROVE  LET e == HandleStanza(c, stanza)
           IN  Object(e) /\ SameStream(c, e) /\ e.requests = c.requests
<1>1. \A h : IsMatch(h, stanza) => h \notin SysHandlers
  BY DEF IsMatch, Negotiates
<1>2. QED
  BY <1>1, IqStanza

\* Handlers of the negotiation wait in a session only
Fit(c) == SysWaiting(c) => c.connected /\ c.sid

LEMMA StanzaSound ==
    ASSUME NEW c, Object(c), NEW w, Sound(c, w), Clean(w), Free(c), Fit(c), NEW stanza
    PROVE  LET e == HandleStanza(c, stanza)
           IN  Object(e) /\ Sound(e, w)
<1> DEFINE run(h) == IsMatch(h, stanza) /\ (c.authenticated \/ h \in SysHandlers)
           called == {h \in c.handlers : run(h)}
           rest == c.handlers \ called
           h == CHOOSE x \in called : TRUE
           b == [c EXCEPT !.handlers = {}]
           d == RunHandler(b, h, stanza.type)
           e == [d EXCEPT !.handlers = @ \cup rest]
<1>1. HandleStanza(c, stanza) = IF called = {} THEN c ELSE e
  BY DEF HandleStanza
<1>2. CASE called = {}
  BY <1>1, <1>2
<1>3. CASE called # {} /\ h \notin SysHandlers
  <2>1. HandleStanza(c, stanza) = e
    BY <1>1, <1>3
  <2>2. h \in c.handlers
    BY <1>3
  <2> HIDE DEF h
  <2>3. d = [DeleteTimedHandler(b, {h}) EXCEPT !.iq[h] = @ \cup {stanza.type}]
    BY <1>3 DEF RunHandler, IqHandler, SysHandlers
  <2>4. /\ DOMAIN d = FieldNames /\ d.handlers = {} /\ d.addHandlers = c.addHandlers
        /\ d.requests = c.requests /\ d.iq = [c.iq EXCEPT ![h] = @ \cup {stanza.type}]
        /\ d.data = c.data /\ d.connected = c.connected /\ d.sid = c.sid
        /\ d.authenticated = c.authenticated /\ d.status = c.status
    BY <2>3 DEF DeleteTimedHandler, FieldNames, Object
  <2> HIDE DEF d, called
  <2>5. Object(e) /\ SameStream(c, e) /\ e.requests = c.requests
    BY <2>4 DEF FieldNames, Object, SameStream, SysWaiting
  <2> HIDE DEF e
  <2>6. QED
    BY <2>1, <2>5, FewerSelf, SameServes, FollowsSound DEF Serves
<1>4. CASE called # {} /\ h \in SysHandlers
  <2>1. HandleStanza(c, stanza) = e
    BY <1>1, <1>4
  <2>2. h \in c.handlers /\ h \in SysHandlers
    BY <1>4
  <2> HIDE DEF h, called
  <2>3. SysWaiting(c) /\ c.connected /\ c.sid
    BY <2>2 DEF SysWaiting, Fit
  <2>4. Ready(c, w)
    BY <2>3 DEF Ready, Able, Sound
  <2>5. Object(b) /\ SameStream(c, b) /\ b.requests = c.requests
    BY DEF FieldNames, Object, SameStream, SysWaiting
  <2> HIDE DEF b
  <2>6. Ready(b, w)
    BY <2>4, <2>5, SameReady
  <2>7. Object(d) /\ Sound(d, w) /\ Able(d)
    BY <2>2, <2>6, SysHandlerSound DEF Negotiated
  <2> HIDE DEF d
  <2>8. /\ Object(e) /\ e.requests = d.requests /\ e.data = d.data
        /\ e.connected = d.connected /\ e.sid = d.sid /\ e.authenticated = d.authenticated
        /\ e.status = d.status
    BY <2>7 DEF FieldNames, Object
  <2> HIDE DEF e
  <2>9. Sound(e, w)
    BY <2>7, <2>8 DEF Sound, Able, Lost, Free
  <2>10. QED
    BY <2>1, <2>8, <2>9
<1>5. QED
  BY <1>2, <1>3, <1>4

-----------------------------------------------------------------------------
(* The stanzas of an answer                                                  *)

\* What is left of the items w once some of them were answered
Leaves(w, v) == IsSeq(v) /\ (Clean(w) => Clean(v)) /\ (Single(w) => Single(v))

\* The stanzas answer the first items of w, and v is left
Reads(stanzas, w, v) ==
    /\ Leaves(w, v)
    /\ Len(stanzas) \in 0..2
    /\ \A j \in 1..Len(stanzas) : j \in 1..Len(w) /\ stanzas[j] \in Replies(w[j])
    /\ Single(w) /\ (\E j \in 1..Len(stanzas) : w[j] \in Negotiation) => Clean(v)

LEMMA LeavesSound ==
    ASSUME NEW c, NEW w, Sound(c, w), NEW v, Leaves(w, v)
    PROVE  Sound(c, v)
BY DEF Sound, Leaves

LEMMA StanzasSound ==
    ASSUME NEW c, Object(c), NEW w, Sound(c, w), Fit(c),
           NEW stanzas, NEW v, Reads(stanzas, w, v)
    PROVE  LET e == HandleStanzas(c, stanzas)
           IN  Object(e) /\ Sound(e, v)
<1> DEFINE n == Len(stanzas)
           one == stanzas[1]
           two == stanzas[2]
           d == IF n > 0 THEN HandleStanza(c, one) ELSE c
           e == IF n > 1 THEN HandleStanza(d, two) ELSE d
<1>1. HandleStanzas(c, stanzas) = e
  BY DEF HandleStanzas
<1>2. /\ n \in 0..2 /\ Sound(c, v)
      /\ n > 0 => 1 \in 1..Len(w) /\ one \in Replies(w[1])
      /\ n > 1 => 2 \in 1..Len(w) /\ two \in Replies(w[2])
  <2>1. n \in 0..2
    BY DEF Reads
  <2>2. (n > 0 => 1 \in 1..n) /\ (n > 1 => 2 \in 1..n)
    BY <2>1
  <2>3. QED
    BY <2>1, <2>2, LeavesSound DEF Reads
<1>3. /\ n > 0 /\ w[1] \in Negotiation => ~Clean(w) /\ Clean(v)
      /\ n > 1 /\ w[2] \in Negotiation => ~Clean(w) /\ Clean(v)
      /\ n > 1 => ~(w[1] \in Negotiation /\ w[2] \in Negotiation)
  <2>1. (n > 0 => 1 \in 1..n) /\ (n > 1 => 2 \in 1..n /\ n > 0) /\ 1 # 2
    BY <1>2
  <2>2. Single(w)
    BY DEF Sound
  <2>3. n > 1 => ~(w[1] \in Negotiation /\ w[2] \in Negotiation)
    BY <1>2, <2>1, <2>2, Zenon DEF Single
  <2>4. QED
    BY <1>2, <2>1, <2>2, <2>3, Zenon DEF Clean, Reads
<1>4. ~Clean(w) => Free(c)
  BY DEF Sound
<1> HIDE DEF n, one, two
<1>5. /\ Object(d) /\ Sound(d, v)
      /\ ~(n > 0 /\ w[1] \in Negotiation) => Fit(d) /\ (Free(c) => Free(d))
  <2>1. CASE n > 0 /\ w[1] \in Negotiation
    BY <1>2, <1>3, <1>4, <2>1, StanzaSound
  <2>2. CASE n > 0 /\ w[1] \notin Negotiation
    <3>1. Object(d) /\ SameStream(c, d) /\ d.requests = c.requests
      BY <1>2, <2>2, PlainReplies, PlainStanza
    <3> HIDE DEF d
    <3>2. Sound(d, v)
      BY <1>2, <3>1, FewerSelf, SameServes, FollowsSound DEF Serves
    <3>3. QED
      BY <3>1, <3>2 DEF Fit, Free, SameStream
  <2>3. CASE ~(n > 0)
    BY <1>2, <2>3
  <2>4. QED
    BY <2>1, <2>2, <2>3
<1>6. n > 1 => n > 0
  BY <1>2
<1> HIDE DEF d
<1>7. Object(e) /\ Sound(e, v)
  <2>1. CASE n > 1 /\ w[2] \in Negotiation
    BY <1>3, <1>4, <1>5, <1>6, <2>1, StanzaSound
  <2>2. CASE n > 1 /\ w[2] \notin Negotiation
    <3>1. Object(e) /\ SameStream(d, e) /\ e.requests = d.requests
      BY <1>2, <1>5, <2>2, PlainReplies, PlainStanza
    <3> HIDE DEF e
    <3>2. QED
      BY <1>5, <3>1, FewerSelf, SameServes, FollowsSound DEF Serves
  <2>3. CASE ~(n > 1)
    BY <1>5, <2>3
  <2>4. QED
    BY <2>1, <2>2, <2>3
<1>8. QED
  BY <1>1, <1>7

-----------------------------------------------------------------------------
(* The callbacks of a request                                                *)

LEMMA UpdateSame ==
    ASSUME NEW c, Object(c)
    PROVE  LET d == UpdateHandlers(c)
           IN  Object(d) /\ SameStream(c, d) /\ d.requests = c.requests
<1> DEFINE d == UpdateHandlers(c)
<1>1. /\ DOMAIN d = FieldNames /\ d.requests = c.requests /\ d.iq = c.iq
      /\ d.handlers = (c.handlers \ c.removeHandlers) \cup c.addHandlers /\ d.addHandlers = {}
      /\ d.data = c.data /\ d.connected = c.connected /\ d.sid = c.sid
      /\ d.authenticated = c.authenticated /\ d.status = c.status
  BY DEF UpdateHandlers, Object, FieldNames
<1> HIDE DEF d
<1>2. QED
  BY <1>1 DEF Object, SameStream, SysWaiting, d

AnswerTypes == {"none", "empty", "parsererror", "terminate"}

LEMMA DataRecvSound ==
    ASSUME NEW c, Object(c), NEW w, Sound(c, w), NEW v, Leaves(w, v),
           NEW answer, answer.type \in AnswerTypes,
           answer.type = "none" => Fit(c) /\ Reads(answer.stanzas, w, v)
    PROVE  LET d == DataRecv(c, answer)
           IN  Object(d) /\ Sound(d, v)
<1> DEFINE b == IF answer.type = "parsererror" THEN Disconnect(c) ELSE c
           d == UpdateHandlers(b)
           failed == ChangeConnectStatus(d, "CONNFAIL")
<1>1. Object(b) /\ Sound(b, w) /\ (answer.type = "none" => b = c)
  BY DisconnectSound
<1> HIDE DEF b
<1>2. Object(d) /\ SameStream(b, d) /\ d.requests = b.requests
  BY <1>1, UpdateSame
<1>3. \/ DataRecv(c, answer) \in {c, DoDisconnect(d), d, Disconnect(failed)}
      \/ answer.type = "none" /\ DataRecv(c, answer) = HandleStanzas(d, answer.stanzas)
  <2> HIDE DEF failed
  <2>1. QED
    BY DEF DataRecv, failed, AnswerTypes, b
<1> HIDE DEF d
<1>4. Serves(b, d)
  BY <1>2, FewerSelf, SameServes
<1>5. Sound(d, w)
  BY <1>1, <1>4, FollowsSound DEF Serves
<1>6. Serves(d, failed)
  BY StatusServes DEF NotConnected, Status
<1>7. Object(failed) /\ Sound(failed, w)
  BY <1>2, <1>5, <1>6, FollowsSound DEF Serves
<1> HIDE DEF failed
<1>8. Object(Disconnect(failed)) /\ Sound(Disconnect(failed), w)
  BY <1>7, DisconnectSound
<1>9. Object(DoDisconnect(d)) /\ Sound(DoDisconnect(d), w)
  BY <1>2, <1>5, DoDisconnectFollows, FollowsSound
<1>10. answer.type = "none" => Fit(d)
  BY <1>1, <1>2 DEF Fit, SameStream
<1>11. CASE DataRecv(c, answer) \in {c, DoDisconnect(d), d, Disconnect(failed)}
  BY <1>2, <1>5, <1>8, <1>9, <1>11, LeavesSound
<1>12. CASE answer.type = "none" /\ DataRecv(c, answer) = HandleStanzas(d, answer.stanzas)
  BY <1>2, <1>5, <1>10, <1>12, StanzasSound
<1>13. QED
  BY <1>3, <1>11, <1>12

\* The first answer of a connection: nothing is under way
Opening(c, w) ==
    /\ Object(c) /\ Sound(c, w) /\ Clean(w) /\ Free(c)
    /\ NoConnect(c.requests) /\ ~SysWaiting(c) /\ c.status # "none"

LEMMA AuthenticateSound ==
    ASSUME NEW c, NEW w, Ready(c, w), NEW offer, NEW node
    PROVE  Negotiated(Authenticate(c, offer, node), w)
<1> DEFINE announced == ChangeConnectStatus(c, "AUTHENTICATING")
           failed == ChangeConnectStatus(c, "CONNFAIL")
           auth(hs, item) == Send(AddHandler(announced, hs), <<item>>)
<1>1. Object(announced) /\ SameStream(c, announced) /\ announced.requests = c.requests
  BY DEF Ready, ChangeConnectStatus, Object, FieldNames, SameStream, SysWaiting, NotConnected, Status
<1>2. Authenticate(c, offer, node) \in
        {auth({"success", "failure"}, "auth"), Disconnect(failed),
         auth({"challenge1", "failure"}, "authDigest"), auth({"auth1"}, "auth1")}
  BY DEF Authenticate
<1>3. Negotiated(failed, w)
  <2>1. Serves(c, failed)
    BY StatusServes DEF NotConnected, Status
  <2>2. QED
    BY <2>1, ServesNegotiated DEF Ready, Negotiated
<1> HIDE DEF announced, failed
<1>4. Ready(announced, w)
  BY <1>1, SameReady
<1>5. Negotiated(Disconnect(failed), w)
  BY <1>3, DisconnectSound DEF Negotiated
<1>6. QED
  BY <1>2, <1>4, <1>5, GoOnSound

LEMMA ConnectCbSound ==
    ASSUME NEW c, NEW w, Opening(c, w), NEW answer
    PROVE  LET d == ConnectCb(c, answer)
           IN  Object(d) /\ Sound(d, w)
<1> DEFINE d == [c EXCEPT !.connected = TRUE]
           e == [d EXCEPT !.sid = TRUE]
           push == PushRequest(e, <<>>, "connect")
           req == Request(<<>>, e.sid, "connect", e.rid, 0)
<1>1. /\ Object(d) /\ d.requests = c.requests /\ d.data = c.data /\ d.status = c.status
      /\ d.authenticated = c.authenticated /\ d.connected /\ d.sid = c.sid
      /\ d.handlers = c.handlers /\ d.addHandlers = c.addHandlers
  BY DEF Opening, Object, FieldNames
<1>2. ConnectCb(c, answer) \in {d, ChangeConnectStatus(d, "CONNFAIL"), ThrottledRequestHandler(push),
                                Authenticate(e, answer.offer, answer.node)}
  BY DEF ConnectCb
<1> HIDE DEF d
<1>3. Opening(d, w)
  BY <1>1 DEF Opening, Sound, Free, SysWaiting
<1>4. /\ Object(e) /\ e.requests = d.requests /\ e.data = d.data /\ e.status = d.status
      /\ e.authenticated = d.authenticated /\ e.connected = d.connected /\ e.sid
      /\ e.handlers = d.handlers /\ e.addHandlers = d.addHandlers
  BY <1>1 DEF Object, FieldNames
<1>5. /\ Object(push) /\ push.requests = Append(e.requests, req)
      /\ req.body = <<>> /\ req.sid = e.sid /\ req.func = "connect" /\ ~req.taken
      /\ push.data = e.data /\ push.connected = e.connected /\ push.sid = e.sid
      /\ push.authenticated = e.authenticated /\ push.status = e.status
      /\ SysWaiting(push) <=> SysWaiting(e)
  BY <1>4, PushFields
<1> HIDE DEF e, push, req
<1>6. Opening(e, w)
  BY <1>1, <1>3, <1>4 DEF Opening, Sound, Free, SysWaiting
<1>7. Ready(e, w)
  BY <1>1, <1>4, <1>6 DEF Opening, Ready, Able
<1>8. Object(Authenticate(e, answer.offer, answer.node)) /\ Sound(Authenticate(e, answer.offer, answer.node), w)
  BY <1>7, AuthenticateSound DEF Negotiated
<1>9. Object(ChangeConnectStatus(d, "CONNFAIL")) /\ Sound(ChangeConnectStatus(d, "CONNFAIL"), w)
  <2>1. Serves(d, ChangeConnectStatus(d, "CONNFAIL"))
    BY StatusServes DEF NotConnected, Status
  <2>2. QED
    BY <1>3, <2>1, FollowsSound DEF Serves, Opening
<1>10. Sound(push, w)
  <2>1. IsSeq(e.requests) /\ IsSeq(<<>>) /\ Clean(<<>>)
    BY <1>4, EmptyIsSeq, NoItems DEF Object, RequestsOK
  <2>2. /\ BodySeqs(e.requests) => BodySeqs(push.requests)
        /\ CleanBodies(e.requests) => CleanBodies(push.requests)
        /\ OneBody(e.requests) => OneBody(push.requests)
        /\ NoConnect(e.requests) => OneConnect(push.requests)
    BY <1>5, <2>1, AppendedRequest
  <2>3. QED
    BY <1>5, <1>6, <2>2 DEF Opening, Sound, Free
<1>11. Object(ThrottledRequestHandler(push)) /\ Sound(ThrottledRequestHandler(push), w)
  BY <1>5, <1>10, ThrottledServes, FollowsSound DEF Serves
<1>12. QED
  BY <1>2, <1>3, <1>8, <1>9, <1>11 DEF Opening

LEMMA CallbackSound ==
    ASSUME NEW c, Object(c), NEW w, Sound(c, w), NEW v, Leaves(w, v),
           NEW answer, answer.type \in AnswerTypes, NEW req,
           req.func = "connect" => Opening(c, w),
           req.func # "connect" /\ answer.type = "none" => Fit(c) /\ Reads(answer.stanzas, w, v)
    PROVE  LET d == Callback(c, req, answer)
           IN  Object(d) /\ Sound(d, v)
<1> DEFINE d == IF req.func = "connect" THEN ConnectCb(c, answer) ELSE DataRecv(c, answer)
           e == [d EXCEPT !.errors = 0]
<1>1. Object(d) /\ Sound(d, v)
  BY ConnectCbSound, DataRecvSound, LeavesSound
<1>2. Callback(c, req, answer) \in {d, e}
  BY DEF Callback
<1> HIDE DEF d
<1>3. Object(e) /\ SameStream(d, e) /\ e.requests = d.requests
  BY <1>1 DEF Object, FieldNames, SameStream, SysWaiting
<1> HIDE DEF e
<1>4. Serves(d, e)
  BY <1>3, FewerSelf, SameServes
<1>5. QED
  BY <1>1, <1>2, <1>4, FollowsSound DEF Serves

\* The request was answered and is removed
LEMMA AnsweredSound ==
    ASSUME NEW c, Object(c), NEW w, Sound(c, w), NEW i \in 1..Len(c.requests), i <= 2,
           NEW v, Leaves(w, v), NEW answer, answer.type \in AnswerTypes,
           c.requests[i].func # "connect" /\ answer.type = "none"
             => c.requests[i].sid /\ Reads(answer.stanzas, w, v)
    PROVE  LET d == OnRequestStateChange(c, i, "200", answer)
           IN  Object(d) /\ Sound(d, v)
<1> DEFINE req     == c.requests[i]
           left    == RemoveRequest(c, i)
           restart == i = 2 \/ (i = 1 /\ left.requests # <<>> /\ left.requests[1].age > 0)
           next    == IF restart THEN RestartRequest(left, 1) ELSE left
<1>1. OnRequestStateChange(c, i, "200", answer) =
        IF restart /\ left.requests = <<>> THEN left ELSE Callback(next, req, answer)
  BY DEF OnRequestStateChange
<1>2. /\ Serves(c, left)
      /\ req.func = "connect" => NoConnect(left.requests)
  BY RemoveServes DEF Sound
<1> HIDE DEF left
<1>3. Object(left) /\ Sound(left, v)
  BY <1>2, FollowsSound, LeavesSound DEF Serves
<1>4. ASSUME ~(restart /\ left.requests = <<>>)
      PROVE  Object(Callback(next, req, answer)) /\ Sound(Callback(next, req, answer), v)
  <2>1. Follows(c, next) /\ (NoConnect(left.requests) => NoConnect(next.requests))
    <3>1. restart => Serves(left, RestartRequest(left, 1))
      BY <1>4, RestartServes
    <3> HIDE DEF restart
    <3>2. QED
      BY <1>2, <1>3, <3>1, FollowsThen DEF Serves, Follows, Fewer
  <2> HIDE DEF restart, next
  <2>2. Object(next) /\ Sound(next, w)
    BY <2>1, FollowsSound
  <2>3. req.func = "connect" => Opening(next, w)
    <3>1. SUFFICES ASSUME req.func = "connect" PROVE Opening(next, w)
      OBVIOUS
    <3>2. ~NoConnect(c.requests)
      BY <3>1 DEF NoConnect
    <3>3. ~SysWaiting(c) /\ Free(c) /\ Clean(w) /\ NoConnect(next.requests)
      BY <1>2, <2>1, <3>1, <3>2 DEF Sound
    <3>4. c.status # "none"
      <4>1. Len(<<>>) = 0 /\ ~(i \in 1..0)
        BY EmptySeq
      <4>2. QED
        BY <4>1, Zenon DEF Sound
    <3>5. next.status # "none" /\ Free(next) /\ ~SysWaiting(next)
      BY <2>1, <3>3, <3>4 DEF Follows, Steady, Ended, NotConnected, Free, Fewer
    <3>6. QED
      BY <2>2, <3>3, <3>5 DEF Opening
  <2>4. req.func # "connect" /\ answer.type = "none" => Fit(next) /\ Reads(answer.stanzas, w, v)
    <3>1. SUFFICES ASSUME req.func # "connect", answer.type = "none"
                   PROVE  Fit(next) /\ Reads(answer.stanzas, w, v)
      OBVIOUS
    <3>2. req.sid /\ Reads(answer.stanzas, w, v)
      BY <3>1
    <3>3. ~Lost(c)
      BY <3>2 DEF Lost, NoSid
    <3>4. Fit(c)
      BY <3>3 DEF Fit, Sound
    <3>5. Fit(next)
      BY <2>1, <3>4 DEF Follows, Fit, Steady, Ended
    <3>6. QED
      BY <3>2, <3>5
  <2> HIDE DEF req
  <2>5. QED
    BY <2>2, <2>3, <2>4, CallbackSound
<1> HIDE DEF restart, next, req
<1>5. QED
  BY <1>1, <1>3, <1>4

LEMMA FailFollows ==
    ASSUME NEW c, NEW i \in 1..Len(c.requests), i <= 2, NEW status, status # "200", NEW answer
    PROVE  Follows(c, OnRequestStateChange(c, i, status, answer))
<1>1. SUFFICES ASSUME Object(c) PROVE Follows(c, OnRequestStateChange(c, i, status, answer))
  BY DEF Follows
<1> DEFINE req     == c.requests[i]
           state   == IF status = "4xx" THEN "refused" ELSE "failed"
           failed  == [c EXCEPT !.requests[i].state = state]
           removed == status \in {"200", "3xx", "4xx"} \/ req.sends > SendLimit
           left    == IF removed THEN RemoveRequest(c, i) ELSE failed
<1>2. Follows(c, failed)
  <2> DEFINE other == [c.requests[i] EXCEPT !.state = state]
  <2>1. DOMAIN other = RequestFields /\ SameRequest(c.requests[i], other)
    BY <1>1 DEF Object, RequestsOK, SameRequest, RequestFields
  <2>2. failed = [c EXCEPT !.requests = [c.requests EXCEPT ![i] = other]]
    OBVIOUS
  <2> HIDE DEF other, failed
  <2>3. /\ Apart(c, failed) /\ SameStream(c, failed)
        /\ failed.requests = [c.requests EXCEPT ![i] = other]
    BY <1>1, <2>2 DEF Apart, Object, FieldNames, SameStream, SysWaiting
  <2>4. RequestsOK(failed.requests)
    BY <1>1, <2>1, <2>3, PutRequest DEF Object
  <2>5. Fewer(c.requests, failed.requests)
    BY <1>1, <2>1, <2>3, FewerPut DEF Object, RequestsOK
  <2>6. Object(failed)
    BY <1>1, <2>3, <2>4 DEF Apart, Object
  <2>7. QED
    BY <2>3, <2>5, <2>6, SameServes DEF Serves
<1>3. Follows(c, RemoveRequest(c, i))
  BY <1>1, RemoveServes DEF Serves
<1>4. OnRequestStateChange(c, i, status, answer) \in
        {HitError(failed), DoDisconnect(ChangeConnectStatus(HitError(left), "DISCONNECTING")),
         left, HitError(left), ThrottledRequestHandler(HitError(left))}
  BY DEF OnRequestStateChange
<1> HIDE DEF failed, removed
<1>5. Follows(c, left)
  BY <1>2, <1>3
<1> HIDE DEF left
<1> DEFINE h == HitError(left)
           t == ChangeConnectStatus(h, "DISCONNECTING")
<1>6. Follows(c, HitError(failed)) /\ Follows(c, h)
  BY <1>2, <1>5, HitErrorServes, FollowsThen DEF Serves
<1>7. Follows(h, t) /\ Follows(t, DoDisconnect(t)) /\ Follows(h, ThrottledRequestHandler(h))
  BY StatusServes, DoDisconnectFollows, ThrottledServes DEF Serves, NotConnected, Status
<1>8. Follows(c, DoDisconnect(t)) /\ Follows(c, ThrottledRequestHandler(h))
  BY <1>6, <1>7, FollowsThen
<1>9. QED
  BY <1>4, <1>5, <1>6, <1>8

-----------------------------------------------------------------------------
(* The idle timer                                                            *)

LEMMA TimedServes ==
    ASSUME NEW c, NEW due, NEW early PROVE Serves(c, RunTimedHandlers(c, due, early))
<1>1. SUFFICES ASSUME Object(c) PROVE Serves(c, RunTimedHandlers(c, due, early))
  BY DEF Serves, Follows
<1> DEFINE timed  == Scheduled(c) \ c.removeTimeds
           active == IF c.authenticated THEN timed ELSE timed \cap {"disconnect"}
           over   == "disconnect" \in active \cap due
           seen   == IF over THEN active \cap early ELSE active
           none   == [c EXCEPT !.addTimeds = {}, !.removeTimeds = {}]
           ran    == IqTimeouts(none, seen \cap due)
           left   == IF over THEN OnDisconnectTimeout(ran) ELSE ran
           d      == [left EXCEPT !.timedHandlers = seen \ due]
<1>2. RunTimedHandlers(c, due, early) = d
  BY DEF RunTimedHandlers
<1> HIDE DEF over, seen
<1>3. Object(ran) /\ SameStream(c, ran) /\ ran.requests = c.requests
  <2> DEFINE b == DeleteHandler(none, seen \cap due)
  <2>1. /\ DOMAIN b = FieldNames /\ b.requests = c.requests /\ b.iq = c.iq
        /\ b.handlers = c.handlers /\ b.addHandlers = c.addHandlers
        /\ b.data = c.data /\ b.connected = c.connected /\ b.sid = c.sid
        /\ b.authenticated = c.authenticated /\ b.status = c.status
    BY <1>1 DEF DeleteHandler, Object, FieldNames
  <2>2. ran = [b EXCEPT !.iq = [q \in Iqs |-> IF q \in seen \cap due THEN b.iq[q] \cup {"timeout"} ELSE b.iq[q]]]
    BY DEF IqTimeouts
  <2> HIDE DEF b, ran
  <2>3. QED
    BY <1>1, <2>1, <2>2 DEF FieldNames, Object, SameStream, SysWaiting
<1> HIDE DEF ran
<1>4. Serves(c, ran) /\ Serves(ran, left)
  BY <1>3, FewerSelf, SameServes, OnDisconnectTimeoutServes, FollowsSelf
<1> HIDE DEF left
<1>5. Object(left) => Object(d) /\ SameStream(left, d) /\ d.requests = left.requests
  BY DEF Object, FieldNames, SameStream, SysWaiting
<1> HIDE DEF d
<1>6. Serves(left, d)
  BY <1>5, FewerSelf, SameServes
<1>7. QED
  BY <1>2, <1>4, <1>6, ServesThen

LEMMA CheckFirstServes == ASSUME NEW c PROVE Serves(c, CheckFirst(c))
<1> DEFINE d == ThrottledRequestHandler(c)
<1>1. CheckFirst(c) \in {c, d, ThrottledRequestHandler(d)}
  <2> HIDE DEF d
  <2>1. CheckFirst(c) \in {c, d, ThrottledRequestHandler(c), ThrottledRequestHandler(d)}
    BY DEF CheckFirst, d
  <2>2. QED
    BY <2>1 DEF d
<1>2. Serves(c, d) /\ Serves(d, ThrottledRequestHandler(d))
  BY ThrottledServes
<1> HIDE DEF d
<1>3. QED
  BY <1>1, <1>2, FollowsSelf, ServesThen

\* Rids are counted anew
LEMMA RebaseServes == ASSUME NEW c PROVE Serves(c, Rebase(c))
<1>1. SUFFICES ASSUME Object(c) PROVE Serves(c, Rebase(c))
  BY DEF Serves, Follows
<1>2. Object(Rebase(c))
  BY <1>1, RebaseTame DEF Tame
<1>3. CASE c.requests = <<>>
  <2> DEFINE d == [c EXCEPT !.rid = 0]
  <2>1. SameStream(c, d) /\ d.requests = c.requests
    BY <1>1 DEF Object, FieldNames, SameStream, SysWaiting
  <2>2. Rebase(c) = d
    BY <1>3 DEF Rebase
  <2> HIDE DEF d
  <2>3. QED
    BY <1>2, <2>1, <2>2, FewerSelf, SameServes
<1>4. CASE c.requests # <<>>
  <2> DEFINE first == c.requests[1].rid
             s == c.requests
             t == [i \in DOMAIN s |-> [s[i] EXCEPT !.rid = @ - first]]
             d == [c EXCEPT !.rid = @ - first, !.requests = t]
  <2>1. Rebase(c) = d
    BY <1>4 DEF Rebase
  <2>2. \A i \in 1..Len(s) : i \in DOMAIN s /\ DOMAIN s[i] = RequestFields
    BY <1>1, SeqFacts DEF Object, RequestsOK
  <2> HIDE DEF first
  <2>3. ASSUME NEW i \in 1..Len(s)
        PROVE  DOMAIN t[i] = RequestFields /\ t[i].state = s[i].state /\ SameRequest(s[i], t[i])
    BY <2>2 DEF RequestFields, SameRequest
  <2>4. RequestsOK(s) /\ t = [i \in DOMAIN s |-> t[i]]
    BY <1>1 DEF Object
  <2>5. SameStream(c, d) /\ d.requests = t
    BY <1>1 DEF Object, FieldNames, SameStream, SysWaiting
  <2> HIDE DEF d, s, t
  <2>6. RequestsOK(t) /\ Len(t) = Len(s)
    BY <2>3, <2>4, MapRequests
  <2>7. Fewer(s, t)
    BY <2>3, <2>4, <2>6, FewerSame DEF RequestsOK
  <2>8. QED
    BY <1>2, <2>1, <2>5, <2>7, SameServes DEF s
<1>5. QED
  BY <1>3, <1>4

-----------------------------------------------------------------------------
(* Some of a sequence's items.  Without is a recursive function: that there  *)
(* is one, and what its values keep, is shown by induction over the natural  *)
(* numbers, of a set of them.                                                *)

LEMMA SetInduction ==
    ASSUME NEW T \in SUBSET Nat, 0 \in T, \A n \in T : n + 1 \in T
    PROVE  T = Nat
<1> DEFINE R == OpToRel(<, Nat)
           others == Nat \ T
<1>1. IsWellFoundedOn(R, Nat)
  BY NatLessThanWellFounded
<1>2. \A i, j \in Nat : i < j => <<i, j>> \in R
  BY DEF OpToRel
<1>3. SUFFICES ASSUME others # {} PROVE FALSE
  OBVIOUS
<1>4. others \subseteq Nat
  OBVIOUS
<1> HIDE DEF R, others
<1>5. PICK x \in others : \A y \in others : ~(<<y, x>> \in R)
  BY <1>1, <1>3, <1>4, WFMin
<1>6. x \in Nat /\ x # 0 /\ x - 1 \in Nat /\ x - 1 < x /\ x - 1 + 1 = x
  BY <1>4 DEF others
<1>7. x - 1 \notin others
  BY <1>2, <1>5, <1>6
<1>8. QED
  BY <1>6, <1>7 DEF others

\* kept is the recursive function of Without up to n
Keeping(items, dropped, n, kept) ==
    kept = [k \in 0..n |->
        IF k = 0 THEN <<>>
        ELSE IF items[k] \in dropped THEN kept[k - 1] ELSE Append(kept[k - 1], items[k])]

LEMMA KeepingExists ==
    ASSUME NEW items, NEW dropped, NEW n \in Nat
    PROVE  \E kept : Keeping(items, dropped, n, kept)
<1> DEFINE T == {m \in Nat : \E kept : Keeping(items, dropped, m, kept)}
<1>1. 0 \in T
  <2> DEFINE f == [k \in 0..0 |-> <<>>]
  <2>1. Keeping(items, dropped, 0, f)
    BY DEF Keeping
  <2>2. QED
    BY <2>1
<1>2. ASSUME NEW m \in T PROVE m + 1 \in T
  <2>1. PICK f : Keeping(items, dropped, m, f)
    OBVIOUS
  <2>2. m \in Nat
    OBVIOUS
  <2> DEFINE last == IF items[m + 1] \in dropped THEN f[m] ELSE Append(f[m], items[m + 1])
             g == [k \in 0..m + 1 |-> IF k = m + 1 THEN last ELSE f[k]]
             h == [k \in 0..m + 1 |->
                     IF k = 0 THEN <<>>
                     ELSE IF items[k] \in dropped THEN g[k - 1] ELSE Append(g[k - 1], items[k])]
  <2>3. \A k \in 0..m : f[k] = IF k = 0 THEN <<>>
                               ELSE IF items[k] \in dropped THEN f[k - 1] ELSE Append(f[k - 1], items[k])
    BY <2>1 DEF Keeping
  <2>4. \A k \in 0..m : g[k] = f[k]
    BY <2>2
  <2>5. g[m + 1] = last
    BY <2>2
  <2>6. ASSUME NEW k \in 0..m + 1 PROVE h[k] = g[k]
    <3>1. h[k] = IF k = 0 THEN <<>>
                 ELSE IF items[k] \in dropped THEN g[k - 1] ELSE Append(g[k - 1], items[k])
      OBVIOUS
    <3> HIDE DEF g, h, last
    <3>2. CASE k \in 0..m
      <4>1. k # 0 => g[k - 1] = f[k - 1]
        BY <2>2, <2>4, <3>2
      <4>2. g[k] = f[k]
        BY <2>4, <3>2
      <4>3. QED
        BY <2>3, <3>1, <3>2, <4>1, <4>2
    <3>3. CASE k = m + 1
      <4>1. g[k - 1] = f[m] /\ k # 0
        BY <2>2, <2>4, <3>3
      <4>2. g[k] = last
        BY <2>5, <3>3
      <4>3. QED
        BY <3>1, <3>3, <4>1, <4>2 DEF last
    <3>4. QED
      BY <2>2, <3>2, <3>3
  <2>7. h = g
    <3>1. DOMAIN h = 0..m + 1 /\ DOMAIN g = 0..m + 1 /\ h = [k \in 0..m + 1 |-> h[k]] /\ g = [k \in 0..m + 1 |-> g[k]]
      OBVIOUS
    <3> HIDE DEF g, h
    <3>2. QED
      BY <2>6, <3>1
  <2>8. Keeping(items, dropped, m + 1, g)
    <3> HIDE DEF g
    <3>1. QED
      BY <2>7 DEF Keeping
  <2>9. QED
    BY <2>2, <2>8
<1> HIDE DEF T
<1>3. T \in SUBSET Nat
  BY DEF T
<1>4. T = Nat
  BY <1>1, <1>2, <1>3, SetInduction
<1>5. QED
  BY <1>4 DEF T

LEMMA AppendClean ==
    ASSUME NEW s, IsSeq(s), NEW x
    PROVE  /\ IsSeq(Append(s, x))
           /\ Clean(s) /\ x \notin Negotiation => Clean(Append(s, x))
           /\ Single(s) /\ x \notin Negotiation => Single(Append(s, x))
           /\ Clean(s) => Single(Append(s, x))
<1> DEFINE t == Append(s, x)
           n == Len(s)
<1>1. /\ IsSeq(t) /\ Len(t) = n + 1 /\ n \in Nat /\ t[n + 1] = x
      /\ \A i \in 1..n : t[i] = s[i]
  BY AppendSeq, SeqFacts
<1> HIDE DEF t
<1>2. \A i \in 1..n + 1 : i \in 1..n \/ i = n + 1
  BY <1>1
<1> HIDE DEF n
<1>3. Clean(s) /\ x \notin Negotiation => Clean(t)
  BY <1>1, <1>2 DEF Clean, n
<1>4. Single(s) /\ x \notin Negotiation => Single(t)
  BY <1>1, <1>2 DEF Single, n
<1>5. Clean(s) => Single(t)
  BY <1>1, <1>2 DEF Clean, Single, n
<1>6. QED
  BY <1>1, <1>3, <1>4, <1>5 DEF t

\* What is dropped from items adds nothing of the negotiation
LEMMA WithoutLeaves ==
    ASSUME NEW items, IsSeq(items), NEW dropped
    PROVE  Leaves(items, Without(items, dropped))
<1> DEFINE n == Len(items)
           kept == CHOOSE f : Keeping(items, dropped, n, f)
           CleanTo(k) == \A a \in 1..k : items[a] \notin Negotiation
           SingleTo(k) == \A a, b \in 1..k : items[a] \in Negotiation /\ items[b] \in Negotiation => a = b
           T == {k \in Nat : k <= n => /\ IsSeq(kept[k])
                                       /\ CleanTo(k) => Clean(kept[k])
                                       /\ SingleTo(k) => Single(kept[k])}
<1>1. n \in Nat
  BY SeqFacts
<1>2. Without(items, dropped) = kept[n]
  BY Zenon DEF Without, Keeping
<1>3. Keeping(items, dropped, n, kept)
  BY <1>1, KeepingExists
<1> HIDE DEF kept
<1>4. \A k \in 0..n : kept[k] = IF k = 0 THEN <<>>
                                ELSE IF items[k] \in dropped THEN kept[k - 1] ELSE Append(kept[k - 1], items[k])
  BY <1>3 DEF Keeping
<1>5. 0 \in T
  <2>1. kept[0] = <<>>
    BY <1>1, <1>4
  <2>2. QED
    BY <2>1, EmptyIsSeq, NoItems
<1>6. ASSUME NEW k \in T PROVE k + 1 \in T
  <2>1. SUFFICES ASSUME k + 1 <= n
                 PROVE  /\ IsSeq(kept[k + 1])
                        /\ CleanTo(k + 1) => Clean(kept[k + 1])
                        /\ SingleTo(k + 1) => Single(kept[k + 1])
    OBVIOUS
  <2>2. /\ k \in Nat /\ k <= n /\ k + 1 \in 0..n /\ k + 1 # 0 /\ k + 1 - 1 = k
        /\ k + 1 \in 1..k + 1 /\ \A a \in 1..k : a \in 1..k + 1 /\ a # k + 1
    BY <1>1, <2>1
  <2>3. IsSeq(kept[k]) /\ (CleanTo(k) => Clean(kept[k])) /\ (SingleTo(k) => Single(kept[k]))
    BY <2>2
  <2>4. kept[k + 1] = IF items[k + 1] \in dropped THEN kept[k] ELSE Append(kept[k], items[k + 1])
    BY <1>4, <2>2
  <2>5. CleanTo(k + 1) => CleanTo(k) /\ items[k + 1] \notin Negotiation
    BY <2>2
  <2>6. SingleTo(k + 1) => SingleTo(k) /\ (items[k + 1] \in Negotiation => CleanTo(k))
    BY <2>2
  <2> HIDE DEF T, CleanTo, SingleTo
  <2>7. QED
    BY <2>3, <2>4, <2>5, <2>6, AppendClean
<1> HIDE DEF T
<1>7. T \in SUBSET Nat
  BY DEF T
<1>8. T = Nat
  BY <1>5, <1>6, <1>7, SetInduction
<1>9. IsSeq(kept[n]) /\ (CleanTo(n) => Clean(kept[n])) /\ (SingleTo(n) => Single(kept[n]))
  BY <1>1, <1>8 DEF T
<1>10. QED
  BY <1>2, <1>9 DEF Leaves, Clean, Single

-----------------------------------------------------------------------------
(* The data of the page and of its requests                                  *)

LEMMA SendQueuedSound ==
    ASSUME NEW c, Object(c), NEW w, Sound(c, w)
    PROVE  LET d == SendQueued(c)
           IN  Object(d) /\ Sound(d, w)
<1> DEFINE poll == /\ c.authenticated /\ ~c.disconnecting
                   /\ c.requests = <<>> /\ c.data = <<>>
           d    == IF poll THEN [c EXCEPT !.data = <<"blank">>] ELSE c
           none == [d EXCEPT !.data = <<>>]
           body == Without(d.data, {"blank"})
           e    == PushRequest(none, body, "data")
<1>1. SendQueued(c) = IF Len(d.requests) < 2 /\ d.data # <<>> /\ ~d.paused
                        THEN ProcessRequest(e, Len(e.requests)) ELSE d
  BY DEF SendQueued
<1>2. /\ Object(d) /\ d.requests = c.requests /\ d.status = c.status
      /\ d.connected = c.connected /\ d.sid = c.sid /\ d.authenticated = c.authenticated
      /\ SysWaiting(d) <=> SysWaiting(c)
      /\ d.data = c.data \/ (d.data = <<"blank">> /\ c.authenticated)
  BY DEF Object, FieldNames, SysWaiting
<1>3. IsSeq(<<"blank">>) /\ Clean(<<"blank">>) /\ Single(<<"blank">>)
  BY OneItem, OneItemSingle DEF Negotiation, SysHandlers
<1> HIDE DEF d
<1>4. Sound(d, w)
  BY <1>2, <1>3 DEF Sound, Free, Lost
<1>5. ASSUME Len(d.requests) < 2, d.data # <<>>
      PROVE  LET p == ProcessRequest(e, Len(e.requests)) IN Object(p) /\ Sound(p, w)
  <2>1. d.status # "none"
    BY <1>4, <1>5 DEF Sound
  <2>2. IsSeq(body) /\ Single(body) /\ (Clean(d.data) => Clean(body))
    BY <1>4, WithoutLeaves DEF Sound, Leaves
  <2> HIDE DEF body
  <2>3. /\ Object(none) /\ none.requests = d.requests /\ none.status = d.status
        /\ none.connected = d.connected /\ none.sid = d.sid /\ none.authenticated = d.authenticated
        /\ SysWaiting(none) <=> SysWaiting(d)
        /\ none.data = <<>>
    BY <1>2 DEF Object, FieldNames, SysWaiting
  <2> HIDE DEF none
  <2>4. Object(e) /\ Sound(e, w)
    BY <1>4, <2>1, <2>2, <2>3, PushSound
  <2>5. Len(e.requests) = Len(d.requests) + 1 /\ Len(d.requests) \in Nat
    BY <1>2, <2>3, PushTame, SeqFacts DEF Object, RequestsOK
  <2> HIDE DEF e
  <2>6. Serves(e, ProcessRequest(e, Len(e.requests)))
    BY <1>5, <2>5, ProcessServes
  <2>7. QED
    BY <2>4, <2>6, FollowsSound DEF Serves
<1> HIDE DEF e
<1>6. QED
  BY <1>1, <1>2, <1>4, <1>5

LEMMA OnIdleSound ==
    ASSUME NEW c, Object(c), NEW w, Sound(c, w), NEW due, NEW early
    PROVE  LET d == OnIdle(c, due, early)
           IN  Object(d) /\ Sound(d, w)
<1> DEFINE r == RunTimedHandlers(c, due, early)
           s == SendQueued(r)
           d == CheckFirst(s)
           e == [d EXCEPT !.idle = d.connected]
<1>1. Serves(c, r) /\ Serves(s, d)
  BY TimedServes, CheckFirstServes
<1>2. OnIdle(c, due, early) = e
  BY DEF OnIdle
<1> HIDE DEF r
<1>3. Object(r) /\ Sound(r, w)
  BY <1>1, FollowsSound DEF Serves
<1>4. Object(s) /\ Sound(s, w)
  BY <1>3, SendQueuedSound
<1> HIDE DEF s, d
<1>5. Object(d) /\ Sound(d, w)
  BY <1>1, <1>4, FollowsSound DEF Serves
<1>6. Object(e) /\ SameStream(d, e) /\ e.requests = d.requests
  BY <1>5 DEF Object, FieldNames, SameStream, SysWaiting
<1> HIDE DEF e
<1>7. QED
  BY <1>2, <1>5, <1>6, FewerSelf, SameServes, FollowsSound DEF Serves

-----------------------------------------------------------------------------
(* The server                                                                *)

LEMMA FlattenTwo ==
    ASSUME NEW s, NEW i \in {1, 2}, s = [j \in 1..i |-> s[j]]
    PROVE  FlattenSeq(s) = IF i = 1 THEN s[1] ELSE s[1] \o s[2]
<1> DEFINE flatten == CHOOSE f : f = [j \in 1..Len(s) |-> IF j = 1 THEN s[j] ELSE f[j - 1] \o s[j]]
           g == [j \in 1..i |-> IF j = 1 THEN s[1] ELSE s[1] \o s[2]]
<1>1. Len(s) = i /\ Len(s) # 0
  <2>1. i \in Nat /\ i # 0 /\ s \in [1..i -> {s[j] : j \in 1..i}]
    OBVIOUS
  <2>2. s \in Seq({s[j] : j \in 1..i})
    BY <2>1, SeqDef
  <2>3. DOMAIN s = 1..i
    OBVIOUS
  <2>4. QED
    BY <2>1, <2>2, <2>3, LenProperties
<1>2. FlattenSeq(s) = flatten[Len(s)]
  BY <1>1, Zenon DEF FlattenSeq
<1>3. \A j \in 1..i : g[j] = IF j = 1 THEN s[j] ELSE g[j - 1] \o s[j]
  <2>1. \A j \in 1..i : g[j] = IF j = 1 THEN s[1] ELSE s[1] \o s[2]
    OBVIOUS
  <2>2. \A j \in 1..i : j # 1 => j = 2 /\ j - 1 = 1 /\ 1 \in 1..i
    OBVIOUS
  <2> HIDE DEF g
  <2>3. QED
    BY <2>1, <2>2
<1>4. g = [j \in 1..i |-> g[j]]
  OBVIOUS
<1> HIDE DEF g
<1>5. g = [j \in 1..i |-> IF j = 1 THEN s[j] ELSE g[j - 1] \o s[j]]
  BY <1>3, <1>4
<1>6. flatten = [j \in 1..i |-> IF j = 1 THEN s[j] ELSE flatten[j - 1] \o s[j]]
  BY <1>1, <1>5
<1> HIDE DEF flatten
<1>7. \A j \in 1..i : flatten[j] = IF j = 1 THEN s[j] ELSE flatten[j - 1] \o s[j]
  BY <1>6, Zenon
<1>8. flatten[i] = IF i = 1 THEN s[1] ELSE s[1] \o s[2]
  <2>1. 1 \in 1..i /\ (i # 1 => i = 2 /\ 2 \in 1..i /\ 2 - 1 = 1 /\ 2 # 1)
    OBVIOUS
  <2>2. QED
    BY <1>7, <2>1
<1>9. QED
  BY <1>1, <1>2, <1>8

\* The bodies the server reads, one after the other
LEMMA ReadBodies ==
    ASSUME Object(conn), NEW w, Sound(conn, w), NEW i \in 1..Len(conn.requests), i <= 2
    PROVE  LET req(j) == Body(conn.requests[j])
               all == FlattenSeq([j \in 1..i |-> IF conn.requests[j].taken
                                                 THEN <<>> ELSE conn.requests[j].body])
           IN  /\ IsSeq(all) /\ Single(all)
               /\ Clean(all) <=> \A j \in 1..i : Clean(req(j))
<1> DEFINE s == [j \in 1..i |-> Body(conn.requests[j])]
           all == FlattenSeq(s)
<1>1. i \in {1, 2} /\ \A j \in 1..i : j \in 1..Len(conn.requests)
  <2>1. Len(conn.requests) \in Nat
    BY SeqFacts DEF Object, RequestsOK
  <2>2. QED
    BY <2>1
<1>2. all = IF i = 1 THEN s[1] ELSE s[1] \o s[2]
  <2>1. s = [j \in 1..i |-> s[j]]
    OBVIOUS
  <2> HIDE DEF s
  <2>2. QED
    BY <1>1, <2>1, FlattenTwo
<1>3. \A j \in 1..i : s[j] = Body(conn.requests[j])
  OBVIOUS
<1> HIDE DEF s
<1>4. \A j \in 1..i : IsSeq(s[j]) /\ Single(s[j])
  BY <1>1, <1>3, EmptyIsSeq DEF Sound, OneBody, BodySeqs, Body
<1>5. /\ 1 \in 1..i /\ (i # 1 => 2 \in 1..i /\ 1 # 2)
      /\ i = 1 => \A j \in 1..i : j = 1
      /\ i # 1 => \A j \in 1..i : j = 1 \/ j = 2
  BY <1>1
<1>6. i # 1 => Clean(s[1]) \/ Clean(s[2])
  <2>1. i # 1 => /\ 1 \in 1..Len(conn.requests) /\ 2 \in 1..Len(conn.requests) /\ 1 # 2
                 /\ s[1] = Body(conn.requests[1]) /\ s[2] = Body(conn.requests[2])
    BY <1>1, <1>3, <1>5
  <2>2. QED
    BY <2>1 DEF Sound, OneBody
<1>7. IsSeq(all) /\ Single(all) /\ (Clean(all) <=> \A j \in 1..i : Clean(s[j]))
  <2>1. CASE i = 1
    BY <1>2, <1>4, <1>5, <2>1
  <2>2. CASE i # 1
    <3>1. all = s[1] \o s[2] /\ IsSeq(s[1]) /\ IsSeq(s[2]) /\ Single(s[1]) /\ Single(s[2])
      BY <1>2, <1>4, <1>5, <2>2
    <3> HIDE DEF all
    <3>2. IsSeq(all) /\ Single(all) /\ (Clean(all) <=> Clean(s[1]) /\ Clean(s[2]))
      BY <1>6, <2>2, <3>1, ConcatSeq, ConcatClean
    <3>3. QED
      BY <1>5, <2>2, <3>2
  <2>3. QED
    BY <2>1, <2>2
<1>8. s = [j \in 1..i |-> IF conn.requests[j].taken THEN <<>> ELSE conn.requests[j].body]
  BY DEF s, Body
<1> HIDE DEF all
<1>9. QED
  BY <1>3, <1>7, <1>8 DEF all

\* What is read moves from the requests to what the server owes
LEMMA TakenSound ==
    ASSUME Object(conn), Sound(conn, owed), NEW i \in 1..Len(conn.requests), i <= 2
    PROVE  /\ Object(Taken(i)) /\ Sound(Taken(i), Read(i))
           /\ i \in 1..Len(Taken(i).requests)
           /\ Taken(i).requests[i].func = conn.requests[i].func
           /\ Taken(i).requests[i].sid = conn.requests[i].sid
<1> DEFINE s == conn.requests
           t == [j \in DOMAIN s |-> IF j <= i THEN [s[j] EXCEPT !.taken = TRUE] ELSE s[j]]
           d == [conn EXCEPT !.requests = t]
           all == FlattenSeq([j \in 1..i |-> IF s[j].taken THEN <<>> ELSE s[j].body])
           more == Without(all, Unanswered)
           w == owed \o more
<1>1. Taken(i) = d /\ Read(i) = w
  BY DEF Taken, Read
<1>2. Object(d) /\ Len(d.requests) = Len(s)
  BY <1>1, TakenTame DEF Tame
<1>3. SameStream(conn, d) /\ d.requests = t /\ d.status = conn.status /\ (SysWaiting(d) <=> SysWaiting(conn))
  BY DEF Object, FieldNames, SameStream, SysWaiting
<1>4. \A j \in 1..Len(s) : j \in DOMAIN s /\ DOMAIN s[j] = RequestFields
  BY SeqFacts DEF Object, RequestsOK
<1>5. ASSUME NEW j \in 1..Len(s)
      PROVE  /\ t[j].sid = s[j].sid /\ t[j].func = s[j].func /\ t[j].body = s[j].body
             /\ t[j].taken = s[j].taken \/ t[j].taken
             /\ j <= i => Body(t[j]) = <<>>
             /\ ~(j <= i) => t[j] = s[j]
  BY <1>4 DEF RequestFields, Body
<1>6. /\ IsSeq(all) /\ Single(all)
      /\ Clean(all) <=> \A j \in 1..i : Clean(Body(s[j]))
  BY ReadBodies
<1> HIDE DEF all
<1>7. IsSeq(more) /\ Single(more) /\ (Clean(all) => Clean(more))
  BY <1>6, WithoutLeaves DEF Leaves
<1> HIDE DEF more
<1>8. \A j \in 1..i : j \in 1..Len(s) /\ j <= i
  BY <1>2, SeqFacts DEF Object, RequestsOK
<1> HIDE DEF d, t
<1>9. Fewer(s, t)
  <2> DEFINE place == [j \in 1..Len(t) |-> j]
  <2>1. place \in [1..Len(t) -> 1..Len(s)] /\ \A j \in 1..Len(t) : place[j] = j
    BY <1>2, <1>3
  <2>2. s # <<>>
    <3>1. Len(<<>>) = 0 /\ ~(i \in 1..0)
      BY EmptySeq
    <3>2. QED
      BY <3>1, Zenon
  <2> HIDE DEF place
  <2>3. \A j \in 1..Len(t) : j \in 1..Len(s)
    BY <1>2, <1>3
  <2> HIDE DEF s
  <2>4. QED
    BY <1>5, <2>1, <2>2, <2>3, FewerPlaces
<1>10. /\ IsSeq(w) /\ Single(w)
       /\ Clean(w) <=> Clean(owed) /\ Clean(more)
  <2>1. IsSeq(owed) /\ Single(owed)
    BY DEF Sound
  <2>2. Clean(owed) \/ Clean(more)
    <3>1. CleanBodies(s) => Clean(all)
      BY <1>6, <1>8, Zenon DEF CleanBodies
    <3>2. QED
      BY <1>7, <3>1 DEF Sound, Free
  <2>3. QED
    BY <1>7, <2>1, <2>2, ConcatSeq, ConcatClean
<1> HIDE DEF w
\* What is read of the negotiation was all there was of it
<1>11. ~Clean(more) => CleanBodies(t) /\ Clean(conn.data)
  <2>1. SUFFICES ASSUME ~Clean(more) PROVE CleanBodies(t) /\ Clean(conn.data)
    OBVIOUS
  <2>2. PICK j \in 1..i : ~Clean(Body(s[j]))
    BY <1>6, <1>7, <2>1
  <2>3. j \in 1..Len(s) /\ j <= i
    BY <1>8
  <2>4. \A k \in 1..Len(s) : k # j => Clean(Body(s[k]))
    BY <2>2, <2>3 DEF Sound, OneBody
  <2>5. ASSUME NEW k \in 1..Len(s) PROVE Clean(Body(t[k]))
    BY <1>5, <2>3, <2>4, NoItems
  <2>6. CleanBodies(t)
    BY <1>2, <1>3, <2>5 DEF CleanBodies
  <2>7. Clean(conn.data)
    BY <2>2, <2>3 DEF Sound, CleanBodies
  <2>8. QED
    BY <2>6, <2>7
<1>12. Free(conn) => Clean(more) /\ Free(d)
  <2>1. CleanBodies(s) => Clean(all)
    BY <1>6, <1>8, Zenon DEF CleanBodies
  <2>2. QED
    BY <1>3, <1>7, <1>9, <2>1 DEF Free, Fewer, SameStream
<1>13. Free(d) \/ Clean(w)
  BY <1>3, <1>10, <1>11, <1>12 DEF Sound, Free, SameStream
<1>14. NoConnect(d.requests) <=> NoConnect(s)
  BY <1>2, <1>3, <1>5 DEF NoConnect
<1>15. conn.status # "none"
  <2>1. Len(<<>>) = 0 /\ ~(i \in 1..0)
    BY EmptySeq
  <2>2. QED
    BY <2>1, Zenon DEF Sound
<1>16. Sound(d, w)
  <2>1. /\ d.status = "CONNECTED" => d.connected /\ d.authenticated /\ d.sid
        /\ IsSeq(w) /\ Single(w) /\ IsSeq(d.data) /\ Single(d.data)
        /\ d.status # "none"
    BY <1>3, <1>10, <1>15 DEF Sound, SameStream
  <2>2. /\ BodySeqs(d.requests) /\ OneBody(d.requests) /\ OneConnect(d.requests)
        /\ CleanBodies(d.requests) \/ Clean(d.data)
    BY <1>3, <1>9 DEF Sound, SameStream, Fewer
  <2>3. SysWaiting(d) => (d.connected /\ d.sid) \/ Lost(d)
    BY <1>3, <1>9 DEF Sound, SameStream, Fewer, Lost
  <2>4. ~NoConnect(d.requests) => ~SysWaiting(d) /\ Free(d) /\ Clean(w)
    BY <1>3, <1>10, <1>12, <1>14 DEF Sound
  <2>5. QED
    BY <1>13, <2>1, <2>2, <2>3, <2>4 DEF Sound
<1>17. QED
  BY <1>1, <1>2, <1>3, <1>5, <1>16

\* What is left once the first k items are answered
LEMMA RestReads ==
    ASSUME NEW w, IsSeq(w), NEW k \in 0..2, k <= Len(w),
           NEW stanzas, stanzas = [j \in 1..k |-> stanzas[j]],
           \A j \in 1..k : stanzas[j] \in Replies(w[j])
    PROVE  Reads(stanzas, w, SubSeq(w, k + 1, Len(w)))
<1> DEFINE n == Len(w)
           v == SubSeq(w, k + 1, n)
<1>1. n \in Nat /\ k \in Nat /\ DOMAIN w = 1..n
  BY SeqFacts
<1>2. IsSeq(v) /\ Len(v) = n - k /\ \A j \in 1..n - k : v[j] = w[k + j]
  <2>1. PICK S : w \in Seq(S)
    BY DEF IsSeq
  <2>2. k + 1 \in Int /\ n \in Int /\ \A j \in k + 1..n : w[j] \in S
    BY <1>1, <2>1, ElementOfSeq
  <2>3. /\ v \in Seq(S) /\ Len(v) = IF k + 1 <= n THEN n - (k + 1) + 1 ELSE 0
        /\ \A j \in 1..n - (k + 1) + 1 : v[j] = w[k + 1 + j - 1]
    BY <2>2, SubSeqProperties
  <2> HIDE DEF v, n
  <2>4. IsSeq(v)
    BY <2>3 DEF IsSeq
  <2>5. n - (k + 1) + 1 = n - k /\ Len(v) = n - k
    BY <1>1, <2>3
  <2>6. \A j \in 1..n - k : k + 1 + j - 1 = k + j
    BY <1>1
  <2>7. QED
    BY <2>3, <2>4, <2>5, <2>6
<1>3. stanzas \in Seq({stanzas[j] : j \in 1..k}) /\ Len(stanzas) = k
  <2>1. stanzas \in [1..k -> {stanzas[j] : j \in 1..k}] /\ DOMAIN stanzas = 1..k
    OBVIOUS
  <2>2. stanzas \in Seq({stanzas[j] : j \in 1..k})
    BY <1>1, <2>1, SeqDef
  <2>3. QED
    BY <1>1, <2>1, <2>2, LenProperties
<1>4. \A j \in 1..n - k : k + j \in 1..n
  BY <1>1
<1>5. \A j \in 1..k : j \in 1..n /\ \A l \in 1..n - k : j # k + l
  BY <1>1
<1>6. \A j, l \in 1..n - k : k + j = k + l => j = l
  BY <1>1
<1> HIDE DEF v
<1>7. Clean(w) => Clean(v)
  <2>1. SUFFICES ASSUME Clean(w), NEW j \in 1..n - k PROVE v[j] \notin Negotiation
    BY <1>2 DEF Clean
  <2>2. QED
    BY <1>2, <1>4, <2>1 DEF Clean
<1>8. Single(w) => Single(v)
  <2>1. SUFFICES ASSUME Single(w), NEW j \in 1..n - k, NEW l \in 1..n - k,
                        v[j] \in Negotiation, v[l] \in Negotiation
                 PROVE  j = l
    BY <1>2 DEF Single
  <2>2. k + j = k + l
    BY <1>2, <1>4, <2>1 DEF Single
  <2>3. QED
    BY <1>6, <2>2
<1>9. Single(w) /\ (\E j \in 1..k : w[j] \in Negotiation) => Clean(v)
  <2>1. SUFFICES ASSUME Single(w), NEW j \in 1..k, w[j] \in Negotiation,
                        NEW l \in 1..n - k
                 PROVE  v[l] \notin Negotiation
    BY <1>2 DEF Clean
  <2>2. j \in 1..n /\ k + l \in 1..n /\ j # k + l /\ v[l] = w[k + l]
    BY <1>2, <1>4, <1>5
  <2>3. QED
    BY <2>1, <2>2 DEF Single
<1>10. QED
  BY <1>2, <1>3, <1>5, <1>7, <1>8, <1>9 DEF Reads, Leaves, v

-----------------------------------------------------------------------------
(* The steps                                                                 *)

Negotiating == Object(conn) /\ Sound(conn, owed)

LEMMA BecomeSound ==
    ASSUME NEW c, Become(c), Object(c), NEW w, Sound(c, w)
    PROVE  Object(conn') /\ Sound(conn', w)
BY RebaseServes, FollowsSound DEF Become, Serves

LEMMA ConnectSound == ASSUME Negotiating, Connect PROVE Negotiating'
<1> DEFINE announced == ChangeConnectStatus(conn, "CONNECTING")
           open == <<"open">>
           push == PushRequest(announced, open, "connect")
           req == Request(open, announced.sid, "connect", announced.rid, 0)
<1>1. /\ conn.status = "none" /\ owed' = owed
      /\ Become(ThrottledRequestHandler(push))
  BY DEF Connect
<1>2. /\ Object(announced) /\ announced.requests = <<>> /\ announced.data = <<>>
      /\ ~SysWaiting(announced) /\ ~announced.connected /\ announced.status = "CONNECTING"
  BY <1>1 DEF Negotiating, Sound, ChangeConnectStatus, Object, FieldNames, SysWaiting
<1>3. IsSeq(open) /\ Clean(open)
  BY OneItem, OneItemSingle DEF Negotiation, SysHandlers
<1> HIDE DEF announced, open
<1>4. /\ Object(push) /\ push.requests = Append(announced.requests, req)
      /\ req.body = open /\ req.sid = announced.sid /\ req.func = "connect" /\ ~req.taken
      /\ push.data = announced.data /\ push.status = announced.status
      /\ SysWaiting(push) <=> SysWaiting(announced)
  BY <1>2, PushFields
<1> HIDE DEF req, push
<1>5. BodySeqs(<<>>) /\ CleanBodies(<<>>) /\ OneBody(<<>>) /\ NoConnect(<<>>)
  <2>1. Len(<<>>) = 0 /\ \A i \in 1..0 : FALSE
    BY EmptySeq
  <2>2. QED
    BY <2>1, Zenon DEF BodySeqs, CleanBodies, OneBody, NoConnect
<1>6. /\ BodySeqs(push.requests) /\ CleanBodies(push.requests) /\ OneBody(push.requests)
      /\ OneConnect(push.requests)
  <2>1. IsSeq(<<>>) /\ push.requests = Append(<<>>, req)
    BY <1>2, <1>4, EmptyIsSeq
  <2>2. QED
    BY <1>3, <1>4, <1>5, <2>1, AppendedRequest
<1>7. IsSeq(owed) /\ Clean(owed) /\ Single(owed)
  BY <1>1 DEF Negotiating, Sound
<1>8. Sound(push, owed)
  BY <1>2, <1>4, <1>6, <1>7, EmptyIsSeq, NoItems DEF Sound, Free
<1>9. Object(ThrottledRequestHandler(push)) /\ Sound(ThrottledRequestHandler(push), owed)
  BY <1>4, <1>8, ThrottledServes, FollowsSound DEF Serves
<1>10. QED
  BY <1>1, <1>9, BecomeSound DEF Negotiating

LEMMA AttachSound == ASSUME Negotiating, Attach PROVE Negotiating'
<1> DEFINE d == ChangeConnectStatus([conn EXCEPT !.authenticated = TRUE,
                                     !.connected = TRUE, !.sid = TRUE], "ATTACHED")
<1>1. conn.status = "none" /\ owed' = owed /\ Become(d)
  BY DEF Attach
<1>2. /\ Object(d) /\ d.requests = conn.requests /\ d.data = conn.data /\ d.status = "ATTACHED"
      /\ SysWaiting(d) <=> SysWaiting(conn)
  BY DEF Negotiating, ChangeConnectStatus, Object, FieldNames, SysWaiting
<1> HIDE DEF d
<1>3. Sound(d, owed)
  BY <1>1, <1>2 DEF Negotiating, Sound, Free
<1>4. QED
  BY <1>1, <1>2, <1>3, BecomeSound DEF Negotiating

LEMMA SendIQSound ==
    ASSUME Negotiating, NEW q \in Iqs, SendIQ(q) PROVE Negotiating'
<1> DEFINE b == [conn EXCEPT !.iq[q] = {"sent"}]
           asked == AddHandler(b, {q})
           timed == IF q \in TimedIqs THEN AddTimedHandler(asked, q) ELSE asked
<1>1. conn.authenticated /\ owed' = owed /\ Become(Send(timed, <<q>>))
  BY DEF SendIQ
<1>2. Object(b) /\ SameStream(conn, b) /\ b.requests = conn.requests
  BY DEF Negotiating, Object, FieldNames, SameStream, SysWaiting
<1> HIDE DEF b
<1>3. Object(b) /\ Sound(b, owed)
  BY <1>2, FewerSelf, SameServes, FollowsSound DEF Serves, Negotiating
<1>4. b.authenticated /\ {q} \cap SysHandlers = {} /\ q \notin Negotiation
  BY <1>1, <1>2 DEF SameStream, Negotiation
<1>5. Object(asked) /\ Sound(asked, owed) /\ asked.authenticated
  <2>1. asked.authenticated
    BY <1>3, <1>4 DEF AddHandler, Object, FieldNames
  <2> HIDE DEF asked
  <2>2. QED
    BY <1>3, <1>4, <2>1, AddHandlerSound DEF asked
<1> HIDE DEF asked
<1>6. Object(timed) /\ Sound(timed, owed) /\ timed.authenticated
  <2>1. timed.authenticated
    BY <1>5 DEF AddTimedHandler, Object, FieldNames
  <2>2. QED
    BY <1>5, <2>1, AddTimedServes, FollowsSound DEF Serves
<1> HIDE DEF timed
<1>7. Object(Send(timed, <<q>>)) /\ Sound(Send(timed, <<q>>), owed)
  BY <1>4, <1>6, SendSound DEF Sound
<1>8. QED
  BY <1>1, <1>7, BecomeSound DEF Negotiating

\* Answers, with a usable body or without one
LEMMA ExchangeSound ==
    ASSUME Negotiating, NEW i \in DOMAIN conn.requests,
           Answer(i) \/ AnswerDefective(i) \/ Fail(i)
    PROVE  Negotiating'
<1>1. conn.requests[i].state = "posted"
  BY DEF Answer, AnswerDefective, Fail
<1>2. i \in 1..Len(conn.requests) /\ i <= 2
  BY <1>1, SentFirst DEF Negotiating
<1> DEFINE w == Read(i)
           c == Taken(i)
<1>3. /\ Object(c) /\ Sound(c, w) /\ i \in 1..Len(c.requests)
      /\ c.requests[i].func = conn.requests[i].func
      /\ c.requests[i].sid = conn.requests[i].sid
  BY <1>2, TakenSound DEF Negotiating
<1>4. IsSeq(w)
  BY <1>3 DEF Sound
<1>5. IsSeq(<<>>) /\ Clean(<<>>) /\ Single(<<>>)
  BY EmptyIsSeq, NoItems
<1>6. CASE Answer(i)
  <2>1. PICK k \in 0..(IF Len(w) < 2 THEN Len(w) ELSE 2) :
        \E stanzas \in {s \in [1..k -> UNION {Replies(item) : item \in Range(w)}] :
                            \A j \in 1..k : s[j] \in Replies(w[j])} :
        \E offer \in Offers, node \in Nodes :
          LET answer == [type |-> "none", stanzas |-> stanzas, offer |-> offer, node |-> node]
          IN  /\ Become(OnRequestStateChange(c, i, "200", answer))
              /\ owed' = IF Terminates(i) THEN <<>> ELSE SubSeq(w, k + 1, Len(w))
    BY <1>6 DEF Answer
  <2>2. PICK stanzas \in {s \in [1..k -> UNION {Replies(item) : item \in Range(w)}] :
                            \A j \in 1..k : s[j] \in Replies(w[j])} :
        \E offer \in Offers, node \in Nodes :
          LET answer == [type |-> "none", stanzas |-> stanzas, offer |-> offer, node |-> node]
          IN  /\ Become(OnRequestStateChange(c, i, "200", answer))
              /\ owed' = IF Terminates(i) THEN <<>> ELSE SubSeq(w, k + 1, Len(w))
    BY <2>1
  <2>3. PICK offer, node :
          LET answer == [type |-> "none", stanzas |-> stanzas, offer |-> offer, node |-> node]
          IN  /\ Become(OnRequestStateChange(c, i, "200", answer))
              /\ owed' = IF Terminates(i) THEN <<>> ELSE SubSeq(w, k + 1, Len(w))
    BY <2>2
  <2>4. conn.requests[i].func = "connect" \/ conn.requests[i].sid
    BY <1>6 DEF Answer
  <2> HIDE DEF w, c
  <2>5. k \in 0..2 /\ k <= Len(w)
    BY <1>4, SeqFacts
  <2>6. stanzas = [j \in 1..k |-> stanzas[j]] /\ \A j \in 1..k : stanzas[j] \in Replies(w[j])
    BY <2>2
  <2> DEFINE rest == SubSeq(w, k + 1, Len(w))
             answer == [type |-> "none", stanzas |-> stanzas, offer |-> offer, node |-> node]
  <2>7. Reads(stanzas, w, rest)
    BY <1>4, <2>5, <2>6, RestReads
  <2>8. answer.type \in AnswerTypes /\ answer.stanzas = stanzas
    BY DEF AnswerTypes
  <2> HIDE DEF rest, answer
  <2>9. Reads(stanzas, w, owed')
    BY <1>5, <2>3, <2>7 DEF Reads, Leaves, rest
  <2>10. Leaves(w, owed')
    BY <2>9 DEF Reads
  <2>11. /\ Object(OnRequestStateChange(c, i, "200", answer))
         /\ Sound(OnRequestStateChange(c, i, "200", answer), owed')
    BY <1>2, <1>3, <2>4, <2>8, <2>9, <2>10, AnsweredSound
  <2>12. Become(OnRequestStateChange(c, i, "200", answer))
    BY <2>3 DEF answer
  <2>13. QED
    BY <2>11, <2>12, BecomeSound DEF Negotiating
<1>7. CASE AnswerDefective(i)
  <2>1. PICK type \in Bodies :
          LET answer == [type |-> type, stanzas |-> <<>>, offer |-> {}, node |-> TRUE]
          IN  Become(OnRequestStateChange(c, i, "200", answer)) /\ owed' \in {w, <<>>}
    BY <1>7 DEF AnswerDefective
  <2> DEFINE answer == [type |-> type, stanzas |-> <<>>, offer |-> {}, node |-> TRUE]
  <2>2. answer.type \in AnswerTypes /\ answer.type # "none"
    BY ServerAssumption DEF AnswerTypes
  <2> HIDE DEF w, c, answer
  <2>3. Leaves(w, owed')
    BY <1>4, <1>5, <2>1 DEF Leaves
  <2>4. /\ Object(OnRequestStateChange(c, i, "200", answer))
        /\ Sound(OnRequestStateChange(c, i, "200", answer), owed')
    BY <1>2, <1>3, <2>2, <2>3, AnsweredSound
  <2>5. Become(OnRequestStateChange(c, i, "200", answer))
    BY <2>1 DEF answer
  <2>6. QED
    BY <2>4, <2>5, BecomeSound DEF Negotiating
<1>8. CASE Fail(i)
  <2>1. PICK status \in FailStatus : Become(OnRequestStateChange(conn, i, status, [type |-> "empty"]))
    BY <1>8 DEF Fail
  <2>2. status # "200" /\ owed' = owed
    BY <1>8, ServerAssumption DEF Fail
  <2>3. Follows(conn, OnRequestStateChange(conn, i, status, [type |-> "empty"]))
    BY <1>2, <2>2, FailFollows
  <2>4. QED
    BY <2>1, <2>2, <2>3, FollowsSound, BecomeSound DEF Negotiating
<1>9. QED
  BY <1>6, <1>7, <1>8

\* A request is posted, gets older or stays dead
LEMMA TickSound ==
    ASSUME Negotiating, NEW i \in DOMAIN conn.requests, Backoff(i) \/ Age(i) \/ StayDead(i),
           Object(conn')
    PROVE  Negotiating'
<1> DEFINE old == conn.requests[i]
           posted == [old EXCEPT !.state = "posted"]
           older == [old EXCEPT !.age = @ + 1]
           dead == [old EXCEPT !.dead = 2]
<1>1. i \in 1..Len(conn.requests) /\ DOMAIN old = RequestFields /\ IsSeq(conn.requests)
  BY SeqFacts DEF Negotiating, Object, RequestsOK
<1>2. SameRequest(old, posted) /\ SameRequest(old, older) /\ SameRequest(old, dead)
  BY <1>1 DEF SameRequest, RequestFields
<1>3. PICK req \in {posted, older, dead} :
        conn' = [conn EXCEPT !.requests = [conn.requests EXCEPT ![i] = req]]
  BY DEF Backoff, Age, StayDead
<1>4. owed' = owed
  BY DEF Backoff, Age, StayDead
<1>5. SameRequest(old, req)
  BY <1>2
<1> HIDE DEF old, posted, older, dead
<1>6. SameStream(conn, conn') /\ conn'.requests = [conn.requests EXCEPT ![i] = req]
  BY <1>3 DEF Negotiating, Object, FieldNames, SameStream, SysWaiting
<1>7. Fewer(conn.requests, conn'.requests)
  BY <1>1, <1>5, <1>6, FewerPut DEF old
<1>8. Serves(conn, conn')
  BY <1>6, <1>7, SameServes
<1>9. QED
  BY <1>4, <1>8, FollowsSound DEF Serves, Negotiating

LEMMA NegotiatingNext ==
    ASSUME ConnectionInv, Negotiating, [Next]_vars
    PROVE  Negotiating'
<1>1. CASE Connect \/ Attach
  BY <1>1, ConnectSound, AttachSound
<1>2. CASE Quit
  <2>1. Become(Disconnect(conn)) /\ owed' = owed
    BY <1>2 DEF Quit, Call
  <2>2. Object(Disconnect(conn)) /\ Sound(Disconnect(conn), owed)
    BY DisconnectSound DEF Negotiating
  <2>3. QED
    BY <2>1, <2>2, BecomeSound DEF Negotiating
<1>3. CASE Pause \/ Resume
  <2>1. PICK paused \in BOOLEAN : conn' = [conn EXCEPT !.paused = paused]
    BY <1>3 DEF Pause, Resume
  <2>2. owed' = owed
    BY <1>3 DEF Pause, Resume, Call
  <2>3. Object(conn') /\ SameStream(conn, conn') /\ conn'.requests = conn.requests
    BY <2>1 DEF Negotiating, Object, FieldNames, SameStream, SysWaiting
  <2>4. QED
    BY <2>2, <2>3, FewerSelf, SameServes, FollowsSound DEF Serves, Negotiating
<1>4. ASSUME NEW due, NEW early, Become(OnIdle(conn, due, early)), owed' = owed
      PROVE  Negotiating'
  BY <1>4, OnIdleSound, BecomeSound DEF Negotiating
<1>5. CASE Flush
  BY <1>4, <1>5 DEF Flush, Call
<1>6. ASSUME NEW due, Idle(due) PROVE Negotiating'
  BY <1>4, <1>6 DEF Idle
<1>7. ASSUME NEW q \in Iqs, SendIQ(q) PROVE Negotiating'
  BY <1>7, SendIQSound
<1>8. ASSUME NEW i \in DOMAIN conn.requests, Answer(i) \/ AnswerDefective(i) \/ Fail(i)
      PROVE  Negotiating'
  BY <1>8, ExchangeSound
<1>9. ASSUME NEW i \in DOMAIN conn.requests, Backoff(i) \/ Age(i) \/ StayDead(i)
      PROVE  Negotiating'
  <2>1. Object(conn')
    BY NextKeeps DEF ConnectionInv, Keeps
  <2>2. QED
    BY <1>9, <2>1, TickSound
<1>10. CASE UNCHANGED vars
  BY <1>10 DEF vars, Negotiating
<1>11. QED
  BY <1>1, <1>2, <1>3, <1>5, <1>6, <1>7, <1>8, <1>9, <1>10 DEF Next, PageCalls, Exchange, Time

LEMMA InitNegotiating == Init => Negotiating
<1>1. SUFFICES ASSUME NEW service, conn = Connection(service), owed = <<>> PROVE Negotiating
  BY DEF Init
<1>2. /\ DOMAIN conn = FieldNames /\ conn.requests = <<>> /\ DOMAIN conn.iq = Iqs
      /\ conn.handlers = {} /\ conn.addHandlers = {} /\ conn.data = <<>> /\ conn.status = "none"
      /\ ~conn.connected /\ ~conn.authenticated
  BY <1>1 DEF Connection, FieldNames
<1>3. Object(conn) /\ ~SysWaiting(conn)
  BY <1>2, EmptyIsSeq DEF Object, RequestsOK, SysWaiting
<1>4. /\ BodySeqs(<<>>) /\ CleanBodies(<<>>) /\ OneBody(<<>>) /\ NoConnect(<<>>)
      /\ OneConnect(<<>>)
  <2>1. Len(<<>>) = 0 /\ \A i \in 1..0 : FALSE
    BY EmptySeq
  <2>2. QED
    BY <2>1, Zenon DEF BodySeqs, CleanBodies, OneBody, NoConnect, OneConnect
<1>5. Sound(conn, owed)
  BY <1>1, <1>2, <1>3, <1>4, EmptyIsSeq, NoItems DEF Sound, Free
<1>6. QED
  BY <1>3, <1>5 DEF Negotiating

\* However answers, errors, timeouts and calls of disconnect cross, a page that
\* was last told CONNECTED has an authenticated session
THEOREM ConnectedTheorem == Spec => []ConnectedIsTrue
<1>1. ConnectionInv /\ Negotiating /\ [Next]_vars => Negotiating'
  BY NegotiatingNext
<1>2. Negotiating => ConnectedIsTrue
  BY DEF Negotiating, Sound, ConnectedIsTrue
<1>3. QED
  BY <1>1, <1>2, InitNegotiating, ConnectionSafe, PTL DEF Spec

HIDE NamesAssumption

(********************** lib/phonegap.js and the plugin ***********************)
-----------------------------------------------------------------------------
\* The modules of the parts count with the same operator as this one
LEMMA SameCount ==
    \A S : /\ Storage!Cardinality(S) = Cardinality(S)
           /\ Devices!Cardinality(S) = Cardinality(S)
           /\ Plugin!Cardinality(S) = Cardinality(S)
BY DEF Storage!Cardinality, Devices!Cardinality, Plugin!Cardinality, Cardinality

-----------------------------------------------------------------------------
(* FileReader                                                                *)

Heard == [loads : Seq(Nat), ends : Nat]

FileReader == [state : {"EMPTY", "LOADING", "DONE"}, result : Nat \cup {"none"},
               error : {"none", "undefined", "NOT_READABLE_ERR"}]

\* While no old answer is about, the only one to come is that of the last
\* read, and it comes before that read has ended or been loaded
ReaderInv ==
    /\ tangled \in BOOLEAN
    /\ ~tangled =>
          /\ reader \in FileReader
          /\ reads \in Seq(Heard)
          /\ asks \subseteq {Len(reads)}
          /\ asks # {} => reads # <<>>
          /\ reads # <<>> /\ reads[Len(reads)].ends = 0 => reads[Len(reads)].loads = <<>>
          /\ Reader!ReadsEndOnce

\* The last read ends, with the reader DONE, and hears of its own result only
LEMMA ReaderEnds ==
    ASSUME ReaderInv, ~tangled, reads # <<>>, reads[Len(reads)].ends = 0,
           NEW came \in {<<>>, <<Len(reads)>>},
           reader' \in FileReader, reader'.state = "DONE",
           reads' = [i \in DOMAIN reads |->
                        IF i = Len(reads) THEN [loads |-> came, ends |-> 1] ELSE reads[i]],
           asks' \subseteq asks, tangled' = FALSE
    PROVE  ReaderInv'
<1> DEFINE n == Len(reads)
<1>1. /\ reads \in Seq(Heard) /\ asks \subseteq {n}
      /\ \A i \in DOMAIN reads : reads[i].ends <= 1 /\ reads[i].loads \in {<<>>, <<i>>}
  BY DEF ReaderInv, Reader!ReadsEndOnce
<1>2. n \in 1..n /\ DOMAIN reads = 1..n /\ n \in Nat /\ \A i \in 1..n : reads[i] \in Heard
  BY <1>1
<1>3. came \in Seq(Nat)
  <2>1. CASE came = <<>>
    BY <2>1
  <2>2. CASE came = <<n>>
    BY <1>2, <2>2
  <2>3. QED
    BY <2>1, <2>2
<1>4. /\ DOMAIN reads' = 1..n
      /\ reads'[n] = [loads |-> came, ends |-> 1]
      /\ \A i \in 1..n : i # n => reads'[i] = reads[i]
  BY <1>2
<1>5. \A i \in 1..n : reads'[i] \in Heard
  BY <1>2, <1>3, <1>4 DEF Heard
<1>6. reads' \in Seq(Heard) /\ Len(reads') = n /\ reads' # <<>>
  <2>1. reads' \in [1..n -> Heard]
    BY <1>1, <1>4, <1>5, <1>2
  <2>2. Len(reads') = n
    BY <1>2, <2>1
  <2>3. reads' \in Seq(Heard)
    BY <1>2, <2>1
  <2>4. QED
    BY <1>2, <2>2, <2>3
<1>7. reads'[n].ends = 1 /\ reads'[n].loads = came
  <2>1. [loads |-> came, ends |-> 1].ends = 1 /\ [loads |-> came, ends |-> 1].loads = came
    OBVIOUS
  <2>2. QED
    BY <1>4, <2>1
<1>8. Reader!ReadsEndOnce'
  <2>1. ASSUME NEW i \in 1..n
        PROVE  /\ reads'[i].ends <= 1 /\ reads'[i].loads \in {<<>>, <<i>>}
               /\ i = n => reads'[i].ends = 1
    <3>1. CASE i = n
      <4>1. reads'[n].loads \in {<<>>, <<n>>}
        BY <1>7
      <4>2. QED
        BY <1>7, <3>1, <4>1
    <3>2. CASE i # n
      BY <1>1, <1>2, <1>4, <3>2
    <3>3. QED
      BY <3>1, <3>2
  <2>2. QED
    BY <1>4, <1>6, <2>1 DEF Reader!ReadsEndOnce
<1>9. reads'[Len(reads')].ends # 0 /\ asks' \subseteq {Len(reads')}
  BY <1>1, <1>6, <1>7
<1>10. QED
  BY <1>6, <1>8, <1>9 DEF ReaderInv

LEMMA ReaderStep ==
    ASSUME ReaderInv, Reader!Next
    PROVE  ReaderInv'
<1> DEFINE n == Len(reads)
<1>1. CASE tangled
  <2>1. tangled' = TRUE
    BY <1>1 DEF ReaderInv, Reader!Next, Reader!Read, Reader!AbortReader, Reader!AnswerRead,
                Reader!ReadDone, Reader!ReadFailed
  <2>2. QED
    BY <2>1 DEF ReaderInv
<1>2. CASE ~tangled
  <2>1. /\ reader \in FileReader /\ reads \in Seq(Heard)
        /\ asks \subseteq {n} /\ (asks # {} => reads # <<>>)
        /\ reads # <<>> /\ reads[n].ends = 0 => reads[n].loads = <<>>
        /\ \A i \in DOMAIN reads : /\ reads[i].ends <= 1
                                   /\ reads[i].loads \in {<<>>, <<i>>}
                                   /\ i = n => (reads[i].ends = 1 <=> reader.state = "DONE")
        /\ tangled = FALSE
    BY <1>2 DEF ReaderInv, Reader!ReadsEndOnce
  <2>2. n \in Nat /\ DOMAIN reads = 1..n /\ (reads # <<>> => n \in 1..n)
        /\ \A i \in 1..n : reads[i] \in Heard
    BY <2>1
  <2>3. CASE Reader!Read
    <3> DEFINE fresh == [loads |-> <<>>, ends |-> 0]
    <3>1. /\ reader' = [reader EXCEPT !.state = "LOADING"] /\ asks' = asks \cup {n + 1}
          /\ reads' = Append(reads, fresh) /\ tangled' = (tangled \/ asks # {})
      BY <2>3 DEF Reader!Read
    <3>2. CASE asks = {}
      <4>1. fresh \in Heard
        BY DEF Heard
      <4>2. /\ reads' \in Seq(Heard) /\ Len(reads') = n + 1 /\ reads'[n + 1] = fresh
            /\ \A i \in 1..n : reads'[i] = reads[i]
        BY <2>1, <3>1, <4>1
      <4>3. reader' \in FileReader /\ reader'.state # "DONE"
        BY <2>1, <3>1 DEF FileReader
      <4>4. Reader!ReadsEndOnce'
        BY <2>1, <2>2, <4>2, <4>3 DEF Reader!ReadsEndOnce
      <4>5. QED
        BY <2>1, <2>2, <3>1, <3>2, <4>2, <4>3, <4>4 DEF ReaderInv
    <3>3. CASE asks # {}
      BY <2>1, <3>1, <3>3 DEF ReaderInv
    <3>4. QED
      BY <3>2, <3>3
  <2>4. CASE Reader!AbortReader
    <3>1. /\ reads # <<>> /\ reads[n].ends = 0
          /\ reader' = [state |-> "DONE", result |-> "none", error |-> "undefined"]
          /\ reads' = [reads EXCEPT ![n].ends = @ + 1]
          /\ asks' = asks /\ tangled' = tangled
      BY <2>4 DEF Reader!AbortReader, Reader!End, Reader!None
    <3>2. reads' = [i \in DOMAIN reads |-> IF i = n THEN [loads |-> <<>>, ends |-> 1] ELSE reads[i]]
      <4>1. reads[n] = [loads |-> <<>>, ends |-> 0]
        BY <2>1, <2>2, <3>1 DEF Heard
      <4>2. [reads[n] EXCEPT !.ends = @ + 1] = [loads |-> <<>>, ends |-> 1]
        BY <4>1
      <4>3. QED
        BY <2>1, <2>2, <3>1, <4>2
    <3>3. reader' \in FileReader /\ reader'.state = "DONE"
      BY <3>1 DEF FileReader
    <3>4. QED
      BY <1>2, <2>1, <3>1, <3>2, <3>3, ReaderEnds
  <2>5. ASSUME NEW k \in asks, Reader!AnswerRead(k)
        PROVE  ReaderInv'
    <3>1. /\ k = n /\ reads # <<>> /\ asks' \subseteq asks
          /\ Reader!ReadDone(k) \/ Reader!ReadFailed
      BY <2>1, <2>5 DEF Reader!AnswerRead
    <3>2. CASE reader.state = "DONE"
      <4>1. reader' = reader /\ reads' = reads /\ tangled' = tangled
        BY <3>1, <3>2 DEF Reader!ReadDone, Reader!ReadFailed
      <4>2. QED
        BY <2>1, <3>1, <4>1 DEF ReaderInv, Reader!ReadsEndOnce
    <3>3. CASE reader.state # "DONE"
      <4>1. reads[n].ends = 0 /\ reads[n].loads = <<>>
        BY <2>1, <2>2, <3>1, <3>3 DEF Heard
      <4>2. CASE tangled' = TRUE
        BY <4>2 DEF ReaderInv
      <4>3. CASE tangled' # TRUE /\ Reader!ReadDone(k)
        <5> DEFINE loaded1 == [reads EXCEPT ![n].loads = Append(@, n)]
        <5>1. /\ reader' = [reader EXCEPT !.state = "DONE", !.result = n]
              /\ reads' = Reader!End(loaded1) /\ tangled' = tangled
          BY <3>1, <3>3, <4>3 DEF Reader!ReadDone
        <5>2. Len(loaded1) = n
          BY <2>1, <2>2
        <5>3. Append(reads[n].loads, n) = <<n>>
          BY <4>1
        <5>4. loaded1[n] = [loads |-> <<n>>, ends |-> 0]
          BY <2>1, <2>2, <3>1, <4>1, <5>3 DEF Heard
        <5>5. reads' = [loaded1 EXCEPT ![n].ends = @ + 1]
          BY <5>1, <5>2 DEF Reader!End
        <5>6. reads' = [i \in DOMAIN reads |-> IF i = n THEN [loads |-> <<n>>, ends |-> 1] ELSE reads[i]]
          BY <2>1, <2>2, <3>1, <5>3, <5>4, <5>5 DEF Heard
        <5>7. reader' \in FileReader /\ reader'.state = "DONE"
          BY <2>1, <2>2, <5>1 DEF FileReader
        <5>8. QED
          BY <1>2, <2>1, <3>1, <4>1, <5>1, <5>6, <5>7, ReaderEnds
      <4>4. CASE tangled' # TRUE /\ Reader!ReadFailed
        <5>1. /\ reader' = [reader EXCEPT !.state = "DONE", !.error = "NOT_READABLE_ERR"]
              /\ reads' = [reads EXCEPT ![n].ends = @ + 1] /\ tangled' = tangled
          BY <3>3, <4>4 DEF Reader!ReadFailed, Reader!End
        <5>2. reads' = [i \in DOMAIN reads |-> IF i = n THEN [loads |-> <<>>, ends |-> 1] ELSE reads[i]]
          <6>1. reads[n] = [loads |-> <<>>, ends |-> 0]
            BY <2>1, <2>2, <3>1, <4>1 DEF Heard
          <6>2. [reads[n] EXCEPT !.ends = @ + 1] = [loads |-> <<>>, ends |-> 1]
            BY <6>1
          <6>3. QED
            BY <2>1, <2>2, <3>1, <5>1, <6>2
        <5>3. reader' \in FileReader /\ reader'.state = "DONE"
          BY <2>1, <5>1 DEF FileReader
        <5>4. QED
          BY <1>2, <2>1, <3>1, <4>1, <5>1, <5>2, <5>3, ReaderEnds
      <4>5. QED
        BY <3>1, <4>2, <4>3, <4>4
    <3>4. QED
      BY <3>2, <3>3
  <2>6. QED
    BY <2>3, <2>4, <2>5 DEF Reader!Next
<1>3. QED
  BY <1>1, <1>2

-----------------------------------------------------------------------------
(* FileWriter and the entries of a file system                               *)

\* The smaller and the larger of two numbers
LEMMA MinOfTwo ==
    ASSUME NEW x \in Int, NEW y \in Int
    PROVE  Files!Min({x, y}) = IF x <= y THEN x ELSE y
<1>1. CASE x <= y
  BY <1>1 DEF Files!Min
<1>2. CASE ~(x <= y)
  BY <1>2 DEF Files!Min
<1>3. QED
  BY <1>1, <1>2

LEMMA MaxOfTwo ==
    ASSUME NEW x \in Int, NEW y \in Int
    PROVE  Files!Max({x, y}) = IF x >= y THEN x ELSE y
<1>1. CASE x >= y
  BY <1>1 DEF Files!Max
<1>2. CASE ~(x >= y)
  BY <1>2 DEF Files!Max
<1>3. QED
  BY <1>1, <1>2

FileWriter ==
    [state : {"none", "INIT", "WRITING", "DONE"}, position : Nat, length : Nat,
     error : {"none", "undefined", "NO_MODIFICATION_ALLOWED_ERR"}]

\* What is asked of the device is within a file
GoodAsk(a) ==
    /\ a.what = "write" => a.at \in Nat /\ a.bytes \in Nat
    /\ a.what = "truncate" => a.length \in Nat

\* The writer knows the file all the time, and the write under way begins at
\* its position and is the only one
WriterInv ==
    /\ writer.state # "WRITING" => Files!Writing = {}
    /\ writer.state = "WRITING" =>
          \E a \in asks : Files!Writing = {a} /\ (a.what = "write" => a.at = writer.position)
    /\ writer.state # "none" => writer.length = size /\ writer.position <= size

FilesTyped ==
    /\ writer \in FileWriter /\ size \in Nat /\ tangled \in BOOLEAN
    /\ \A a \in asks : GoodAsk(a)

FilesInv == FilesTyped /\ (~tangled => WriterInv)

\* What a write leaves on the device has a length
LEMMA CarriedLength ==
    ASSUME FilesTyped, NEW a \in Files!Writing
    PROVE  /\ Files!Carried(a) \in Nat
           /\ a.what = "write" => Files!Carried(a) = a.at + a.bytes
           /\ a.what = "truncate" =>
                 Files!Carried(a) = IF a.length <= size THEN a.length ELSE size
<1>1. a \in asks /\ a.what \in {"write", "truncate"}
  BY DEF Files!Writing
<1>2. GoodAsk(a) /\ size \in Nat
  BY <1>1 DEF FilesTyped
<1>3. CASE a.what = "write"
  BY <1>2, <1>3 DEF GoodAsk, Files!Carried
<1>4. CASE a.what = "truncate"
  BY <1>2, <1>4, MinOfTwo DEF GoodAsk, Files!Carried
<1>5. QED
  BY <1>1, <1>3, <1>4

\* A write or a truncation begins
LEMMA WriteBegins ==
    ASSUME FilesInv, NEW a, GoodAsk(a), a.what \in {"write", "truncate"},
           a.what = "write" => a.at = writer.position,
           Files!Begin(a)
    PROVE  FilesInv'
<1>1. /\ FilesTyped /\ (~tangled => WriterInv)
      /\ writer.state \notin {"none", "WRITING"}
      /\ writer' = [writer EXCEPT !.state = "WRITING"]
      /\ asks' = asks \cup {a} /\ tangled' = tangled /\ size' = size
  BY DEF FilesInv, Files!Begin, Files!None
<1>2. /\ writer \in FileWriter /\ writer' \in FileWriter /\ writer'.state = "WRITING"
      /\ writer'.position = writer.position /\ writer'.length = writer.length
  BY <1>1 DEF FilesTyped, FileWriter
<1>3. FilesTyped'
  BY <1>1, <1>2 DEF FilesTyped
<1>4. ASSUME ~tangled
      PROVE  WriterInv'
  <2>1. Files!Writing = {} /\ writer.length = size /\ writer.position <= size
    BY <1>1, <1>4 DEF WriterInv
  <2>2. Files!Writing' = {a}
    BY <1>1, <2>1 DEF Files!Writing
  <2>3. QED
    BY <1>1, <1>2, <2>1, <2>2 DEF WriterInv
<1>5. QED
  BY <1>1, <1>3, <1>4 DEF FilesInv

\* A step that leaves the writer and the file alone, and the writes under way
LEMMA WriterKept ==
    ASSUME FilesInv, writer' = writer, size' = size, tangled' = tangled,
           Files!Writing' = Files!Writing, \A a \in asks' : GoodAsk(a)
    PROVE  FilesInv'
<1>1. FilesTyped' /\ FilesTyped
  BY DEF FilesInv, FilesTyped
<1>2. ASSUME WriterInv
      PROVE  WriterInv'
  <2>1. \A a : Files!Writing = {a} => a \in asks'
    BY DEF Files!Writing
  <2>2. QED
    BY <1>2, <2>1 DEF WriterInv
<1>3. QED
  BY <1>1, <1>2 DEF FilesInv

LEMMA WriteAnswered ==
    ASSUME FilesInv, NEW a \in asks, Files!AnswerWrite(a)
    PROVE  FilesInv'
<1>1. /\ FilesTyped /\ (~tangled => WriterInv)
      /\ a \in Files!Writing /\ a.what \in {"write", "truncate"}
      /\ asks' = asks \ {a} /\ tangled' = tangled
      /\ \/ Files!Written(a) /\ size' = Files!Carried(a)
         \/ Files!WriteFailed /\ size' = size
  BY DEF FilesInv, Files!AnswerWrite, Files!Writing
<1>2. /\ writer \in FileWriter /\ size \in Nat /\ tangled \in BOOLEAN /\ GoodAsk(a)
      /\ writer.position \in Nat /\ writer.length \in Nat
  BY <1>1 DEF FilesTyped, FileWriter
<1>3. Files!Carried(a) \in Nat
  BY <1>1, CarriedLength
<1>4. CASE writer.state = "DONE"
  <2>1. writer' = writer /\ size' \in Nat
    BY <1>1, <1>2, <1>3, <1>4 DEF Files!Written, Files!WriteFailed
  <2>2. FilesTyped'
    BY <1>1, <2>1 DEF FilesTyped
  <2>3. tangled
    BY <1>1, <1>4 DEF WriterInv
  <2>4. QED
    BY <1>1, <2>2, <2>3 DEF FilesInv
<1>5. CASE writer.state # "DONE" /\ Files!WriteFailed /\ size' = size
  <2>1. writer' = [writer EXCEPT !.state = "DONE", !.error = "NO_MODIFICATION_ALLOWED_ERR"]
    BY <1>5 DEF Files!WriteFailed
  <2>2. /\ writer' \in FileWriter /\ writer'.state = "DONE"
        /\ writer'.position = writer.position /\ writer'.length = writer.length
    BY <1>2, <2>1 DEF FileWriter
  <2>3. FilesTyped'
    BY <1>1, <1>5, <2>2 DEF FilesTyped
  <2>4. ASSUME ~tangled
        PROVE  WriterInv'
    <3>1. Files!Writing = {a} /\ writer.length = size /\ writer.position <= size
      BY <1>1, <1>5, <2>4 DEF WriterInv
    <3>2. Files!Writing' = {}
      BY <1>1, <3>1 DEF Files!Writing
    <3>3. QED
      BY <1>5, <2>2, <3>1, <3>2 DEF WriterInv
  <2>5. QED
    BY <1>1, <2>3, <2>4 DEF FilesInv
<1>6. CASE writer.state # "DONE" /\ Files!Written(a) /\ size' = Files!Carried(a)
  <2>1. /\ writer' \in FileWriter /\ writer'.state = "DONE"
        /\ a.what = "write" => /\ writer'.position = writer.position + a.bytes
                               /\ writer'.length = writer.position + a.bytes
        /\ a.what = "truncate" => writer'.length = size' /\ writer'.position <= size'
    <3>1. CASE a.what = "write"
      <4>1. writer' = [writer EXCEPT !.state = "DONE", !.position = @ + a.bytes,
                                     !.length = writer.position + a.bytes]
        BY <1>6, <3>1 DEF Files!Written
      <4>2. writer.position + a.bytes \in Nat
        BY <1>2, <3>1 DEF GoodAsk
      <4>3. QED
        BY <1>2, <3>1, <4>1, <4>2 DEF FileWriter
    <3>2. CASE a.what = "truncate"
      <4> DEFINE c == Files!Carried(a)
                 p == Files!Min({writer.position, c})
      <4>1. writer' = [writer EXCEPT !.state = "DONE", !.length = c, !.position = p]
        BY <1>6, <3>2 DEF Files!Written
      <4>2. p = IF writer.position <= c THEN writer.position ELSE c
        BY <1>2, <1>3, MinOfTwo
      <4>3. c \in Nat
        BY <1>3
      <4> HIDE DEF c, p
      <4>4. p \in Nat /\ p <= c
        BY <1>2, <4>2, <4>3
      <4>5. size' = c
        BY <1>6 DEF c
      <4>6. QED
        BY <1>2, <3>2, <4>1, <4>3, <4>4, <4>5 DEF FileWriter
    <3>3. QED
      BY <1>1, <3>1, <3>2
  <2>2. FilesTyped'
    BY <1>1, <1>3, <1>6, <2>1 DEF FilesTyped
  <2>3. ASSUME ~tangled
        PROVE  WriterInv'
    <3>1. Files!Writing = {a} /\ (a.what = "write" => a.at = writer.position)
      BY <1>1, <2>3 DEF WriterInv
    <3>2. Files!Writing' = {}
      BY <1>1, <3>1 DEF Files!Writing
    <3>3. writer'.length = size' /\ writer'.position <= size'
      <4>1. CASE a.what = "write"
        BY <1>1, <1>2, <1>6, <2>1, <3>1, <4>1, CarriedLength DEF GoodAsk
      <4>2. CASE a.what = "truncate"
        BY <2>1, <4>2
      <4>3. QED
        BY <1>1, <4>1, <4>2
    <3>4. QED
      BY <2>1, <3>2, <3>3 DEF WriterInv
  <2>4. QED
    BY <1>1, <2>2, <2>3 DEF FilesInv
<1>7. QED
  BY <1>1, <1>4, <1>5, <1>6

LEMMA FilesStep ==
    ASSUME FilesInv, Files!Next
    PROVE  FilesInv'
<1>1. /\ FilesTyped /\ (~tangled => WriterInv)
      /\ writer \in FileWriter /\ size \in Nat /\ \A a \in asks : GoodAsk(a)
      /\ writer.position \in Nat /\ writer.length \in Nat
  BY DEF FilesInv, FilesTyped, FileWriter
<1>2. CASE Files!AbortWriter
  <2>1. /\ writer' = [writer EXCEPT !.state = "DONE", !.error = "undefined"]
        /\ tangled' = TRUE /\ asks' = asks /\ size' = size
    BY <1>2 DEF Files!AbortWriter
  <2>2. writer' \in FileWriter
    BY <1>1, <2>1 DEF FileWriter
  <2>3. QED
    BY <1>1, <2>1, <2>2 DEF FilesInv, FilesTyped
<1>3. CASE Files!CreateWriter
  <2>1. /\ asks' = asks \cup {[what |-> "createWriter"]}
        /\ writer' = writer /\ size' = size /\ tangled' = tangled
    BY <1>3 DEF Files!CreateWriter
  <2>2. Files!Writing' = Files!Writing
    BY <2>1 DEF Files!Writing
  <2>3. GoodAsk([what |-> "createWriter"])
    BY DEF GoodAsk
  <2>4. QED
    BY <1>1, <2>1, <2>2, <2>3, WriterKept
<1>4. CASE Files!BadFileSystem
  <2>1. writer' = writer /\ size' = size /\ tangled' = tangled /\ asks' = asks
    BY <1>4 DEF Files!BadFileSystem, Files!writerVars
  <2>2. QED
    BY <1>1, <2>1, WriterKept DEF Files!Writing
<1>5. ASSUME NEW n \in Files!Sizes, Files!Write(n)
      PROVE  FilesInv'
  <2> DEFINE a == [what |-> "write", at |-> writer.position, bytes |-> n, n |-> writes]
  <2>1. Files!Begin(a)
    BY <1>5 DEF Files!Write
  <2>2. n \in Nat
    BY SizeAssumption DEF Files!Sizes
  <2>3. GoodAsk(a) /\ a.what = "write" /\ a.at = writer.position
    BY <1>1, <2>2 DEF GoodAsk
  <2> HIDE DEF a
  <2>4. QED
    BY <2>1, <2>3, WriteBegins
<1>6. ASSUME NEW n \in Files!Sizes, Files!Truncate(n)
      PROVE  FilesInv'
  <2> DEFINE a == [what |-> "truncate", length |-> n, n |-> writes]
  <2>1. Files!Begin(a)
    BY <1>6 DEF Files!Truncate
  <2>2. n \in Nat
    BY SizeAssumption DEF Files!Sizes
  <2>3. GoodAsk(a) /\ a.what = "truncate"
    BY <2>2 DEF GoodAsk
  <2> HIDE DEF a
  <2>4. QED
    BY <2>1, <2>3, WriteBegins
<1>7. ASSUME NEW offset \in -MaxSize..MaxSize + 1, Files!Seek(offset)
      PROVE  FilesInv'
  <2> DEFINE p == IF offset < 0 THEN Files!Max({offset + writer.length, 0})
                  ELSE Files!Min({offset, writer.length})
  <2>1. /\ writer.state \notin {"none", "WRITING"}
        /\ writer' = [writer EXCEPT !.position = p]
        /\ asks' = asks /\ size' = size /\ tangled' = tangled
    BY <1>7 DEF Files!Seek, Files!None
  <2>2. p \in Nat /\ p <= writer.length
    <3>1. offset \in Int
      BY SizeAssumption
    <3>2. CASE offset < 0
      BY <1>1, <3>1, <3>2, MaxOfTwo
    <3>3. CASE ~(offset < 0)
      BY <1>1, <3>1, <3>3, MinOfTwo
    <3>4. QED
      BY <3>2, <3>3
  <2> HIDE DEF p
  <2>3. /\ writer' \in FileWriter /\ writer'.state = writer.state
        /\ writer'.position = p /\ writer'.length = writer.length
    BY <1>1, <2>1, <2>2 DEF FileWriter
  <2>4. FilesTyped'
    BY <1>1, <2>1, <2>3 DEF FilesTyped
  <2>5. ASSUME ~tangled
        PROVE  WriterInv'
    <3>1. Files!Writing' = {} /\ writer.length = size
      BY <1>1, <2>1, <2>5 DEF WriterInv, Files!Writing
    <3>2. QED
      BY <2>1, <2>2, <2>3, <3>1 DEF WriterInv
  <2>6. QED
    BY <2>1, <2>4, <2>5 DEF FilesInv
<1>8. ASSUME NEW action, Files!AskEntry(action)
      PROVE  FilesInv'
  <2>1. /\ asks = {} /\ asks' = {[what |-> "entry", wanted |-> Files!Wanted(action)]}
        /\ writer' = writer /\ size' = size /\ tangled' = tangled
    BY <1>8 DEF Files!AskEntry, Files!writerVars
  <2>2. Files!Writing' = Files!Writing
    BY <2>1 DEF Files!Writing
  <2>3. \A a \in asks' : GoodAsk(a)
    BY <2>1 DEF GoodAsk
  <2>4. QED
    BY <2>1, <2>2, <2>3, WriterKept
<1>9. ASSUME NEW a \in asks, Files!CreateFailed(a) \/ \E answer \in Files!Answers : Files!AnswerEntry(a, answer)
      PROVE  FilesInv'
  <2>1. /\ a.what \in {"createWriter", "entry"} /\ asks' = asks \ {a}
        /\ writer' = writer /\ size' = size /\ tangled' = tangled
    BY <1>9 DEF Files!CreateFailed, Files!AnswerEntry, Files!writerVars
  <2>2. Files!Writing' = Files!Writing
    BY <2>1 DEF Files!Writing
  <2>3. QED
    BY <1>1, <2>1, <2>2, WriterKept
<1>10. ASSUME NEW a \in asks, NEW named \in BOOLEAN, Files!AnswerCreate(a, named)
       PROVE  FilesInv'
  <2>1. /\ a.what = "createWriter" /\ asks' = asks \ {a}
        /\ writer' = [state |-> "INIT", position |-> 0, length |-> size, error |-> "none"]
        /\ tangled' = (Files!Writing # {}) /\ size' = size
    BY <1>10 DEF Files!AnswerCreate, Files!NewWriter, Files!None
  <2>2. /\ writer' \in FileWriter /\ writer'.state = "INIT"
        /\ writer'.position = 0 /\ writer'.length = size
    BY <1>1, <2>1 DEF FileWriter
  <2>3. FilesTyped'
    BY <1>1, <2>1, <2>2 DEF FilesTyped
  <2>4. Files!Writing' = Files!Writing
    BY <2>1 DEF Files!Writing
  <2>5. ASSUME ~tangled'
        PROVE  WriterInv'
    <3>1. Files!Writing' = {}
      BY <2>1, <2>4, <2>5
    <3>2. writer'.length = size' /\ writer'.position <= size' /\ writer'.state # "WRITING"
      BY <1>1, <2>1, <2>2
    <3>3. QED
      BY <3>1, <3>2 DEF WriterInv
  <2>6. QED
    BY <2>3, <2>5 DEF FilesInv
<1>11. QED
  BY <1>2, <1>3, <1>4, <1>5, <1>6, <1>7, <1>8, <1>9, <1>10, WriteAnswered DEF Files!Next

-----------------------------------------------------------------------------
(* Watches of sensors, geolocation, a contact                                *)

WatchRec == [frequency : Frequencies, timer : BOOLEAN, cleared : BOOLEAN, late : Int]

Contact ==
    [state : {"new", "clone", "saved", "UNKNOWN_ERROR"}, id : {"null", "an id"},
     fields : [Devices!Fields -> {"absent", "no ids", "ids"}]]

\* The timeout is enough for a watch
Covered(w) == watches[w].frequency = Devices!NoFrequency \/ timeout >= watches[w].frequency + Margin

AboutWatch == {"reading", "getTimeout", "setTimeout"}

\* What is asked of the device: a reading or a timeout for a watch that was
\* begun, a timeout as long as that watch needs, or to stop a watch of the
\* position
GoodQuestion(a) ==
    /\ a.what \in AboutWatch => a.watch \in DOMAIN watches
    /\ a.what = "setTimeout" =>
          /\ a.to = watches[a.watch].frequency + Margin
          /\ timeout < a.to \/ crossed
    /\ a.what = "stop" => a.id # Devices!Global

DevicesTyped ==
    /\ \E n \in Nat : watches \in [1..n -> WatchRec]
    /\ timeout \in Nat /\ crossed \in BOOLEAN
    /\ IsFiniteSet(asks) /\ \A a \in asks : GoodQuestion(a)

\* One question about the timeout at a time, and every watch but the one it is
\* about is covered
TimeoutInv ==
    ~crossed =>
        /\ \A a, b \in Devices!AboutTimeout : a = b
        /\ \A w \in DOMAIN watches : Covered(w) \/ \E a \in Devices!AboutTimeout : a.watch = w

\* A watch that was cleared asks for nothing any more, and what it may still
\* hear of are its questions
ClearedInv ==
    \A w \in DOMAIN watches :
        /\ watches[w].timer <=> ~watches[w].cleared
        /\ watches[w].late = IF watches[w].cleared THEN Cardinality(Devices!AsksFor(w)) ELSE 0

WatchesInv == DevicesTyped /\ TimeoutInv /\ ClearedInv

PositionInv == geo \in [refused : BOOLEAN, failed : BOOLEAN] /\ Devices!PositionFreed

ContactInv == contact \in Contact /\ Devices!CloneForgetsIds

DevicesInv == WatchesInv /\ PositionInv /\ ContactInv

\* A step about a position or a contact leaves the watches right
LEMMA WatchesKept ==
    ASSUME WatchesInv, watches' = watches, timeout' = timeout, crossed' = crossed,
           IsFiniteSet(asks'), \A a \in asks' \ asks : GoodQuestion(a),
           \A a : a.what \in AboutWatch => (a \in asks' <=> a \in asks)
    PROVE  WatchesInv'
<1>1. DevicesTyped /\ TimeoutInv /\ ClearedInv
  BY DEF WatchesInv
<1>2. Devices!AboutTimeout' = Devices!AboutTimeout
  BY DEF Devices!AboutTimeout, AboutWatch
<1>3. \A w : Devices!AsksFor(w)' = Devices!AsksFor(w)
  BY DEF Devices!AsksFor, AboutWatch
<1>4. \A a \in asks' : GoodQuestion(a)'
  <2>1. TAKE a \in asks'
  <2>2. GoodQuestion(a)
    BY <1>1 DEF DevicesTyped
  <2>3. QED
    BY <2>2 DEF GoodQuestion
<1>5. DevicesTyped'
  BY <1>1, <1>4 DEF DevicesTyped
<1>6. TimeoutInv'
  BY <1>1, <1>2 DEF TimeoutInv, Covered
<1>7. ClearedInv'
  BY <1>1, <1>3 DEF ClearedInv
<1>8. QED
  BY <1>5, <1>6, <1>7 DEF WatchesInv

\* A step that is not about the position leaves it as it is
LEMMA PositionKept ==
    ASSUME PositionInv, listeners' = listeners, geo' = geo,
           \A a \in asks : a.what = "position" => a \in asks'
    PROVE  PositionInv'
BY DEF PositionInv, Devices!PositionFreed, Devices!Asked

\* The watches begun are numbered
LEMMA Numbered ==
    ASSUME DevicesTyped
    PROVE  \E n \in Nat : /\ DOMAIN watches = 1..n /\ Cardinality(DOMAIN watches) = n
                          /\ \A w \in 1..n : watches[w] \in WatchRec
<1>1. PICK n \in Nat : watches \in [1..n -> WatchRec]
  BY DEF DevicesTyped
<1>2. Cardinality(1..n) = n
  <2>1. Cardinality(1..n) = IF 1 > n THEN 0 ELSE n - 1 + 1
    BY FS_Interval
  <2>2. QED
    BY <2>1
<1>3. QED
  BY <1>1, <1>2

LEMMA WatchBegins ==
    ASSUME WatchesInv, NEW sensor, NEW frequency \in Frequencies, Devices!Watch(sensor, frequency)
    PROVE  WatchesInv'
<1>1. PICK n \in Nat : /\ DOMAIN watches = 1..n /\ Cardinality(DOMAIN watches) = n
                       /\ \A i \in 1..n : watches[i] \in WatchRec
  BY Numbered DEF WatchesInv
<1> DEFINE w == n + 1
           fresh == [frequency |-> frequency, timer |-> TRUE, cleared |-> FALSE, late |-> 0]
           ask == [what |-> "getTimeout", watch |-> w]
<1>2. /\ watches' = [i \in 1..w |-> IF i = w THEN fresh ELSE watches[i]]
      /\ asks' = asks \cup {ask} /\ timeout' = timeout
      /\ crossed' = (crossed \/ Devices!AboutTimeout # {})
  <2> DEFINE v == Cardinality(DOMAIN watches) + 1
  <2>1. watches' = [i \in 1..v |-> IF i = v THEN Devices!New(frequency) ELSE watches[i]]
    BY SameCount DEF Devices!Watch
  <2>2. asks' = asks \cup {[what |-> "getTimeout", watch |-> v]}
    BY SameCount DEF Devices!Watch
  <2>3. crossed' = (crossed \/ Devices!AboutTimeout # {})
    BY DEF Devices!Watch
  <2>4. timeout' = timeout
    BY DEF Devices!Watch
  <2>5. v = w
    BY <1>1
  <2>6. QED
    BY <2>1, <2>2, <2>3, <2>4, <2>5 DEF Devices!New
<1>3. DevicesTyped /\ TimeoutInv /\ ClearedInv
  BY DEF WatchesInv
<1>4. /\ DOMAIN watches' = 1..w /\ watches'[w] = fresh
      /\ \A i \in 1..n : watches'[i] = watches[i] /\ i # w /\ i \in 1..w
      /\ \A i \in 1..w : i = w \/ i \in 1..n
  BY <1>1, <1>2
<1>5. fresh \in WatchRec
  BY DEF WatchRec
<1>6. \A a \in asks' : GoodQuestion(a)'
  <2>1. TAKE a \in asks'
  <2>2. CASE a = ask
    BY <1>4, <2>2 DEF GoodQuestion
  <2>3. CASE a \in asks
    <3>1. GoodQuestion(a)
      BY <1>3, <2>3 DEF DevicesTyped
    <3>2. a.what \in AboutWatch => a.watch \in 1..n
      BY <1>1, <3>1 DEF GoodQuestion
    <3>3. crossed => crossed'
      BY <1>2
    <3>4. QED
      BY <1>2, <1>4, <3>1, <3>2, <3>3 DEF GoodQuestion, AboutWatch
  <2>4. QED
    BY <1>2, <2>2, <2>3
<1>7. IsFiniteSet(asks')
  BY <1>2, <1>3, FS_AddElement DEF DevicesTyped
<1>8. DevicesTyped'
  <2>1. watches' \in [1..w -> WatchRec]
    BY <1>1, <1>2, <1>5
  <2>2. crossed' \in BOOLEAN /\ timeout' \in Nat
    BY <1>2, <1>3 DEF DevicesTyped
  <2>3. QED
    BY <1>6, <1>7, <2>1, <2>2 DEF DevicesTyped
<1>9. TimeoutInv'
  <2>1. SUFFICES ASSUME ~crossed'
                 PROVE  /\ \A a, b \in Devices!AboutTimeout' : a = b
                        /\ \A i \in 1..w : Covered(i)' \/ \E a \in Devices!AboutTimeout' : a.watch = i
    BY <1>4 DEF TimeoutInv
  <2>2. ~crossed /\ Devices!AboutTimeout = {}
    BY <1>2, <2>1
  <2>3. Devices!AboutTimeout' = {ask}
    BY <1>2, <2>2 DEF Devices!AboutTimeout
  <2>4. \A i \in 1..n : Covered(i)
    BY <1>1, <1>3, <2>2 DEF TimeoutInv
  <2>5. \A i \in 1..n : Covered(i)'
    BY <1>2, <1>4, <2>4 DEF Covered
  <2>6. QED
    BY <1>4, <2>3, <2>5
<1>10. ClearedInv'
  <2>1. \A i : Devices!AsksFor(i)' = Devices!AsksFor(i)
    BY <1>2 DEF Devices!AsksFor
  <2>2. fresh.timer /\ ~fresh.cleared /\ fresh.late = 0
    OBVIOUS
  <2>3. \A i \in 1..n :
           /\ watches'[i].timer <=> ~watches'[i].cleared
           /\ watches'[i].late = IF watches'[i].cleared THEN Cardinality(Devices!AsksFor(i)) ELSE 0
    BY <1>1, <1>3, <1>4 DEF ClearedInv
  <2>4. QED
    BY <1>4, <2>1, <2>2, <2>3 DEF ClearedInv
<1>11. QED
  BY <1>8, <1>9, <1>10 DEF WatchesInv

LEMMA WatchTicks ==
    ASSUME WatchesInv, NEW w \in DOMAIN watches, Devices!Tick(w)
    PROVE  WatchesInv'
<1>1. PICK ask : /\ ask.what = "reading" /\ ask.watch = w /\ asks' = asks \cup {ask}
                 /\ watches[w].timer
                 /\ watches' = watches /\ timeout' = timeout /\ crossed' = crossed
  BY DEF Devices!Tick, Devices!sensorVars
<1>2. DevicesTyped /\ TimeoutInv /\ ClearedInv
  BY DEF WatchesInv
<1>3. DevicesTyped'
  <2>1. GoodQuestion(ask)
    BY <1>1 DEF GoodQuestion
  <2>2. \A a \in asks' : GoodQuestion(a)'
    BY <1>1, <1>2, <2>1 DEF GoodQuestion, DevicesTyped
  <2>3. IsFiniteSet(asks')
    BY <1>1, <1>2, FS_AddElement DEF DevicesTyped
  <2>4. QED
    BY <1>1, <1>2, <2>2, <2>3 DEF DevicesTyped
<1>4. Devices!AboutTimeout' = Devices!AboutTimeout
  BY <1>1 DEF Devices!AboutTimeout
<1>5. \A i : i # w => Devices!AsksFor(i)' = Devices!AsksFor(i)
  BY <1>1 DEF Devices!AsksFor
<1>6. watches[w].timer <=> ~watches[w].cleared
  BY <1>2 DEF ClearedInv
<1>7. TimeoutInv'
  BY <1>1, <1>2, <1>4 DEF TimeoutInv, Covered
<1>8. ClearedInv'
  BY <1>1, <1>2, <1>5, <1>6 DEF ClearedInv
<1>9. QED
  BY <1>3, <1>7, <1>8 DEF WatchesInv

LEMMA WatchCleared ==
    ASSUME WatchesInv, NEW sensor, NEW w \in DOMAIN watches, Devices!Clear(sensor, w)
    PROVE  WatchesInv'
<1>1. PICK n \in Nat : /\ DOMAIN watches = 1..n /\ Cardinality(DOMAIN watches) = n
                       /\ \A i \in 1..n : watches[i] \in WatchRec
  BY Numbered DEF WatchesInv
<1> DEFINE late == Cardinality(Devices!AsksFor(w))
<1>2. /\ watches' = [watches EXCEPT ![w].timer = FALSE, ![w].cleared = TRUE, ![w].late = late]
      /\ asks' = asks /\ timeout' = timeout /\ crossed' = crossed
  <2>1. watches' = [watches EXCEPT ![w].timer = FALSE, ![w].cleared = TRUE, ![w].late = late]
    BY SameCount DEF Devices!Clear
  <2>2. UNCHANGED <<device, asks, timeout, crossed, Devices!otherVars>>
    BY DEF Devices!Clear
  <2>3. QED
    BY <2>1, <2>2
<1>3. DevicesTyped /\ TimeoutInv /\ ClearedInv
  BY DEF WatchesInv
<1>4. late \in Int
  <2>1. IsFiniteSet(Devices!AsksFor(w))
    BY <1>3, FS_Subset DEF Devices!AsksFor, DevicesTyped
  <2>2. QED
    BY <2>1, FS_CardinalityType
<1> HIDE DEF late
<1>5. watches[w] \in WatchRec
  BY <1>1
<1>6. /\ DOMAIN watches' = 1..n
      /\ watches'[w] = [frequency |-> watches[w].frequency, timer |-> FALSE, cleared |-> TRUE, late |-> late]
      /\ \A i \in 1..n : i # w => watches'[i] = watches[i]
  BY <1>1, <1>2, <1>5 DEF WatchRec
<1>7. watches'[w] \in WatchRec
  BY <1>4, <1>5, <1>6 DEF WatchRec
<1>8. \A i \in 1..n : watches'[i].frequency = watches[i].frequency
  BY <1>6
<1>9. \A a \in asks' : GoodQuestion(a)'
  <2>1. TAKE a \in asks'
  <2>2. GoodQuestion(a)
    BY <1>2, <1>3 DEF DevicesTyped
  <2>3. QED
    BY <1>1, <1>2, <1>6, <1>8, <2>2 DEF GoodQuestion, AboutWatch
<1>10. DevicesTyped'
  <2>1. watches' \in [1..n -> WatchRec]
    BY <1>1, <1>2, <1>6, <1>7
  <2>2. QED
    BY <1>2, <1>3, <1>9, <2>1 DEF DevicesTyped
<1>11. TimeoutInv'
  <2>1. Devices!AboutTimeout' = Devices!AboutTimeout
    BY <1>2 DEF Devices!AboutTimeout
  <2>2. \A i \in 1..n : Covered(i)' = Covered(i)
    BY <1>2, <1>8 DEF Covered
  <2>3. QED
    BY <1>1, <1>2, <1>3, <1>6, <2>1, <2>2 DEF TimeoutInv
<1>12. ClearedInv'
  <2>1. \A i : Devices!AsksFor(i)' = Devices!AsksFor(i)
    BY <1>2 DEF Devices!AsksFor
  <2>2. /\ watches'[w].timer <=> ~watches'[w].cleared /\ watches'[w].cleared
        /\ watches'[w].late = Cardinality(Devices!AsksFor(w))
    <3> DEFINE rec == [frequency |-> watches[w].frequency, timer |-> FALSE, cleared |-> TRUE, late |-> late]
    <3>1. ~rec.timer /\ rec.cleared /\ rec.late = late
      OBVIOUS
    <3>2. QED
      BY <1>6, <3>1 DEF late
  <2>3. \A i \in 1..n : i # w =>
           /\ watches'[i].timer <=> ~watches'[i].cleared
           /\ watches'[i].late = IF watches'[i].cleared THEN Cardinality(Devices!AsksFor(i)) ELSE 0
    BY <1>1, <1>3, <1>6 DEF ClearedInv
  <2>4. QED
    BY <1>1, <1>6, <2>1, <2>2, <2>3 DEF ClearedInv
<1>13. QED
  BY <1>10, <1>11, <1>12 DEF WatchesInv

LEMMA ReadingAnswered ==
    ASSUME WatchesInv, NEW a \in asks, Devices!AnswerReading(a)
    PROVE  WatchesInv'
<1>1. PICK n \in Nat : /\ DOMAIN watches = 1..n /\ Cardinality(DOMAIN watches) = n
                       /\ \A i \in 1..n : watches[i] \in WatchRec
  BY Numbered DEF WatchesInv
<1> DEFINE w == a.watch
           late == watches[w].late - 1
<1>2. /\ a.what = "reading" /\ asks' = asks \ {a} /\ timeout' = timeout /\ crossed' = crossed
      /\ watches' = IF watches[w].cleared THEN [watches EXCEPT ![w].late = @ - 1] ELSE watches
  BY DEF Devices!AnswerReading
<1>3. /\ DevicesTyped /\ TimeoutInv /\ ClearedInv
      /\ IsFiniteSet(asks) /\ \A b \in asks : GoodQuestion(b)
  BY DEF WatchesInv, DevicesTyped
<1>4. w \in 1..n /\ watches[w] \in WatchRec
  <2>1. GoodQuestion(a)
    BY <1>3
  <2>2. QED
    BY <1>1, <1>2, <2>1 DEF GoodQuestion, AboutWatch
<1>5. late \in Int
  BY <1>4 DEF WatchRec
<1> HIDE DEF late
<1>6. /\ DOMAIN watches' = 1..n
      /\ \A i \in 1..n :
            /\ watches'[i].frequency = watches[i].frequency
            /\ watches'[i].timer = watches[i].timer /\ watches'[i].cleared = watches[i].cleared
            /\ watches'[i].late = IF i = w /\ watches[w].cleared THEN late ELSE watches[i].late
            /\ watches'[i] \in WatchRec
  <2>1. CASE watches[w].cleared
    <3>1. watches' = [watches EXCEPT ![w].late = late]
      BY <1>2, <2>1 DEF late
    <3>2. [watches[w] EXCEPT !.late = late] \in WatchRec
      BY <1>4, <1>5 DEF WatchRec
    <3>3. /\ watches'[w] = [watches[w] EXCEPT !.late = late]
          /\ \A i \in 1..n : i # w => watches'[i] = watches[i]
          /\ DOMAIN watches' = 1..n
      BY <1>1, <1>4, <3>1
    <3>4. /\ watches'[w].frequency = watches[w].frequency
          /\ watches'[w].timer = watches[w].timer /\ watches'[w].cleared = watches[w].cleared
          /\ watches'[w].late = late
      BY <1>4, <3>3 DEF WatchRec
    <3>5. QED
      BY <1>1, <2>1, <3>2, <3>3, <3>4
  <2>2. CASE ~watches[w].cleared
    BY <1>1, <1>2, <2>2
  <2>3. QED
    BY <2>1, <2>2
<1>7. DevicesTyped'
  <2>1. watches' \in [1..n -> WatchRec]
    <3>1. CASE watches[w].cleared
      <4>1. watches' = [i \in 1..n |-> watches'[i]]
        BY <1>1, <1>2, <3>1
      <4>2. QED
        BY <1>6, <4>1
    <3>2. CASE ~watches[w].cleared
      BY <1>2, <1>3, <1>6, <3>2 DEF DevicesTyped
    <3>3. QED
      BY <3>1, <3>2
  <2>2. IsFiniteSet(asks')
    BY <1>2, <1>3, FS_Subset
  <2>3. \A b \in asks' : GoodQuestion(b)'
    <3>1. TAKE b \in asks'
    <3>2. GoodQuestion(b)
      BY <1>2, <1>3
    <3>3. QED
      BY <1>1, <1>2, <1>6, <3>2 DEF GoodQuestion, AboutWatch
  <2>4. QED
    BY <1>2, <1>3, <2>1, <2>2, <2>3 DEF DevicesTyped
<1>8. TimeoutInv'
  <2>1. Devices!AboutTimeout' = Devices!AboutTimeout
    BY <1>2 DEF Devices!AboutTimeout
  <2>2. \A i \in 1..n : Covered(i)' = Covered(i)
    BY <1>2, <1>6 DEF Covered
  <2>3. QED
    BY <1>1, <1>2, <1>3, <1>6, <2>1, <2>2 DEF TimeoutInv
<1>9. ClearedInv'
  <2>1. \A i : i # w => Devices!AsksFor(i)' = Devices!AsksFor(i)
    BY <1>2 DEF Devices!AsksFor
  <2>2. Cardinality(Devices!AsksFor(w)') = Cardinality(Devices!AsksFor(w)) - 1
    <3>1. Devices!AsksFor(w)' = Devices!AsksFor(w) \ {a} /\ a \in Devices!AsksFor(w)
      BY <1>2 DEF Devices!AsksFor
    <3>2. IsFiniteSet(Devices!AsksFor(w))
      BY <1>3, FS_Subset DEF Devices!AsksFor
    <3>3. QED
      BY <3>1, <3>2, FS_RemoveElement
  <2>3. watches[w].cleared => late = Cardinality(Devices!AsksFor(w)')
    BY <1>1, <1>3, <1>4, <2>2 DEF ClearedInv, late
  <2>4. \A i \in 1..n :
           /\ watches'[i].timer <=> ~watches'[i].cleared
           /\ watches'[i].late = IF watches'[i].cleared THEN Cardinality(Devices!AsksFor(i)') ELSE 0
    BY <1>1, <1>3, <1>6, <2>1, <2>3 DEF ClearedInv
  <2>5. QED
    BY <1>6, <2>4 DEF ClearedInv
<1>10. QED
  BY <1>7, <1>8, <1>9 DEF WatchesInv

\* The native timeout was told: it is long enough, or is asked to be set
LEMMA TimeoutAnswered ==
    ASSUME WatchesInv, NEW a \in asks, Devices!AnswerTimeout(a)
    PROVE  WatchesInv'
<1>1. PICK n \in Nat : /\ DOMAIN watches = 1..n /\ Cardinality(DOMAIN watches) = n
                       /\ \A i \in 1..n : watches[i] \in WatchRec
  BY Numbered DEF WatchesInv
<1> DEFINE w == a.watch
           need == watches[w].frequency + Margin
           short == watches[w].frequency # Devices!NoFrequency /\ timeout < need
           ask == [what |-> "setTimeout", watch |-> w, to |-> need]
<1>2. /\ a.what = "getTimeout"
      /\ asks' = (asks \ {a}) \cup (IF short THEN {ask} ELSE {})
      /\ watches' = watches /\ timeout' = timeout /\ crossed' = crossed
  BY DEF Devices!AnswerTimeout, Devices!sensorVars
<1>3. /\ DevicesTyped /\ TimeoutInv /\ ClearedInv
      /\ IsFiniteSet(asks) /\ \A b \in asks : GoodQuestion(b)
  BY DEF WatchesInv, DevicesTyped
<1>4. w \in 1..n /\ watches[w].frequency \in Nat /\ timeout \in Nat
  <2>1. w \in 1..n
    BY <1>1, <1>2, <1>3 DEF GoodQuestion, AboutWatch
  <2>2. QED
    BY <1>1, <1>3, <2>1, TimesAssumption DEF DevicesTyped, WatchRec
<1>5. DevicesTyped'
  <2>1. IsFiniteSet(asks')
    <3>1. IsFiniteSet(asks \ {a})
      BY <1>3, FS_Subset
    <3>2. IsFiniteSet((asks \ {a}) \cup {ask})
      BY <3>1, FS_AddElement
    <3>3. QED
      BY <1>2, <3>1, <3>2
  <2>2. short => GoodQuestion(ask)
    BY <1>1, <1>4 DEF GoodQuestion, AboutWatch
  <2>3. \A b \in asks' : GoodQuestion(b)
    BY <1>2, <1>3, <2>2
  <2>4. \A b \in asks' : GoodQuestion(b)'
    BY <1>2, <2>3 DEF GoodQuestion
  <2>5. QED
    BY <1>2, <1>3, <2>1, <2>4 DEF DevicesTyped
<1>6. TimeoutInv'
  <2>1. SUFFICES ASSUME ~crossed
                 PROVE  /\ \A b, c \in Devices!AboutTimeout' : b = c
                        /\ \A i \in DOMAIN watches : Covered(i) \/ \E b \in Devices!AboutTimeout' : b.watch = i
    BY <1>2 DEF TimeoutInv, Covered
  <2>2. Devices!AboutTimeout = {a}
    BY <1>2, <1>3, <2>1 DEF TimeoutInv, Devices!AboutTimeout
  <2>3. \A i \in DOMAIN watches : i # w => Covered(i)
    BY <1>3, <2>1, <2>2 DEF TimeoutInv
  <2>4. CASE short
    <3>1. Devices!AboutTimeout' = {ask}
      BY <1>2, <2>2, <2>4 DEF Devices!AboutTimeout
    <3>2. QED
      BY <2>3, <3>1
  <2>5. CASE ~short
    <3>1. Devices!AboutTimeout' = {}
      BY <1>2, <2>2, <2>5 DEF Devices!AboutTimeout
    <3>2. Covered(w)
      BY <1>4, <2>5, TimesAssumption DEF Covered
    <3>3. QED
      BY <2>3, <3>1, <3>2
  <2>6. QED
    BY <2>4, <2>5
<1>7. ClearedInv'
  <2>1. \A i : Devices!AsksFor(i)' = Devices!AsksFor(i)
    BY <1>2 DEF Devices!AsksFor
  <2>2. QED
    BY <1>2, <1>3, <2>1 DEF ClearedInv
<1>8. QED
  BY <1>5, <1>6, <1>7 DEF WatchesInv

LEMMA TimeoutIsSet ==
    ASSUME WatchesInv, NEW a \in asks, Devices!SetTimeout(a)
    PROVE  WatchesInv'
<1>1. PICK n \in Nat : /\ DOMAIN watches = 1..n /\ Cardinality(DOMAIN watches) = n
                       /\ \A i \in 1..n : watches[i] \in WatchRec
  BY Numbered DEF WatchesInv
<1>2. /\ a.what = "setTimeout" /\ asks' = asks \ {a} /\ timeout' = a.to
      /\ watches' = watches /\ crossed' = crossed
  BY DEF Devices!SetTimeout
<1>3. /\ DevicesTyped /\ TimeoutInv /\ ClearedInv
      /\ IsFiniteSet(asks) /\ \A b \in asks : GoodQuestion(b)
  BY DEF WatchesInv, DevicesTyped
<1>4. /\ a.watch \in 1..n /\ a.to = watches[a.watch].frequency + Margin
      /\ timeout < a.to \/ crossed
  BY <1>1, <1>2, <1>3 DEF GoodQuestion, AboutWatch
<1>5. timeout \in Nat /\ a.to \in Nat /\ \A i \in 1..n : watches[i].frequency \in Nat
  <2>1. \A i \in 1..n : watches[i].frequency \in Nat
    BY <1>1, TimesAssumption DEF WatchRec
  <2>2. a.to \in Nat
    BY <1>4, <2>1, TimesAssumption
  <2>3. QED
    BY <1>3, <2>1, <2>2 DEF DevicesTyped
<1>6. ASSUME ~crossed
      PROVE  Devices!AboutTimeout = {a} /\ Devices!AboutTimeout' = {}
  <2>1. Devices!AboutTimeout = {a}
    BY <1>2, <1>3, <1>6 DEF TimeoutInv, Devices!AboutTimeout
  <2>2. QED
    BY <1>2, <2>1 DEF Devices!AboutTimeout
<1>7. DevicesTyped'
  <2>1. IsFiniteSet(asks')
    BY <1>2, <1>3, FS_Subset
  <2>2. \A b \in asks' : GoodQuestion(b)'
    <3>1. TAKE b \in asks'
    <3>2. GoodQuestion(b)
      BY <1>2, <1>3
    <3>3. b.what = "setTimeout" => crossed
      BY <1>2, <1>6 DEF Devices!AboutTimeout
    <3>4. QED
      BY <1>2, <3>2, <3>3 DEF GoodQuestion
  <2>3. QED
    BY <1>2, <1>3, <1>5, <2>1, <2>2 DEF DevicesTyped
<1>8. TimeoutInv'
  <2>1. SUFFICES ASSUME ~crossed
                 PROVE  \A i \in 1..n : Covered(i)'
    BY <1>1, <1>2, <1>6 DEF TimeoutInv
  <2>2. TAKE i \in 1..n
  <2>3. CASE i = a.watch
    BY <1>2, <1>4, <1>5, <2>3, TimesAssumption DEF Covered
  <2>4. CASE i # a.watch
    <3>1. Covered(i) /\ timeout < a.to
      BY <1>1, <1>3, <1>4, <1>6, <2>1, <2>4 DEF TimeoutInv
    <3>2. QED
      BY <1>2, <1>5, <3>1, TimesAssumption DEF Covered
  <2>5. QED
    BY <2>3, <2>4
<1>9. ClearedInv'
  <2>1. \A i : Devices!AsksFor(i)' = Devices!AsksFor(i)
    BY <1>2 DEF Devices!AsksFor
  <2>2. QED
    BY <1>2, <1>3, <2>1 DEF ClearedInv
<1>10. QED
  BY <1>7, <1>8, <1>9 DEF WatchesInv

\* A step of geolocation changes nothing of the watches and the contact
LEMMA GeolocationApart ==
    ASSUME WatchesInv,
           \/ Devices!GetCurrentPosition
           \/ \E id \in Devices!Ids : Devices!WatchPosition(id) \/ Devices!ClearPosition(id)
           \/ \E a \in asks : \/ Devices!GeoFail(a) \/ Devices!Stop(a)
                              \/ \E again \in BOOLEAN : Devices!Success(a, again)
    PROVE  WatchesInv' /\ contact' = contact
<1>1. /\ watches' = watches /\ timeout' = timeout /\ crossed' = crossed /\ contact' = contact
  BY DEF Devices!GetCurrentPosition, Devices!WatchPosition, Devices!ClearPosition, Devices!GeoFail,
         Devices!Stop, Devices!Success, Devices!geoRest, Devices!sensorVars
<1>2. /\ \E b : asks' \subseteq asks \cup {b}
      /\ \A a \in asks' \ asks : a.what = "position" \/ (a.what = "stop" /\ a.id \in Devices!Ids)
      /\ \A a \in asks \ asks' : a.what \in {"position", "stop"}
  <2>1. CASE Devices!GetCurrentPosition
    BY <2>1 DEF Devices!GetCurrentPosition
  <2>2. ASSUME NEW id \in Devices!Ids, Devices!WatchPosition(id) \/ Devices!ClearPosition(id)
        PROVE  <1>2!:
    BY <2>2 DEF Devices!WatchPosition, Devices!ClearPosition
  <2>3. ASSUME NEW a \in asks, Devices!GeoFail(a) \/ \E again \in BOOLEAN : Devices!Success(a, again)
        PROVE  <1>2!:
    BY <2>3 DEF Devices!GeoFail, Devices!Success
  <2>4. ASSUME NEW a \in asks, Devices!Stop(a)
        PROVE  <1>2!:
    BY <2>4 DEF Devices!Stop
  <2>5. QED
    BY <2>1, <2>2, <2>3, <2>4
<1>3. IsFiniteSet(asks')
  <2>1. PICK b : asks' \subseteq asks \cup {b}
    BY <1>2
  <2>2. IsFiniteSet(asks \cup {b})
    BY FS_AddElement DEF WatchesInv, DevicesTyped
  <2>3. QED
    BY <2>1, <2>2, FS_Subset
<1>4. \A a \in asks' \ asks : GoodQuestion(a)
  BY <1>2 DEF GoodQuestion, AboutWatch, Devices!Ids, Devices!Global
<1>5. \A a : a.what \in AboutWatch => (a \in asks' <=> a \in asks)
  BY <1>2 DEF AboutWatch
<1>6. QED
  BY <1>1, <1>3, <1>4, <1>5, WatchesKept

\* The position is waited for as long as it may come
LEMMA PositionStep ==
    ASSUME PositionInv, \A a \in asks : GoodQuestion(a),
           \/ Devices!GetCurrentPosition
           \/ \E id \in Devices!Ids : Devices!WatchPosition(id) \/ Devices!ClearPosition(id)
           \/ \E a \in asks : \/ Devices!GeoFail(a) \/ Devices!Stop(a)
                              \/ \E again \in BOOLEAN : Devices!Success(a, again)
    PROVE  PositionInv'
<1> DEFINE Global == Devices!Global
<1>1. geo \in [refused : BOOLEAN, failed : BOOLEAN] /\ (Global \in listeners => Devices!Asked(Global) \/ geo.failed)
  BY DEF PositionInv, Devices!PositionFreed
<1>2. \A id \in Devices!Ids : id # Global
  BY DEF Devices!Ids, Devices!Global
<1> HIDE DEF Global
<1>3. CASE Devices!GetCurrentPosition
  <2>1. CASE Global \in listeners
    <3>1. geo' = [geo EXCEPT !.refused = TRUE] /\ listeners' = listeners /\ asks' = asks
      BY <1>3, <2>1 DEF Devices!GetCurrentPosition, Global
    <3>2. geo' \in [refused : BOOLEAN, failed : BOOLEAN] /\ geo'.failed = geo.failed
      BY <1>1, <3>1
    <3>3. QED
      BY <1>1, <3>1, <3>2 DEF PositionInv, Devices!PositionFreed, Devices!Asked, Global
  <2>2. CASE Global \notin listeners
    <3>1. asks' = asks \cup {[what |-> "position", id |-> Global]} /\ geo' = geo
      BY <1>3, <2>2 DEF Devices!GetCurrentPosition, Global
    <3>2. Devices!Asked(Global)'
      <4> DEFINE ask == [what |-> "position", id |-> Global]
      <4>1. ask.what = "position" /\ ask.id = Global /\ ask \in asks'
        BY <3>1
      <4>2. QED
        BY <4>1 DEF Devices!Asked
    <3>3. QED
      BY <1>1, <3>1, <3>2 DEF PositionInv, Devices!PositionFreed, Global
  <2>3. QED
    BY <2>1, <2>2
<1>4. ASSUME NEW id \in Devices!Ids, Devices!WatchPosition(id) \/ Devices!ClearPosition(id)
      PROVE  PositionInv'
  <2>1. /\ geo' = geo /\ asks \subseteq asks' /\ (Global \in listeners' => Global \in listeners)
    BY <1>2, <1>4 DEF Devices!WatchPosition, Devices!ClearPosition
  <2>2. QED
    BY <1>1, <2>1 DEF PositionInv, Devices!PositionFreed, Devices!Asked, Global
<1>5. ASSUME NEW a \in asks, Devices!Stop(a)
      PROVE  PositionInv'
  <2>1. /\ a.what = "stop" /\ geo' = geo /\ listeners' = listeners
        /\ asks' = {b \in asks : b # a /\ ~(b.what = "position" /\ b.id = a.id)}
    BY <1>5 DEF Devices!Stop
  <2>2. a.id # Global
    BY <2>1 DEF GoodQuestion, Global
  <2>3. Devices!Asked(Global) => Devices!Asked(Global)'
    BY <2>1, <2>2 DEF Devices!Asked
  <2>4. QED
    BY <1>1, <2>1, <2>3 DEF PositionInv, Devices!PositionFreed, Global
<1>6. ASSUME NEW a \in asks, Devices!GeoFail(a)
      PROVE  PositionInv'
  <2>1. /\ geo' = [geo EXCEPT !.failed = @ \/ a.id = Global]
        /\ asks' = IF a.id = Global THEN asks \ {a} ELSE asks
        /\ listeners' = listeners
    BY <1>6 DEF Devices!GeoFail, Global
  <2>2. CASE a.id = Global
    <3>1. geo' = [geo EXCEPT !.failed = TRUE]
      BY <1>1, <2>1, <2>2
    <3>2. geo' \in [refused : BOOLEAN, failed : BOOLEAN] /\ geo'.failed
      BY <1>1, <3>1
    <3>3. QED
      BY <3>2 DEF PositionInv, Devices!PositionFreed
  <2>3. CASE a.id # Global
    <3>1. geo' = geo /\ asks' = asks
      BY <1>1, <2>1, <2>3
    <3>2. QED
      BY <1>1, <2>1, <3>1 DEF PositionInv, Devices!PositionFreed, Devices!Asked, Global
  <2>4. QED
    BY <2>2, <2>3
<1>7. ASSUME NEW a \in asks, NEW again \in BOOLEAN, Devices!Success(a, again)
      PROVE  PositionInv'
  <2> DEFINE refused == geo.refused \/ (again /\ Global \in listeners)
  <2>1. /\ geo' = [geo EXCEPT !.refused = refused]
        /\ asks' = IF a.id = Global THEN asks \ {a} ELSE asks
        /\ listeners' = IF a.id = Global THEN listeners \ {Global} ELSE listeners
    BY <1>7 DEF Devices!Success, Global
  <2>2. refused \in BOOLEAN
    BY <1>1
  <2> HIDE DEF refused
  <2>3. geo' \in [refused : BOOLEAN, failed : BOOLEAN] /\ geo'.failed = geo.failed
    BY <1>1, <2>1, <2>2
  <2>4. QED
    BY <1>1, <2>1, <2>3 DEF PositionInv, Devices!PositionFreed, Devices!Asked, Global
<1>8. QED
  BY <1>3, <1>4, <1>5, <1>6, <1>7

\* A step of a contact changes nothing of the watches and the position
LEMMA ContactStep ==
    ASSUME DevicesInv,
           \/ Devices!CloneContact \/ Devices!RemoveContact \/ Devices!SaveContact
           \/ \E a \in asks : Devices!AnswerContact(a)
    PROVE  DevicesInv'
<1>1. WatchesInv /\ PositionInv /\ contact \in Contact /\ Devices!CloneForgetsIds
  BY DEF DevicesInv, ContactInv
<1>2. /\ watches' = watches /\ timeout' = timeout /\ crossed' = crossed
      /\ listeners' = listeners /\ geo' = geo
  BY DEF Devices!CloneContact, Devices!RemoveContact, Devices!SaveContact, Devices!AnswerContact,
         Devices!contactRest, Devices!sensorVars
<1>3. /\ \E b : asks' \subseteq asks \cup {b}
      /\ \A a \in asks' \ asks : a.what \in {"save", "remove"}
      /\ \A a \in asks \ asks' : a.what \in {"save", "remove"}
  <2>1. CASE Devices!CloneContact \/ Devices!RemoveContact \/ Devices!SaveContact
    <3>1. \/ asks' = asks
          \/ asks' = asks \cup {[what |-> "remove"]}
          \/ asks' = asks \cup {[what |-> "save"]}
      BY <2>1 DEF Devices!CloneContact, Devices!RemoveContact, Devices!SaveContact
    <3>2. QED
      BY <3>1
  <2>2. ASSUME NEW a \in asks, Devices!AnswerContact(a)
        PROVE  <1>3!:
    BY <2>2 DEF Devices!AnswerContact
  <2>3. QED
    BY <2>1, <2>2
<1>4. WatchesInv'
  <2>1. IsFiniteSet(asks')
    <3>1. PICK b : asks' \subseteq asks \cup {b}
      BY <1>3
    <3>2. IsFiniteSet(asks \cup {b})
      BY <1>1, FS_AddElement DEF WatchesInv, DevicesTyped
    <3>3. QED
      BY <3>1, <3>2, FS_Subset
  <2>2. \A a \in asks' \ asks : GoodQuestion(a)
    BY <1>3 DEF GoodQuestion, AboutWatch
  <2>3. \A a : a.what \in AboutWatch => (a \in asks' <=> a \in asks)
    BY <1>3 DEF AboutWatch
  <2>4. QED
    BY <1>1, <1>2, <2>1, <2>2, <2>3, WatchesKept
<1>5. PositionInv'
  BY <1>1, <1>2, <1>3, PositionKept
<1>6. ContactInv'
  <2>1. CASE Devices!CloneContact
    <3> DEFINE cleared == [f \in Devices!Fields |->
                              IF contact.fields[f] # "absent" /\ f \in Devices!Cleared
                              THEN "no ids" ELSE contact.fields[f]]
    <3>1. contact' = [contact EXCEPT !.state = "clone", !.id = "null", !.fields = cleared]
      BY <2>1 DEF Devices!CloneContact, Devices!Clone
    <3>2. cleared \in [Devices!Fields -> {"absent", "no ids", "ids"}]
      BY <1>1 DEF Contact
    <3>3. \A f \in Devices!Fields \ {"categories"} : cleared[f] # "ids"
      BY <1>1 DEF Devices!Fields, Devices!Cleared
    <3> HIDE DEF cleared
    <3>4. contact' \in Contact /\ contact'.id = "null" /\ contact'.fields = cleared
      BY <1>1, <3>1, <3>2 DEF Contact
    <3>5. QED
      BY <3>3, <3>4 DEF ContactInv, Devices!CloneForgetsIds
  <2>2. CASE Devices!RemoveContact
    <3>1. contact' = contact \/ contact' = [contact EXCEPT !.state = "UNKNOWN_ERROR"]
      BY <2>2 DEF Devices!RemoveContact
    <3>2. CASE contact' = [contact EXCEPT !.state = "UNKNOWN_ERROR"]
      <4>1. contact' \in Contact /\ contact'.state = "UNKNOWN_ERROR"
        BY <1>1, <3>2 DEF Contact
      <4>2. QED
        BY <4>1 DEF ContactInv, Devices!CloneForgetsIds
    <3>3. QED
      BY <1>1, <3>1, <3>2 DEF ContactInv, Devices!CloneForgetsIds
  <2>3. CASE Devices!SaveContact
    BY <1>1, <2>3 DEF Devices!SaveContact, ContactInv, Devices!CloneForgetsIds
  <2>4. ASSUME NEW a \in asks, Devices!AnswerContact(a)
        PROVE  ContactInv'
    <3> DEFINE fields == [f \in Devices!Fields |-> IF contact.fields[f] = "absent" THEN "absent" ELSE "ids"]
    <3>1. contact' = contact \/ contact' = [contact EXCEPT !.state = "saved", !.id = "an id", !.fields = fields]
      BY <2>4 DEF Devices!AnswerContact
    <3>2. CASE contact' = [contact EXCEPT !.state = "saved", !.id = "an id", !.fields = fields]
      <4>1. fields \in [Devices!Fields -> {"absent", "no ids", "ids"}]
        OBVIOUS
      <4> HIDE DEF fields
      <4>2. contact' \in Contact /\ contact'.state = "saved"
        BY <1>1, <3>2, <4>1 DEF Contact
      <4>3. QED
        BY <4>2 DEF ContactInv, Devices!CloneForgetsIds
    <3>3. QED
      BY <1>1, <3>1, <3>2 DEF ContactInv, Devices!CloneForgetsIds
  <2>5. QED
    BY <2>1, <2>2, <2>3, <2>4
<1>7. QED
  BY <1>4, <1>5, <1>6 DEF DevicesInv

LEMMA DevicesStep ==
    ASSUME DevicesInv, Devices!Next
    PROVE  DevicesInv'
<1>1. WatchesInv /\ PositionInv /\ ContactInv
  BY DEF DevicesInv
<1> DEFINE SensorStep ==
    \/ \E frequency \in Frequencies : Devices!WatchAcceleration(frequency) \/ Devices!WatchHeading(frequency)
    \/ \E w \in DOMAIN watches : Devices!Tick(w) \/ Devices!ClearAcceleration(w) \/ Devices!ClearHeading(w)
    \/ \E a \in asks : Devices!AnswerReading(a) \/ Devices!AnswerTimeout(a) \/ Devices!SetTimeout(a)
           GeolocationStep ==
    \/ Devices!GetCurrentPosition
    \/ \E id \in Devices!Ids : Devices!WatchPosition(id) \/ Devices!ClearPosition(id)
    \/ \E a \in asks : \/ Devices!GeoFail(a) \/ Devices!Stop(a)
                       \/ \E again \in BOOLEAN : Devices!Success(a, again)
           StepOfContact ==
    \/ Devices!CloneContact \/ Devices!RemoveContact \/ Devices!SaveContact
    \/ \E a \in asks : Devices!AnswerContact(a)
<1>2. SensorStep \/ GeolocationStep \/ StepOfContact
  BY DEF Devices!Next
<1>3. CASE SensorStep
  <2>1. WatchesInv'
    BY <1>1, <1>3, WatchBegins, WatchTicks, WatchCleared, ReadingAnswered, TimeoutAnswered, TimeoutIsSet
       DEF Devices!WatchAcceleration, Devices!WatchHeading, Devices!ClearAcceleration, Devices!ClearHeading
  <2>2. /\ listeners' = listeners /\ geo' = geo /\ contact' = contact
        /\ \A a \in asks : a.what = "position" => a \in asks'
    <3>1. CASE \E frequency \in Frequencies :
                  Devices!WatchAcceleration(frequency) \/ Devices!WatchHeading(frequency)
      BY <3>1 DEF Devices!WatchAcceleration, Devices!WatchHeading, Devices!Watch, Devices!otherVars
    <3>2. CASE \E w \in DOMAIN watches :
                  Devices!Tick(w) \/ Devices!ClearAcceleration(w) \/ Devices!ClearHeading(w)
      BY <3>2 DEF Devices!Tick, Devices!ClearAcceleration, Devices!ClearHeading, Devices!Clear, Devices!otherVars
    <3>3. CASE \E a \in asks : Devices!AnswerReading(a) \/ Devices!AnswerTimeout(a) \/ Devices!SetTimeout(a)
      BY <3>3 DEF Devices!AnswerReading, Devices!AnswerTimeout, Devices!SetTimeout, Devices!otherVars
    <3>4. QED
      BY <1>3, <3>1, <3>2, <3>3
  <2>3. PositionInv'
    BY <1>1, <2>2, PositionKept
  <2>4. QED
    BY <1>1, <2>1, <2>2, <2>3 DEF DevicesInv, ContactInv, Devices!CloneForgetsIds
<1>4. CASE GeolocationStep
  <2>1. WatchesInv' /\ contact' = contact
    BY <1>1, <1>4, GeolocationApart
  <2>2. PositionInv'
    BY <1>1, <1>4, PositionStep DEF WatchesInv, DevicesTyped
  <2>3. QED
    BY <1>1, <2>1, <2>2 DEF DevicesInv, ContactInv, Devices!CloneForgetsIds
<1>5. CASE StepOfContact
  BY <1>5, ContactStep
<1>6. QED
  BY <1>2, <1>3, <1>4, <1>5

-----------------------------------------------------------------------------
(* The plugin, for any number of calls and of changes of connectivity        *)

Labels == {"off", "refused", "accepted", "set", "making", "made", "listens"}
Past == {"set", "making", "made", "listens"}

PluginFields ==
    [pc : [CallbackIds -> Labels], callbackId : CallbackIds \cup {Plugin!None},
     receiver : CallbackIds \cup {Plugin!None}, registered : Nat, broadcasts : Nat, pending : Nat,
     looked : BOOLEAN, heard : [CallbackIds -> Nat], crossed : BOOLEAN]

\* callbackId is set once a call is past its write, and names such a call
FieldNamesCall ==
    /\ \A id \in CallbackIds : plugin.pc[id] \in Past => plugin.callbackId # Plugin!None
    /\ plugin.callbackId # Plugin!None => plugin.pc[plugin.callbackId] \in Past

\* Nothing is broadcast before a receiver is registered, nor told to a call
\* that was not accepted
HeardAfterAll ==
    /\ plugin.registered > 0 => plugin.callbackId # Plugin!None
    /\ plugin.registered = 0 => plugin.broadcasts = 0 /\ plugin.pending = 0
    /\ plugin.looked => plugin.pending > 0 /\ plugin.callbackId # Plugin!None
    /\ \A id \in CallbackIds : plugin.heard[id] > 0 => id \in Plugin!Accepted

\* Without crossed looks one call is accepted, and registers once
OneAccepted ==
    ~plugin.crossed =>
        /\ \A i, j \in Plugin!Accepted : i = j
        /\ plugin.registered <= 1
        /\ plugin.registered > 0 => \E id \in CallbackIds : plugin.pc[id] = "listens"
        /\ \A id \in Plugin!Accepted : plugin.heard[id] + plugin.pending = plugin.broadcasts

PluginInv == plugin \in PluginFields /\ FieldNamesCall /\ HeardAfterAll /\ OneAccepted

LEMMA PluginInit == Plugin!Init => PluginInv
<1>1. SUFFICES ASSUME Plugin!Init PROVE PluginInv
  OBVIOUS
<1>2. plugin \in PluginFields
  BY <1>1 DEF Plugin!Init, PluginFields, Labels
<1>3. /\ \A id \in CallbackIds : plugin.pc[id] = "off" /\ plugin.heard[id] = 0
      /\ plugin.callbackId = Plugin!None /\ plugin.registered = 0 /\ plugin.broadcasts = 0
      /\ plugin.pending = 0 /\ plugin.looked = FALSE
  BY <1>1 DEF Plugin!Init
<1>4. Plugin!Accepted = {}
  BY <1>3 DEF Plugin!Accepted
<1>5. QED
  BY <1>2, <1>3, <1>4 DEF PluginInv, FieldNamesCall, HeardAfterAll, OneAccepted, Past

\* The fields of the record, one by one
LEMMA PluginFieldTypes ==
    ASSUME plugin \in PluginFields
    PROVE  /\ plugin.pc \in [CallbackIds -> Labels]
           /\ plugin.callbackId \in CallbackIds \cup {Plugin!None}
           /\ plugin.receiver \in CallbackIds \cup {Plugin!None}
           /\ plugin.registered \in Nat /\ plugin.broadcasts \in Nat /\ plugin.pending \in Nat
           /\ plugin.looked \in BOOLEAN
           /\ plugin.heard \in [CallbackIds -> Nat]
           /\ plugin.crossed \in BOOLEAN
BY DEF PluginFields

\* A call goes on within execute: nothing else changes but callbackId, which
\* it may write, and the receiver
LEMMA GoesOn ==
    ASSUME PluginInv, NEW id \in CallbackIds, NEW to \in Past,
           plugin.pc[id] \in Past \cup {"accepted"},
           plugin' \in PluginFields,
           plugin'.pc = [plugin.pc EXCEPT ![id] = to],
           \/ (plugin'.callbackId = plugin.callbackId) /\ (plugin.pc[id] \in Past)
           \/ plugin'.callbackId = id,
           plugin'.broadcasts = plugin.broadcasts, plugin'.pending = plugin.pending,
           plugin'.looked = plugin.looked, plugin'.heard = plugin.heard,
           plugin'.crossed = plugin.crossed,
           \/ (plugin'.registered = plugin.registered) /\ (plugin.pc[id] # "listens")
           \/ (plugin'.registered = plugin.registered + 1) /\ (plugin.pc[id] = "made") /\ (to = "listens")
    PROVE  PluginInv'
<1>1. plugin \in PluginFields /\ FieldNamesCall /\ HeardAfterAll /\ OneAccepted
  BY DEF PluginInv
<1>2. plugin.pc \in [CallbackIds -> Labels]
  BY <1>1, PluginFieldTypes
<1>3. \A k \in CallbackIds : plugin'.pc[k] = IF k = id THEN to ELSE plugin.pc[k]
  BY <1>2
<1>4. Plugin!Accepted' = Plugin!Accepted /\ id \in Plugin!Accepted
  BY <1>3 DEF Plugin!Accepted, Past
<1>5. plugin'.callbackId # Plugin!None /\ plugin'.pc[plugin'.callbackId] \in Past
  <2>1. CASE plugin'.callbackId = id
    BY <2>1, <1>3, CallbacksAssumption
  <2>2. CASE plugin'.callbackId = plugin.callbackId /\ plugin.pc[id] \in Past
    <3>1. plugin.callbackId # Plugin!None /\ plugin.pc[plugin.callbackId] \in Past
      BY <1>1, <2>2 DEF FieldNamesCall
    <3>2. plugin.callbackId \in CallbackIds
      BY <1>1, <3>1, PluginFieldTypes
    <3>3. QED
      BY <1>3, <2>2, <3>1, <3>2
  <2>3. QED
    BY <2>1, <2>2
<1>6. FieldNamesCall'
  BY <1>5 DEF FieldNamesCall
<1>7. plugin'.registered = 0 => plugin.registered = 0
  BY <1>1, PluginFieldTypes
<1>8. HeardAfterAll'
  BY <1>1, <1>4, <1>5, <1>7 DEF HeardAfterAll
<1>9. OneAccepted'
  <2>1. SUFFICES ASSUME ~plugin.crossed PROVE
            /\ plugin'.registered <= 1
            /\ plugin'.registered > 0 => \E k \in CallbackIds : plugin'.pc[k] = "listens"
    BY <1>1, <1>4 DEF OneAccepted
  <2>2. /\ \A i, j \in Plugin!Accepted : i = j
        /\ plugin.registered <= 1 /\ plugin.registered \in Nat
        /\ plugin.registered > 0 => \E k \in CallbackIds : plugin.pc[k] = "listens"
    BY <1>1, <2>1, PluginFieldTypes DEF OneAccepted
  <2>3. ASSUME NEW k \in CallbackIds, plugin.pc[k] = "listens"
        PROVE  k = id
    BY <1>4, <2>2, <2>3 DEF Plugin!Accepted
  <2>4. CASE plugin'.registered = plugin.registered /\ plugin.pc[id] # "listens"
    BY <2>2, <2>3, <2>4
  <2>5. CASE plugin'.registered = plugin.registered + 1 /\ plugin.pc[id] = "made" /\ to = "listens"
    <3>1. plugin.registered = 0
      BY <2>2, <2>3, <2>5
    <3>2. plugin'.pc[id] = "listens"
      BY <1>3, <2>5
    <3>3. QED
      BY <2>5, <3>1, <3>2
  <2>6. QED
    BY <2>4, <2>5
<1>10. QED
  BY <1>6, <1>8, <1>9 DEF PluginInv

LEMMA PluginStep ==
    ASSUME PluginInv, Plugin!Next
    PROVE  PluginInv'
<1>1. plugin \in PluginFields /\ FieldNamesCall /\ HeardAfterAll /\ OneAccepted
  BY DEF PluginInv
<1>2. /\ plugin.pc \in [CallbackIds -> Labels]
      /\ plugin.callbackId \in CallbackIds \cup {Plugin!None}
      /\ plugin.registered \in Nat /\ plugin.broadcasts \in Nat /\ plugin.pending \in Nat
      /\ plugin.looked \in BOOLEAN
      /\ plugin.heard \in [CallbackIds -> Nat]
      /\ plugin.crossed \in BOOLEAN
  BY <1>1, PluginFieldTypes
<1>3. ASSUME NEW id \in CallbackIds, Plugin!Refuse(id)
      PROVE  PluginInv'
  <2>1. /\ plugin.pc[id] = "off"
        /\ plugin' = [plugin EXCEPT !.pc[id] = "refused"]
    BY <1>3 DEF Plugin!Refuse, Plugin!At
  <2>2. plugin' \in PluginFields
    BY <1>1, <2>1 DEF PluginFields, Labels
  <2>3. /\ plugin'.pc = [plugin.pc EXCEPT ![id] = "refused"]
        /\ plugin'.callbackId = plugin.callbackId /\ plugin'.registered = plugin.registered
        /\ plugin'.broadcasts = plugin.broadcasts /\ plugin'.pending = plugin.pending
        /\ plugin'.looked = plugin.looked /\ plugin'.heard = plugin.heard
        /\ plugin'.crossed = plugin.crossed
    BY <1>1, <2>1 DEF PluginFields
  <2>4. \A k \in CallbackIds : plugin'.pc[k] = IF k = id THEN "refused" ELSE plugin.pc[k]
    BY <1>2, <2>3
  <2>5. Plugin!Accepted' = Plugin!Accepted
    BY <2>1, <2>4 DEF Plugin!Accepted
  <2>6. FieldNamesCall'
    BY <1>1, <1>2, <2>1, <2>3, <2>4 DEF FieldNamesCall, Past
  <2>7. HeardAfterAll'
    BY <1>1, <2>3, <2>5 DEF HeardAfterAll
  <2>8. OneAccepted'
    BY <1>1, <2>1, <2>3, <2>4, <2>5 DEF OneAccepted
  <2>9. QED
    BY <2>2, <2>6, <2>7, <2>8 DEF PluginInv
<1>4. ASSUME NEW id \in CallbackIds, Plugin!Accept(id)
      PROVE  PluginInv'
  <2> DEFINE Crossing == \E other \in CallbackIds : Plugin!At(other, "accepted")
  <2>1. /\ plugin.pc[id] = "off" /\ plugin.callbackId = Plugin!None
        /\ plugin' = [plugin EXCEPT !.pc[id] = "accepted", !.crossed = @ \/ Crossing]
    BY <1>4 DEF Plugin!Accept, Plugin!At
  <2>2. Crossing \in BOOLEAN
    OBVIOUS
  <2>3. plugin' \in PluginFields /\ plugin'.crossed = (plugin.crossed \/ Crossing)
    <3> HIDE DEF Crossing
    <3>1. (plugin.crossed \/ Crossing) \in BOOLEAN
      BY <1>2, <2>2
    <3>2. QED
      BY <1>1, <2>1, <3>1 DEF PluginFields, Labels
  <2>4. /\ plugin'.pc = [plugin.pc EXCEPT ![id] = "accepted"]
        /\ plugin'.callbackId = plugin.callbackId /\ plugin'.registered = plugin.registered
        /\ plugin'.broadcasts = plugin.broadcasts /\ plugin'.pending = plugin.pending
        /\ plugin'.looked = plugin.looked /\ plugin'.heard = plugin.heard
    <3> HIDE DEF Crossing
    <3>1. QED
      BY <1>1, <2>1 DEF PluginFields
  <2>5. \A k \in CallbackIds : plugin'.pc[k] = IF k = id THEN "accepted" ELSE plugin.pc[k]
    BY <1>2, <2>4
  <2>6. Plugin!Accepted' = Plugin!Accepted \cup {id}
    BY <2>5 DEF Plugin!Accepted
  <2>7. FieldNamesCall'
    BY <1>1, <1>2, <2>1, <2>4, <2>5 DEF FieldNamesCall, Past
  <2>8. HeardAfterAll'
    BY <1>1, <2>4, <2>6 DEF HeardAfterAll
  <2>9. OneAccepted'
    <3>1. SUFFICES ASSUME ~plugin'.crossed
                   PROVE  /\ \A i, j \in Plugin!Accepted' : i = j
                          /\ plugin'.registered <= 1
                          /\ plugin'.registered > 0 => \E k \in CallbackIds : plugin'.pc[k] = "listens"
                          /\ \A i \in Plugin!Accepted' : plugin'.heard[i] + plugin'.pending = plugin'.broadcasts
      BY DEF OneAccepted
    <3>2. ~Crossing
      BY <2>3, <3>1
    <3>3. Plugin!Accepted = {}
      BY <1>1, <1>2, <2>1, <3>2 DEF Plugin!Accepted, FieldNamesCall, Past, Labels, Plugin!At
    <3>4. /\ plugin.registered = 0 /\ plugin.broadcasts = 0 /\ plugin.pending = 0
      BY <1>1, <1>2, <2>1 DEF HeardAfterAll
    <3>5. plugin.heard[id] = 0
      BY <1>1, <1>2, <3>3 DEF HeardAfterAll
    <3>6. QED
      BY <2>4, <2>6, <3>3, <3>4, <3>5
  <2>10. QED
    BY <2>3, <2>7, <2>8, <2>9 DEF PluginInv
<1>5. ASSUME NEW id \in CallbackIds, Plugin!SetCallbackId(id)
      PROVE  PluginInv'
  <2>1. /\ plugin.pc[id] = "accepted"
        /\ plugin' = [plugin EXCEPT !.pc[id] = "set", !.callbackId = id]
    BY <1>5 DEF Plugin!SetCallbackId, Plugin!At
  <2>2. plugin' \in PluginFields
    BY <1>1, <2>1 DEF PluginFields, Labels
  <2>3. /\ plugin'.pc = [plugin.pc EXCEPT ![id] = "set"]
        /\ plugin'.callbackId = id /\ plugin'.registered = plugin.registered
        /\ plugin'.broadcasts = plugin.broadcasts /\ plugin'.pending = plugin.pending
        /\ plugin'.looked = plugin.looked /\ plugin'.heard = plugin.heard
        /\ plugin'.crossed = plugin.crossed
    BY <1>1, <2>1 DEF PluginFields
  <2>4. QED
    BY <2>1, <2>2, <2>3, GoesOn DEF Past
<1>6. ASSUME NEW id \in CallbackIds, Plugin!KeepReceiver(id)
      PROVE  PluginInv'
  <2>1. /\ plugin.pc[id] = "set"
        /\ plugin' = [plugin EXCEPT !.pc[id] = "listens"]
    BY <1>6 DEF Plugin!KeepReceiver, Plugin!At
  <2>2. plugin' \in PluginFields
    BY <1>1, <2>1 DEF PluginFields, Labels
  <2>3. /\ plugin'.pc = [plugin.pc EXCEPT ![id] = "listens"]
        /\ plugin'.callbackId = plugin.callbackId /\ plugin'.registered = plugin.registered
        /\ plugin'.broadcasts = plugin.broadcasts /\ plugin'.pending = plugin.pending
        /\ plugin'.looked = plugin.looked /\ plugin'.heard = plugin.heard
        /\ plugin'.crossed = plugin.crossed
    BY <1>1, <2>1 DEF PluginFields
  <2>4. QED
    BY <2>1, <2>2, <2>3, GoesOn DEF Past
<1>7. ASSUME NEW id \in CallbackIds, Plugin!MakeReceiver(id)
      PROVE  PluginInv'
  <2>1. /\ plugin.pc[id] = "set"
        /\ plugin' = [plugin EXCEPT !.pc[id] = "making"]
    BY <1>7 DEF Plugin!MakeReceiver, Plugin!At
  <2>2. plugin' \in PluginFields
    BY <1>1, <2>1 DEF PluginFields, Labels
  <2>3. /\ plugin'.pc = [plugin.pc EXCEPT ![id] = "making"]
        /\ plugin'.callbackId = plugin.callbackId /\ plugin'.registered = plugin.registered
        /\ plugin'.broadcasts = plugin.broadcasts /\ plugin'.pending = plugin.pending
        /\ plugin'.looked = plugin.looked /\ plugin'.heard = plugin.heard
        /\ plugin'.crossed = plugin.crossed
    BY <1>1, <2>1 DEF PluginFields
  <2>4. QED
    BY <2>1, <2>2, <2>3, GoesOn DEF Past
<1>8. ASSUME NEW id \in CallbackIds, Plugin!SetReceiver(id)
      PROVE  PluginInv'
  <2>1. /\ plugin.pc[id] = "making"
        /\ plugin' = [plugin EXCEPT !.pc[id] = "made", !.receiver = id]
    BY <1>8 DEF Plugin!SetReceiver, Plugin!At
  <2>2. plugin' \in PluginFields
    BY <1>1, <2>1 DEF PluginFields, Labels
  <2>3. /\ plugin'.pc = [plugin.pc EXCEPT ![id] = "made"]
        /\ plugin'.callbackId = plugin.callbackId /\ plugin'.registered = plugin.registered
        /\ plugin'.broadcasts = plugin.broadcasts /\ plugin'.pending = plugin.pending
        /\ plugin'.looked = plugin.looked /\ plugin'.heard = plugin.heard
        /\ plugin'.crossed = plugin.crossed
    BY <1>1, <2>1 DEF PluginFields
  <2>4. QED
    BY <2>1, <2>2, <2>3, GoesOn DEF Past
<1>9. ASSUME NEW id \in CallbackIds, Plugin!RegisterReceiver(id)
      PROVE  PluginInv'
  <2>1. /\ plugin.pc[id] = "made"
        /\ plugin' = [plugin EXCEPT !.pc[id] = "listens", !.registered = @ + 1]
    BY <1>9 DEF Plugin!RegisterReceiver, Plugin!At
  <2>2. plugin' \in PluginFields
    <3>1. plugin.registered + 1 \in Nat
      BY <1>2
    <3>2. QED
      BY <1>1, <2>1, <3>1 DEF PluginFields, Labels
  <2>3. /\ plugin'.pc = [plugin.pc EXCEPT ![id] = "listens"]
        /\ plugin'.callbackId = plugin.callbackId /\ plugin'.registered = plugin.registered + 1
        /\ plugin'.broadcasts = plugin.broadcasts /\ plugin'.pending = plugin.pending
        /\ plugin'.looked = plugin.looked /\ plugin'.heard = plugin.heard
        /\ plugin'.crossed = plugin.crossed
    BY <1>1, <2>1 DEF PluginFields
  <2>4. QED
    BY <2>1, <2>2, <2>3, GoesOn DEF Past
<1>10. CASE Plugin!Broadcast
  <2>1. /\ plugin.registered > 0
        /\ plugin' = [plugin EXCEPT !.broadcasts = @ + 1, !.pending = @ + plugin.registered]
    BY <1>10 DEF Plugin!Broadcast
  <2>2. plugin' \in PluginFields
    <3>1. plugin.broadcasts + 1 \in Nat /\ plugin.pending + plugin.registered \in Nat
      BY <1>2
    <3>2. QED
      BY <1>1, <2>1, <3>1 DEF PluginFields
  <2>3. /\ plugin'.pc = plugin.pc
        /\ plugin'.callbackId = plugin.callbackId /\ plugin'.registered = plugin.registered
        /\ plugin'.broadcasts = plugin.broadcasts + 1
        /\ plugin'.pending = plugin.pending + plugin.registered
        /\ plugin'.looked = plugin.looked /\ plugin'.heard = plugin.heard
        /\ plugin'.crossed = plugin.crossed
    BY <1>1, <2>1 DEF PluginFields
  <2>4. Plugin!Accepted' = Plugin!Accepted
    BY <2>3 DEF Plugin!Accepted
  <2>5. FieldNamesCall'
    BY <1>1, <2>3 DEF FieldNamesCall
  <2>6. HeardAfterAll'
    BY <1>1, <1>2, <2>1, <2>3, <2>4 DEF HeardAfterAll
  <2>7. OneAccepted'
    <3>1. SUFFICES ASSUME ~plugin.crossed
                   PROVE  \A i \in Plugin!Accepted : plugin.heard[i] + plugin'.pending = plugin'.broadcasts
      BY <1>1, <2>3, <2>4 DEF OneAccepted
    <3>2. plugin.registered = 1
      BY <1>1, <1>2, <2>1, <3>1 DEF OneAccepted
    <3>3. TAKE i \in Plugin!Accepted
    <3>4. plugin.heard[i] \in Nat /\ plugin.heard[i] + plugin.pending = plugin.broadcasts
      BY <1>1, <1>2, <3>1 DEF OneAccepted, Plugin!Accepted
    <3>5. QED
      BY <1>2, <2>3, <3>2, <3>4
  <2>8. QED
    BY <2>2, <2>5, <2>6, <2>7 DEF PluginInv
<1>11. CASE Plugin!OnReceive
  <2>1. /\ plugin.pending > 0 /\ plugin.callbackId # Plugin!None
        /\ plugin' = [plugin EXCEPT !.looked = TRUE]
    BY <1>11 DEF Plugin!OnReceive
  <2>2. plugin' \in PluginFields
    BY <1>1, <2>1 DEF PluginFields
  <2>3. /\ plugin'.pc = plugin.pc
        /\ plugin'.callbackId = plugin.callbackId /\ plugin'.registered = plugin.registered
        /\ plugin'.broadcasts = plugin.broadcasts /\ plugin'.pending = plugin.pending
        /\ plugin'.heard = plugin.heard /\ plugin'.crossed = plugin.crossed
    BY <1>1, <2>1 DEF PluginFields
  <2>4. Plugin!Accepted' = Plugin!Accepted
    BY <2>3 DEF Plugin!Accepted
  <2>5. FieldNamesCall'
    BY <1>1, <2>3 DEF FieldNamesCall
  <2>6. HeardAfterAll'
    BY <1>1, <2>1, <2>3, <2>4 DEF HeardAfterAll
  <2>7. OneAccepted'
    BY <1>1, <2>3, <2>4 DEF OneAccepted
  <2>8. QED
    BY <2>2, <2>5, <2>6, <2>7 DEF PluginInv
<1>12. CASE Plugin!CallBack
  <2> DEFINE id == plugin.callbackId
  <2>1. /\ plugin.looked
        /\ plugin' = [plugin EXCEPT !.looked = FALSE, !.pending = @ - 1, !.heard[id] = @ + 1]
    BY <1>12 DEF Plugin!CallBack
  <2>2. plugin.pending > 0 /\ id # Plugin!None /\ id \in CallbackIds /\ plugin.pc[id] \in Past
    BY <1>1, <1>2, <2>1 DEF HeardAfterAll, FieldNamesCall
  <2>3. plugin' \in PluginFields
    <3>1. plugin.pending - 1 \in Nat /\ plugin.heard[id] + 1 \in Nat
      BY <1>2, <2>2
    <3>2. QED
      BY <1>1, <2>1, <2>2, <3>1 DEF PluginFields
  <2>4. /\ plugin'.pc = plugin.pc
        /\ plugin'.callbackId = plugin.callbackId /\ plugin'.registered = plugin.registered
        /\ plugin'.broadcasts = plugin.broadcasts /\ plugin'.pending = plugin.pending - 1
        /\ plugin'.looked = FALSE /\ plugin'.crossed = plugin.crossed
        /\ plugin'.heard = [plugin.heard EXCEPT ![id] = @ + 1]
    BY <1>1, <2>1 DEF PluginFields
  <2>5. Plugin!Accepted' = Plugin!Accepted /\ id \in Plugin!Accepted
    BY <2>2, <2>4 DEF Plugin!Accepted, Past
  <2>6. FieldNamesCall'
    BY <1>1, <2>4 DEF FieldNamesCall
  <2>7. HeardAfterAll'
    <3>1. ASSUME NEW k \in CallbackIds, plugin'.heard[k] > 0
          PROVE  k \in Plugin!Accepted'
      BY <1>1, <1>2, <2>2, <2>4, <2>5, <3>1 DEF HeardAfterAll
    <3>2. plugin.registered # 0
      BY <1>1, <2>2 DEF HeardAfterAll
    <3>3. QED
      BY <1>1, <2>4, <3>1, <3>2 DEF HeardAfterAll
  <2>8. OneAccepted'
    <3>1. SUFFICES ASSUME ~plugin.crossed
                   PROVE  \A i \in Plugin!Accepted : plugin'.heard[i] + plugin'.pending = plugin'.broadcasts
      BY <1>1, <2>4, <2>5 DEF OneAccepted
    <3>2. TAKE i \in Plugin!Accepted
    <3>3. i = id /\ plugin.heard[id] + plugin.pending = plugin.broadcasts
      BY <1>1, <2>5, <3>1 DEF OneAccepted
    <3>4. plugin'.heard[id] = plugin.heard[id] + 1 /\ plugin.heard[id] \in Nat
      BY <1>2, <2>2, <2>4
    <3>5. QED
      BY <1>2, <2>4, <3>3, <3>4
  <2>9. QED
    BY <2>3, <2>6, <2>7, <2>8 DEF PluginInv
<1>13. QED
  BY <1>3, <1>4, <1>5, <1>6, <1>7, <1>8, <1>9, <1>10, <1>11, <1>12 DEF Plugin!Next

LEMMA PluginIsRight ==
    ASSUME PluginInv
    PROVE  Plugin!OneListens /\ Plugin!RefusedHearsNothing
<1>1. plugin \in PluginFields /\ FieldNamesCall /\ HeardAfterAll /\ OneAccepted
  BY DEF PluginInv
<1>2. plugin.registered > 0 => plugin.callbackId \in Plugin!Accepted
  BY <1>1, PluginFieldTypes DEF FieldNamesCall, HeardAfterAll, Plugin!Accepted, Past
<1>3. ASSUME ~plugin.crossed PROVE Cardinality(Plugin!Accepted) <= 1
  <2>1. CASE Plugin!Accepted = {}
    BY <2>1, FS_EmptySet
  <2>2. CASE Plugin!Accepted # {}
    <3>1. PICK id : id \in Plugin!Accepted
      BY <2>2
    <3>2. Plugin!Accepted = {id}
      BY <1>1, <1>3, <3>1 DEF OneAccepted
    <3>3. Cardinality({id}) = 1
      BY FS_Singleton
    <3>4. QED
      BY <3>2, <3>3
  <2>3. QED
    BY <2>1, <2>2
<1>4. Plugin!Cardinality(Plugin!Accepted) = Cardinality(Plugin!Accepted)
  BY SameCount
<1>5. Plugin!OneListens
  BY <1>1, <1>2, <1>3, <1>4 DEF Plugin!OneListens, OneAccepted
<1>6. Plugin!RefusedHearsNothing
  BY <1>1 DEF Plugin!RefusedHearsNothing, HeardAfterAll
<1>7. QED
  BY <1>5, <1>6

-----------------------------------------------------------------------------
(* A behaviour of PartsSpec                                                  *)

FilesPartInv ==
    /\ part = "reader" => ReaderInv
    /\ part = "files" => FilesInv

DevicesPartInv ==
    /\ part = "devices" => DevicesInv
    /\ part = "plugin" => PluginInv

LEMMA FilesPartInit == PartsInit => FilesPartInv
<1>1. SUFFICES ASSUME PartsInit
               PROVE  ReaderInv /\ FilesInv
  BY DEF FilesPartInv
<1>2. ReaderInv
  <2>1. /\ reader = [state |-> "EMPTY", result |-> "none", error |-> "none"]
        /\ asks = {} /\ reads = <<>> /\ tangled = FALSE
    BY <1>1 DEF PartsInit, Reader!Init, Reader!NewReader, Reader!None
  <2>2. reader \in FileReader
    BY <2>1 DEF FileReader
  <2>3. reads \in Seq(Heard) /\ DOMAIN reads = {}
    BY <2>1
  <2>4. QED
    BY <2>1, <2>2, <2>3 DEF ReaderInv, Reader!ReadsEndOnce
<1>3. FilesInv
  <2>1. /\ writer = [state |-> "none", position |-> 0, length |-> 0, error |-> "none"]
        /\ asks = {} /\ tangled = FALSE /\ size \in 0..MaxSize
    BY <1>1 DEF PartsInit, Files!Init, Files!None, Files!Sizes
  <2>2. writer \in FileWriter /\ writer.state = "none"
    BY <2>1 DEF FileWriter
  <2>3. Files!Writing = {}
    BY <2>1 DEF Files!Writing
  <2>4. size \in Nat
    BY <2>1, SizeAssumption
  <2>5. FilesTyped
    BY <2>1, <2>2, <2>4 DEF FilesTyped
  <2>6. QED
    BY <2>2, <2>3, <2>5 DEF FilesInv, WriterInv
<1>4. QED
  BY <1>2, <1>3

LEMMA FilesPartStep ==
    ASSUME FilesPartInv, [PartsNext]_partsVars
    PROVE  FilesPartInv'
<1>1. CASE UNCHANGED partsVars
  BY <1>1 DEF FilesPartInv, partsVars, phoneGapVars, waiting, readerVars, filesVars,
              ReaderInv, Reader!ReadsEndOnce, FilesInv, FilesTyped, WriterInv, Files!Writing
<1>2. CASE PartsNext
  <2>1. part' = part
    BY <1>2 DEF PartsNext
  <2>2. CASE part = "reader"
    <3>1. Reader!Next
      BY <1>2, <2>2 DEF PartsNext, StepOfPhoneGap
    <3>2. QED
      BY <2>1, <2>2, <3>1, ReaderStep DEF FilesPartInv
  <2>3. CASE part = "files"
    <3>1. Files!Next
      BY <1>2, <2>3 DEF PartsNext, StepOfPhoneGap
    <3>2. QED
      BY <2>1, <2>3, <3>1, FilesStep DEF FilesPartInv
  <2>4. QED
    BY <2>1, <2>2, <2>3 DEF FilesPartInv
<1>3. QED
  BY <1>1, <1>2

\* Of a FileReader each read ends once, with its own result, and the reader is
\* DONE just then; of a FileWriter the length and the position are right
\* whenever nothing is written, for every number of reads and of writes.
THEOREM FilesRightTheorem == PartsSpec => []FilesRight
<1>1. FilesPartInv => FilesRight
  BY DEF FilesPartInv, FilesRight, ReaderInv, Reader!ReadsEndOnce, FilesInv, WriterInv,
         Files!WriterKnowsFile, Files!None
<1>2. QED
  BY <1>1, FilesPartInit, FilesPartStep, PTL DEF PartsSpec

LEMMA DevicesPartInit == PartsInit => DevicesPartInv
<1>1. SUFFICES ASSUME PartsInit
               PROVE  DevicesInv /\ PluginInv
  BY DEF DevicesPartInv
<1>2. WatchesInv
  <2>1. /\ watches = [w \in {} |-> Devices!New(Devices!NoFrequency)] /\ asks = {}
        /\ timeout = FirstTimeout /\ crossed = FALSE
    BY <1>1 DEF PartsInit, Devices!Init
  <2>2. watches \in [1..0 -> WatchRec] /\ DOMAIN watches = {}
    BY <2>1
  <2>3. DevicesTyped
    <3>1. \E n \in Nat : watches \in [1..n -> WatchRec]
      BY <2>2
    <3>2. IsFiniteSet(asks)
      BY <2>1, FS_EmptySet
    <3>3. QED
      BY <2>1, <3>1, <3>2, TimesAssumption DEF DevicesTyped
  <2>4. QED
    BY <2>1, <2>2, <2>3 DEF WatchesInv, TimeoutInv, ClearedInv, Devices!AboutTimeout
<1>3. PositionInv
  <2>1. listeners = {} /\ geo = [refused |-> FALSE, failed |-> FALSE]
    BY <1>1 DEF PartsInit, Devices!Init
  <2>2. QED
    BY <2>1 DEF PositionInv, Devices!PositionFreed
<1>4. ContactInv
  <2>1. PICK present \in SUBSET Devices!Fields :
            contact = [state |-> "new", id |-> "null",
                       fields |-> [f \in Devices!Fields |-> IF f \in present THEN "no ids" ELSE "absent"]]
    BY <1>1 DEF PartsInit, Devices!Init
  <2>2. contact \in Contact /\ contact.state = "new"
    BY <2>1 DEF Contact
  <2>3. QED
    BY <2>2 DEF ContactInv, Devices!CloneForgetsIds
<1>5. PluginInv
  BY <1>1, PluginInit DEF PartsInit
<1>6. QED
  BY <1>2, <1>3, <1>4, <1>5 DEF DevicesInv

LEMMA DevicesPartStep ==
    ASSUME DevicesPartInv, [PartsNext]_partsVars
    PROVE  DevicesPartInv'
<1>1. CASE UNCHANGED partsVars
  <2>1. /\ part' = part /\ asks' = asks /\ plugin' = plugin
        /\ watches' = watches /\ timeout' = timeout /\ crossed' = crossed
        /\ listeners' = listeners /\ geo' = geo /\ contact' = contact
    BY <1>1 DEF partsVars, phoneGapVars, waiting, devicesVars
  <2>2. DevicesInv => DevicesInv'
    <3>1. SUFFICES ASSUME DevicesInv PROVE DevicesInv'
      OBVIOUS
    <3>2. WatchesInv'
      BY <2>1, <3>1, WatchesKept DEF DevicesInv, WatchesInv, DevicesTyped
    <3>3. PositionInv'
      BY <2>1, <3>1, PositionKept DEF DevicesInv
    <3>4. QED
      BY <2>1, <3>1, <3>2, <3>3 DEF DevicesInv, ContactInv, Devices!CloneForgetsIds
  <2>3. PluginInv => PluginInv'
    BY <2>1 DEF PluginInv, FieldNamesCall, HeardAfterAll, OneAccepted, Plugin!Accepted
  <2>4. QED
    BY <2>1, <2>2, <2>3 DEF DevicesPartInv
<1>2. CASE PartsNext
  <2>1. part' = part
    BY <1>2 DEF PartsNext
  <2>2. CASE part = "devices"
    <3>1. Devices!Next
      BY <1>2, <2>2 DEF PartsNext, StepOfPhoneGap
    <3>2. QED
      BY <2>1, <2>2, <3>1, DevicesStep DEF DevicesPartInv
  <2>3. CASE part = "plugin"
    <3>1. Plugin!Next
      BY <1>2, <2>3 DEF PartsNext, StepOfPhoneGap
    <3>2. QED
      BY <2>1, <2>3, <3>1, PluginStep DEF DevicesPartInv
  <2>4. QED
    BY <2>1, <2>2, <2>3 DEF DevicesPartInv
<1>3. QED
  BY <1>1, <1>2

\* The timeout of a sensor covers its watches, a cleared watch is quiet, a
\* position is waited for as long as it may come, a clone has no ids, and one
\* call of the plugin hears each change once, for all frequencies, watches,
\* calls and changes.
THEOREM DevicesRightTheorem == PartsSpec => []DevicesRight
<1>1. DevicesPartInv => DevicesRight
  <2>1. SUFFICES ASSUME DevicesPartInv PROVE DevicesRight
    OBVIOUS
  <2>2. ASSUME DevicesInv
        PROVE  /\ Devices!TimeoutCovers /\ Devices!ClearedIsQuiet
               /\ Devices!PositionFreed /\ Devices!CloneForgetsIds
    <3>1. DevicesTyped /\ TimeoutInv /\ ClearedInv /\ PositionInv /\ ContactInv
      BY <2>2 DEF DevicesInv, WatchesInv
    <3>2. Devices!TimeoutCovers
      BY <3>1 DEF TimeoutInv, Covered, Devices!TimeoutCovers
    <3>3. \A w \in DOMAIN watches : watches[w].late >= 0
      <4>1. TAKE w \in DOMAIN watches
      <4>2. IsFiniteSet(Devices!AsksFor(w))
        BY <3>1, FS_Subset DEF Devices!AsksFor, DevicesTyped
      <4>3. Cardinality(Devices!AsksFor(w)) \in Nat
        BY <4>2, FS_CardinalityType
      <4>4. QED
        BY <3>1, <4>3 DEF ClearedInv
    <3>4. QED
      BY <3>1, <3>2, <3>3 DEF Devices!ClearedIsQuiet, PositionInv, ContactInv
  <2>3. QED
    BY <2>1, <2>2, PluginIsRight DEF DevicesPartInv, DevicesRight
<1>2. QED
  BY <1>1, DevicesPartInit, DevicesPartStep, PTL DEF PartsSpec

-----------------------------------------------------------------------------
(* DroidDB's transactions and the copy of the table                          *)

Rows == UNION {[ks -> Values] : ks \in SUBSET Keys}

Verbs == {"create", "select", "page", "replace", "delete", "clear"}

\* A statement that writes or deletes a row is about a key
Sqls ==
    {sql \in [verb : Verbs, key : Keys \cup {"no key"}, value : Values \cup {"no key"}] :
        /\ sql.verb = "replace" => sql.key \in Keys /\ sql.value \in Values
        /\ sql.verb = "delete" => sql.key \in Keys}

Tx == [queries : SUBSET Nat, callbacks : BOOLEAN, threw : BOOLEAN, failed : BOOLEAN,
       heard : Seq({"error", "success"})]

Job == [id : Nat, tx : Nat, sql : Sqls]

Droid == [txs : Seq(Tx), queue : SUBSET Nat, jobs : Seq(Job), next : Nat]

\* The queries of a transaction that the native side has to run
JobIds(d, t) == {d.jobs[i].id : i \in {j \in DOMAIN d.jobs : d.jobs[j].tx = t}}

\* Every job is of a transaction and in queryQueue, under an id of its own, and
\* those of the page's transactions are the page's
JobsRight(d) ==
    /\ d \in Droid
    /\ \A i \in DOMAIN d.jobs :
          /\ d.jobs[i].id < d.next /\ d.jobs[i].id \in d.queue
          /\ d.jobs[i].tx \in DOMAIN d.txs
          /\ d.txs[d.jobs[i].tx].callbacks => d.jobs[i].sql.verb = "page"
    /\ \A i, j \in DOMAIN d.jobs : d.jobs[i].id = d.jobs[j].id => i = j

\* A transaction waits for all its jobs until one fails, and then for none; it
\* has heard nothing while it waits
TxRight(d, t) ==
    LET tx == d.txs[t]
    IN  /\ tx.queries = IF tx.failed THEN {} ELSE JobIds(d, t)
        /\ tx.callbacks /\ ~tx.threw =>
              \/ tx.failed /\ tx.heard = <<"error">>
              \/ ~tx.failed /\ tx.heard = <<>>
              \/ ~tx.failed /\ tx.heard = <<"success">> /\ tx.queries = {}

DroidRight(d) == JobsRight(d) /\ \A t \in DOMAIN d.txs : TxRight(d, t)

LEMMA JobIdsMember ==
    ASSUME NEW d, NEW t, NEW id
    PROVE  id \in JobIds(d, t) <=> \E i \in DOMAIN d.jobs : d.jobs[i].tx = t /\ d.jobs[i].id = id
BY DEF JobIds

\* What is left of a sequence without its first element
LEMMA TailOf ==
    ASSUME NEW S, NEW q \in Seq(S), q # <<>>
    PROVE  LET n == Len(q)
           IN  /\ n \in Nat /\ n >= 1 /\ DOMAIN q = 1..n /\ Head(q) = q[1] /\ 1 \in 1..n
               /\ Tail(q) \in Seq(S) /\ DOMAIN Tail(q) = 1..n - 1
               /\ \A i \in 1..n - 1 : Tail(q)[i] = q[i + 1] /\ i + 1 \in 1..n /\ i + 1 # 1
               /\ \A i \in 1..n : i = 1 \/ (i - 1 \in 1..n - 1 /\ Tail(q)[i - 1] = q[i])
<1> DEFINE n == Len(q)
<1>1. /\ n \in Nat /\ n >= 1 /\ DOMAIN q = 1..n /\ Head(q) = q[1] /\ 1 \in 1..n
  BY DEF Head
<1>2. Tail(q) \in Seq(S) /\ Len(Tail(q)) = n - 1
  BY <1>1
<1>3. ASSUME NEW i \in 1..n - 1
      PROVE  Tail(q)[i] = q[i + 1] /\ i + 1 \in 1..n /\ i + 1 # 1
  BY <1>1, <1>3
<1>4. ASSUME NEW i \in 1..n, i # 1
      PROVE  i - 1 \in 1..n - 1 /\ Tail(q)[i - 1] = q[i]
  <2>1. i - 1 \in 1..n - 1 /\ (i - 1) + 1 = i
    BY <1>1, <1>4
  <2>2. Tail(q)[i - 1] = q[(i - 1) + 1]
    BY <1>3, <2>1
  <2>3. QED
    BY <2>1, <2>2
<1>5. DOMAIN Tail(q) = 1..n - 1
  BY <1>1, <1>2
<1>6. QED
  BY <1>1, <1>2, <1>3, <1>4, <1>5

\* A transaction is changed in what the jobs do not look at
LEMMA TxChanges ==
    ASSUME NEW d, JobsRight(d), NEW t \in DOMAIN d.txs, NEW tx \in Tx,
           tx.callbacks = d.txs[t].callbacks,
           NEW e, e = [d EXCEPT !.txs[t] = tx]
    PROVE  /\ JobsRight(e)
           /\ e.jobs = d.jobs /\ e.next = d.next /\ e.queue = d.queue
           /\ DOMAIN e.txs = DOMAIN d.txs /\ e.txs[t] = tx
           /\ \A s \in DOMAIN d.txs : s # t => e.txs[s] = d.txs[s]
           /\ \A s : JobIds(e, s) = JobIds(d, s)
<1>1. d \in Droid /\ d.txs \in Seq(Tx)
  BY DEF JobsRight, Droid
<1>2. /\ e.jobs = d.jobs /\ e.next = d.next /\ e.queue = d.queue
      /\ e.txs = [d.txs EXCEPT ![t] = tx] /\ e \in Droid
  <2>1. [d.txs EXCEPT ![t] = tx] \in Seq(Tx)
    BY <1>1
  <2>2. QED
    BY <1>1, <2>1 DEF Droid
<1>3. /\ DOMAIN e.txs = DOMAIN d.txs /\ e.txs[t] = tx
      /\ \A s \in DOMAIN d.txs : s # t => e.txs[s] = d.txs[s]
  BY <1>1, <1>2
<1>4. JobsRight(e)
  BY <1>2, <1>3 DEF JobsRight
<1>5. QED
  BY <1>2, <1>3, <1>4 DEF JobIds

\* A query is asked for
LEMMA QueryBegins ==
    ASSUME NEW d, JobsRight(d), NEW t \in DOMAIN d.txs, NEW sql \in Sqls,
           d.txs[t].callbacks => sql.verb = "page",
           NEW e, e = Storage!ExecuteSql(d, t, sql)
    PROVE  /\ JobsRight(e)
           /\ e.jobs = Append(d.jobs, [id |-> d.next, tx |-> t, sql |-> sql])
           /\ e.next = d.next + 1
           /\ DOMAIN e.txs = DOMAIN d.txs
           /\ e.txs[t] = [d.txs[t] EXCEPT !.queries = @ \cup {d.next}]
           /\ \A s \in DOMAIN d.txs : s # t => e.txs[s] = d.txs[s] /\ JobIds(e, s) = JobIds(d, s)
           /\ JobIds(e, t) = JobIds(d, t) \cup {d.next}
<1> DEFINE job == [id |-> d.next, tx |-> t, sql |-> sql]
           n == Len(d.jobs)
<1>1. /\ d \in Droid /\ d.txs \in Seq(Tx) /\ d.jobs \in Seq(Job) /\ d.next \in Nat
      /\ d.queue \in SUBSET Nat /\ d.txs[t] \in Tx /\ t \in Nat
  BY DEF JobsRight, Droid
<1>2. job \in Job /\ job.id = d.next /\ job.tx = t /\ job.sql = sql
  BY <1>1 DEF Job
<1> DEFINE tx == [d.txs[t] EXCEPT !.queries = @ \cup {d.next}]
<1>3. tx \in Tx /\ tx.callbacks = d.txs[t].callbacks
  BY <1>1 DEF Tx
<1>4. /\ e.jobs = Append(d.jobs, job) /\ e.next = d.next + 1 /\ e.queue = d.queue \cup {d.next}
      /\ e.txs = [d.txs EXCEPT ![t] = tx]
      /\ e = [txs |-> e.txs, queue |-> e.queue, jobs |-> e.jobs, next |-> e.next]
  BY <1>1 DEF Storage!ExecuteSql, Droid
<1> HIDE DEF job, tx
<1>5. /\ DOMAIN e.txs = DOMAIN d.txs /\ e.txs[t] = tx
      /\ \A s \in DOMAIN d.txs : s # t => e.txs[s] = d.txs[s]
  BY <1>1, <1>4
<1>6. /\ e.jobs \in Seq(Job) /\ DOMAIN e.jobs = 1..n + 1 /\ e.jobs[n + 1] = job
      /\ DOMAIN d.jobs = 1..n /\ \A i \in 1..n : e.jobs[i] = d.jobs[i] /\ i # n + 1 /\ i \in 1..n + 1
      /\ \A i \in 1..n + 1 : i = n + 1 \/ i \in 1..n
  BY <1>1, <1>2, <1>4
<1>7. e \in Droid
  <2>1. e.txs \in Seq(Tx)
    BY <1>1, <1>3, <1>4
  <2>2. e.queue \in SUBSET Nat /\ e.next \in Nat
    BY <1>1, <1>4
  <2>3. QED
    BY <1>4, <1>6, <2>1, <2>2 DEF Droid
<1>8. \A s \in DOMAIN e.txs : e.txs[s].callbacks = d.txs[s].callbacks
  BY <1>3, <1>5
<1>9. JobsRight(e)
  <2>1. ASSUME NEW i \in 1..n + 1
        PROVE  /\ e.jobs[i].id < e.next /\ e.jobs[i].id \in e.queue
               /\ e.jobs[i].tx \in DOMAIN e.txs
               /\ e.txs[e.jobs[i].tx].callbacks => e.jobs[i].sql.verb = "page"
    <3>1. CASE i = n + 1
      BY <1>1, <1>2, <1>4, <1>5, <1>6, <1>8, <3>1
    <3>2. CASE i \in 1..n
      <4>1. /\ d.jobs[i].id < d.next /\ d.jobs[i].id \in d.queue /\ d.jobs[i].id \in Nat
            /\ d.jobs[i].tx \in DOMAIN d.txs
            /\ d.txs[d.jobs[i].tx].callbacks => d.jobs[i].sql.verb = "page"
        BY <1>1, <1>6, <3>2 DEF JobsRight, Job
      <4>2. QED
        BY <1>1, <1>4, <1>5, <1>6, <1>8, <3>2, <4>1, SMTT(30)
    <3>3. QED
      BY <1>6, <3>1, <3>2
  <2>2. ASSUME NEW i \in 1..n + 1, NEW j \in 1..n + 1, e.jobs[i].id = e.jobs[j].id
        PROVE  i = j
    <3>1. \A k \in 1..n : d.jobs[k].id # d.next
      BY <1>1, <1>6, SMTT(30) DEF JobsRight
    <3>2. e.jobs[n + 1].id = d.next
      BY <1>2, <1>6
    <3>3. CASE i = n + 1
      BY <1>6, <2>2, <3>1, <3>2, <3>3
    <3>4. CASE j = n + 1
      BY <1>6, <2>2, <3>1, <3>2, <3>4
    <3>5. CASE i \in 1..n /\ j \in 1..n
      BY <1>6, <2>2, <3>5 DEF JobsRight
    <3>6. QED
      BY <1>6, <3>3, <3>4, <3>5
  <2>3. QED
    BY <1>6, <1>7, <2>1, <2>2 DEF JobsRight
<1>10. \A s : s # t => JobIds(e, s) = JobIds(d, s)
  <2>1. TAKE s
  <2>2. \A id : id \in JobIds(d, s) => id \in JobIds(e, s)
    BY <1>6, JobIdsMember
  <2>3. s # t => \A id : id \in JobIds(e, s) => id \in JobIds(d, s)
    BY <1>2, <1>6, JobIdsMember
  <2>4. QED
    BY <2>2, <2>3
<1>11. JobIds(e, t) = JobIds(d, t) \cup {d.next}
  BY <1>2, <1>6 DEF JobIds
<1>12. QED
  BY <1>4, <1>5, <1>9, <1>10, <1>11 DEF job, tx

\* The first job is answered
LEMMA JobAnswered ==
    ASSUME NEW d, JobsRight(d), d.jobs # <<>>,
           NEW e, e = Storage!Answered(d, Head(d.jobs))
    PROVE  LET job == Head(d.jobs)
           IN  /\ JobsRight(e)
               /\ e.jobs = Tail(d.jobs) /\ e.txs = d.txs /\ e.next = d.next
               /\ job \in Job /\ job.tx \in DOMAIN d.txs
               /\ \A s : s # job.tx => JobIds(e, s) = JobIds(d, s)
               /\ JobIds(e, job.tx) = JobIds(d, job.tx) \ {job.id}
               /\ job.id \in JobIds(d, job.tx)
<1> DEFINE job == Head(d.jobs)
           n == Len(d.jobs)
<1>1. /\ d \in Droid /\ d.jobs \in Seq(Job) /\ d.txs \in Seq(Tx) /\ d.queue \in SUBSET Nat
      /\ n \in Nat /\ n >= 1 /\ DOMAIN d.jobs = 1..n /\ job = d.jobs[1] /\ 1 \in 1..n
  <2>1. /\ d \in Droid /\ d.jobs \in Seq(Job) /\ d.txs \in Seq(Tx) /\ d.queue \in SUBSET Nat
    BY DEF JobsRight, Droid
  <2>2. QED
    BY <2>1, TailOf
<1>2. /\ e.jobs = Tail(d.jobs) /\ e.queue = d.queue \ {job.id} /\ e.txs = d.txs /\ e.next = d.next
      /\ e = [txs |-> e.txs, queue |-> e.queue, jobs |-> e.jobs, next |-> e.next]
  BY <1>1 DEF Storage!Answered, Droid
<1>3. /\ e.jobs \in Seq(Job) /\ DOMAIN e.jobs = 1..n - 1
      /\ \A i \in 1..n - 1 : e.jobs[i] = d.jobs[i + 1] /\ i + 1 \in 1..n /\ i + 1 # 1
      /\ \A i \in 1..n : i = 1 \/ (i - 1 \in 1..n - 1 /\ e.jobs[i - 1] = d.jobs[i])
  <2> DEFINE rest == Tail(d.jobs)
  <2>1. /\ rest \in Seq(Job) /\ DOMAIN rest = 1..n - 1
        /\ \A i \in 1..n - 1 : rest[i] = d.jobs[i + 1] /\ i + 1 \in 1..n /\ i + 1 # 1
        /\ \A i \in 1..n : i = 1 \/ (i - 1 \in 1..n - 1 /\ rest[i - 1] = d.jobs[i])
    BY <1>1, TailOf
  <2>2. e.jobs = rest
    BY <1>2
  <2> HIDE DEF rest
  <2>3. QED
    BY <2>1, <2>2
<1>4. job \in Job /\ job.tx \in DOMAIN d.txs
  BY <1>1 DEF JobsRight
<1> HIDE DEF job, n
<1>5. e \in Droid
  BY <1>1, <1>2, <1>3 DEF Droid
<1>6. \A i, j \in 1..n : d.jobs[i].id = d.jobs[j].id => i = j
  BY <1>1 DEF JobsRight
<1>7. JobsRight(e)
  <2>1. ASSUME NEW i \in 1..n - 1
        PROVE  /\ e.jobs[i].id < e.next /\ e.jobs[i].id \in e.queue
               /\ e.jobs[i].tx \in DOMAIN e.txs
               /\ e.txs[e.jobs[i].tx].callbacks => e.jobs[i].sql.verb = "page"
    <3>1. d.jobs[i + 1].id # job.id
      BY <1>1, <1>3, <1>6
    <3>2. /\ d.jobs[i + 1].id < d.next /\ d.jobs[i + 1].id \in d.queue
          /\ d.jobs[i + 1].tx \in DOMAIN d.txs
          /\ d.txs[d.jobs[i + 1].tx].callbacks => d.jobs[i + 1].sql.verb = "page"
      BY <1>1, <1>3 DEF JobsRight
    <3>3. QED
      BY <1>2, <1>3, <3>1, <3>2
  <2>2. ASSUME NEW i \in 1..n - 1, NEW j \in 1..n - 1, e.jobs[i].id = e.jobs[j].id
        PROVE  i = j
    <3>1. i + 1 \in 1..n /\ j + 1 \in 1..n /\ d.jobs[i + 1].id = d.jobs[j + 1].id
      BY <1>3, <2>2
    <3>2. i + 1 = j + 1
      BY <1>6, <3>1
    <3>3. i \in Int /\ j \in Int
      OBVIOUS
    <3>4. QED
      BY <3>2, <3>3
  <2>3. QED
    BY <1>3, <1>5, <2>1, <2>2 DEF JobsRight
<1>8. \A s : s # job.tx => JobIds(e, s) = JobIds(d, s)
  <2>1. TAKE s
  <2>2. ASSUME NEW id \in JobIds(e, s)
        PROVE  id \in JobIds(d, s)
    <3>1. PICK i \in DOMAIN e.jobs : e.jobs[i].tx = s /\ e.jobs[i].id = id
      BY <2>2, JobIdsMember
    <3>2. i + 1 \in DOMAIN d.jobs /\ d.jobs[i + 1] = e.jobs[i]
      BY <1>1, <1>3
    <3>3. QED
      BY <3>1, <3>2, JobIdsMember
  <2>3. ASSUME s # job.tx, NEW id \in JobIds(d, s)
        PROVE  id \in JobIds(e, s)
    <3>1. PICK i \in DOMAIN d.jobs : d.jobs[i].tx = s /\ d.jobs[i].id = id
      BY <2>3, JobIdsMember
    <3>2. i # 1
      BY <1>1, <2>3, <3>1
    <3>3. i - 1 \in DOMAIN e.jobs /\ e.jobs[i - 1] = d.jobs[i]
      BY <1>1, <1>3, <3>2
    <3>4. QED
      BY <3>1, <3>3, JobIdsMember
  <2>4. QED
    BY <2>2, <2>3
<1>9. JobIds(e, job.tx) = JobIds(d, job.tx) \ {job.id}
  <2>1. ASSUME NEW id \in JobIds(d, job.tx), id # job.id
        PROVE  id \in JobIds(e, job.tx)
    <3>1. PICK i \in DOMAIN d.jobs : d.jobs[i].tx = job.tx /\ d.jobs[i].id = id
      BY <2>1, JobIdsMember
    <3>2. i # 1
      BY <1>1, <2>1, <3>1
    <3>3. i - 1 \in DOMAIN e.jobs /\ e.jobs[i - 1] = d.jobs[i]
      BY <1>1, <1>3, <3>2
    <3>4. QED
      BY <3>1, <3>3, JobIdsMember
  <2>2. ASSUME NEW id \in JobIds(e, job.tx)
        PROVE  id \in JobIds(d, job.tx) /\ id # job.id
    <3>1. PICK i \in DOMAIN e.jobs : e.jobs[i].tx = job.tx /\ e.jobs[i].id = id
      BY <2>2, JobIdsMember
    <3>2. /\ d.jobs[i + 1].tx = job.tx /\ d.jobs[i + 1].id = id
          /\ i + 1 \in 1..n /\ i + 1 # 1
      BY <1>3, <3>1
    <3>3. id # job.id
      BY <1>1, <1>6, <3>2
    <3>4. QED
      BY <1>1, <3>2, <3>3, JobIdsMember
  <2>3. QED
    BY <2>1, <2>2
<1>10. job.id \in JobIds(d, job.tx)
  BY <1>1 DEF JobIds
<1>11. QED
  BY <1>2, <1>4, <1>7, <1>8, <1>9, <1>10 DEF job


\* A transaction that may still ask for queries
Waiting(d, t) ==
    /\ t \in DOMAIN d.txs /\ ~d.txs[t].failed
    /\ d.txs[t].callbacks /\ ~d.txs[t].threw => d.txs[t].heard = <<>>

Asked(d, e, t, sql) ==
    /\ e.jobs = Append(d.jobs, [id |-> d.next, tx |-> t, sql |-> sql])
    /\ e.next = d.next + 1
    /\ e.txs[t].callbacks = d.txs[t].callbacks

\* A transaction goes on to ask for another query
LEMMA QueryGoesOn ==
    ASSUME NEW d, DroidRight(d), NEW t, Waiting(d, t), NEW sql \in Sqls,
           d.txs[t].callbacks => sql.verb = "page"
    PROVE  LET e == Storage!ExecuteSql(d, t, sql)
           IN  DroidRight(e) /\ Waiting(e, t) /\ Asked(d, e, t, sql)
<1> DEFINE e == Storage!ExecuteSql(d, t, sql)
<1>1. /\ JobsRight(d) /\ \A s \in DOMAIN d.txs : TxRight(d, s)
      /\ d.txs[t] \in Tx /\ t \in DOMAIN d.txs
  BY DEF DroidRight, JobsRight, Droid, Waiting
<1>2. /\ JobsRight(e)
      /\ e.jobs = Append(d.jobs, [id |-> d.next, tx |-> t, sql |-> sql])
      /\ e.next = d.next + 1
      /\ DOMAIN e.txs = DOMAIN d.txs
      /\ e.txs[t] = [d.txs[t] EXCEPT !.queries = @ \cup {d.next}]
      /\ \A s \in DOMAIN d.txs : s # t => e.txs[s] = d.txs[s] /\ JobIds(e, s) = JobIds(d, s)
      /\ JobIds(e, t) = JobIds(d, t) \cup {d.next}
  BY <1>1, QueryBegins, SMTT(30)
<1> HIDE DEF e
<1>3. /\ e.txs[t].queries = d.txs[t].queries \cup {d.next}
      /\ e.txs[t].failed = d.txs[t].failed /\ e.txs[t].callbacks = d.txs[t].callbacks
      /\ e.txs[t].threw = d.txs[t].threw /\ e.txs[t].heard = d.txs[t].heard
  BY <1>1, <1>2 DEF Tx
<1>4. TxRight(e, t)
  BY <1>1, <1>2, <1>3 DEF TxRight, Waiting
<1>5. \A s \in DOMAIN d.txs : s # t => TxRight(e, s)
  BY <1>1, <1>2 DEF TxRight
<1>6. DroidRight(e)
  BY <1>2, <1>4, <1>5 DEF DroidRight
<1>7. Waiting(e, t) /\ Asked(d, e, t, sql)
  BY <1>1, <1>2, <1>3 DEF Waiting, Asked
<1>8. QED
  BY <1>6, <1>7 DEF e

\* What the jobs are after so many more were asked for
JobsAdded(jobs, new, sqls) ==
    /\ Len(jobs) \in Nat /\ DOMAIN jobs = 1..Len(jobs)
    /\ DOMAIN new = 1..Len(jobs) + Len(sqls)
    /\ \A i \in 1..Len(jobs) : new[i] = jobs[i]
    /\ \A i \in 1..Len(sqls) : new[Len(jobs) + i].sql = sqls[i]

LEMMA JobAdded ==
    ASSUME NEW d, DroidRight(d), NEW e, NEW t, NEW sql, Asked(d, e, t, sql)
    PROVE  /\ d.jobs \in Seq(Job) /\ Len(d.jobs) \in Nat /\ DOMAIN d.jobs = 1..Len(d.jobs)
           /\ DOMAIN e.jobs = 1..Len(d.jobs) + 1
           /\ \A i \in 1..Len(d.jobs) : e.jobs[i] = d.jobs[i]
           /\ e.jobs[Len(d.jobs) + 1].sql = sql
<1> DEFINE job == [id |-> d.next, tx |-> t, sql |-> sql]
<1>1. d.jobs \in Seq(Job) /\ e.jobs = Append(d.jobs, job)
  BY DEF DroidRight, JobsRight, Droid, Asked
<1>2. job.sql = sql
  OBVIOUS
<1> HIDE DEF job
<1>3. /\ Len(d.jobs) \in Nat /\ DOMAIN d.jobs = 1..Len(d.jobs)
      /\ DOMAIN e.jobs = 1..Len(d.jobs) + 1 /\ e.jobs[Len(d.jobs) + 1] = job
      /\ \A i \in 1..Len(d.jobs) : e.jobs[i] = d.jobs[i]
  BY <1>1
<1>4. QED
  BY <1>1, <1>2, <1>3

\* transaction() of so many queries
LEMMA TransactionBegins ==
    ASSUME NEW d, DroidRight(d), NEW callbacks \in BOOLEAN, NEW throws \in BOOLEAN,
           NEW sqls \in Seq(Sqls), Len(sqls) <= 2,
           callbacks => \A i \in DOMAIN sqls : sqls[i].verb = "page"
    PROVE  LET e == Storage!Transaction(d, callbacks, sqls, throws)
           IN  DroidRight(e) /\ JobsAdded(d.jobs, e.jobs, sqls)
<1> DEFINE heard == IF throws THEN <<"error">> ELSE <<>>
           tx == [queries |-> {}, callbacks |-> callbacks, threw |-> throws, failed |-> FALSE,
                  heard |-> heard]
           t == Len(d.txs) + 1
           n == Len(d.jobs)
           begun == [d EXCEPT !.txs = Append(@, tx)]
           first == IF sqls = <<>> THEN begun ELSE Storage!ExecuteSql(begun, t, sqls[1])
           e == Storage!Transaction(d, callbacks, sqls, throws)
<1>1. e = IF Len(sqls) < 2 THEN first ELSE Storage!ExecuteSql(first, t, sqls[2])
  BY DEF Storage!Transaction
<1> HIDE DEF e
<1>2. /\ JobsRight(d) /\ \A s \in DOMAIN d.txs : TxRight(d, s)
      /\ d \in Droid /\ d.txs \in Seq(Tx) /\ d.jobs \in Seq(Job) /\ d.next \in Nat
  BY DEF DroidRight, JobsRight, Droid
<1>3. /\ tx \in Tx /\ tx.callbacks = callbacks /\ ~tx.failed /\ tx.queries = {}
      /\ callbacks /\ ~tx.threw => tx.heard = <<>>
  <2>1. <<"error">> \in Seq({"error", "success"}) /\ <<>> \in Seq({"error", "success"})
    OBVIOUS
  <2>2. heard \in Seq({"error", "success"})
    BY <2>1
  <2>3. ~throws => heard = <<>>
    OBVIOUS
  <2> HIDE DEF heard
  <2>4. QED
    BY <2>2, <2>3 DEF Tx
<1> HIDE DEF tx
<1>4. /\ begun.jobs = d.jobs /\ begun.next = d.next /\ begun.queue = d.queue
      /\ begun.txs = Append(d.txs, tx) /\ begun \in Droid
  <2>1. Append(d.txs, tx) \in Seq(Tx)
    BY <1>2, <1>3
  <2>2. QED
    BY <1>2, <2>1 DEF Droid
<1>5. /\ DOMAIN begun.txs = 1..t /\ DOMAIN d.txs = 1..t - 1 /\ begun.txs[t] = tx /\ t \in 1..t /\ t \in Nat
      /\ \A s \in 1..t - 1 : begun.txs[s] = d.txs[s] /\ s # t /\ s \in 1..t
      /\ \A s \in 1..t : s = t \/ s \in 1..t - 1
  BY <1>2, <1>3, <1>4
<1> HIDE DEF begun, t
<1>6. JobsRight(begun)
  BY <1>2, <1>4, <1>5 DEF JobsRight
<1>7. \A s : JobIds(begun, s) = JobIds(d, s)
  BY <1>4 DEF JobIds
<1>8. JobIds(begun, t) = {}
  <2>1. \A i \in DOMAIN d.jobs : d.jobs[i].tx # t
    BY <1>2, <1>5 DEF JobsRight
  <2>2. QED
    BY <1>4, <2>1 DEF JobIds
<1>9. DroidRight(begun) /\ Waiting(begun, t) /\ begun.txs[t].callbacks = callbacks
  <2>1. TxRight(begun, t)
    BY <1>3, <1>5, <1>8 DEF TxRight
  <2>2. \A s \in 1..t - 1 : TxRight(begun, s)
    BY <1>2, <1>5, <1>7 DEF TxRight
  <2>3. DroidRight(begun)
    BY <1>5, <1>6, <2>1, <2>2 DEF DroidRight
  <2>4. Waiting(begun, t)
    BY <1>3, <1>5 DEF Waiting
  <2>5. QED
    BY <1>3, <1>5, <2>3, <2>4
<1>10. CASE Len(sqls) = 0
  <2>1. sqls = <<>> /\ e = begun
    BY <1>1, <1>10
  <2>2. n \in Nat /\ DOMAIN d.jobs = 1..n /\ n + 0 = n /\ 1..0 = {}
    BY <1>2
  <2>3. JobsAdded(d.jobs, e.jobs, sqls)
    BY <1>4, <1>10, <2>1, <2>2 DEF JobsAdded
  <2>4. QED
    BY <1>9, <2>1, <2>3 DEF e
<1>11. CASE Len(sqls) >= 1
  <2>1. sqls # <<>> /\ 1 \in DOMAIN sqls /\ sqls[1] \in Sqls
    BY <1>11
  <2>2. first = Storage!ExecuteSql(begun, t, sqls[1])
    BY <2>1
  <2> HIDE DEF first
  <2>3. begun.txs[t].callbacks => sqls[1].verb = "page"
    BY <1>9, <2>1
  <2>4. DroidRight(first) /\ Waiting(first, t) /\ Asked(begun, first, t, sqls[1])
    BY <1>9, <2>1, <2>2, <2>3, QueryGoesOn
  <2>5. first.txs[t].callbacks = callbacks
    BY <1>9, <2>4 DEF Asked
  <2>6. /\ n \in Nat /\ DOMAIN d.jobs = 1..n /\ DOMAIN first.jobs = 1..n + 1
        /\ \A i \in 1..n : first.jobs[i] = d.jobs[i]
        /\ first.jobs[n + 1].sql = sqls[1]
    BY <1>4, <1>9, <2>4, JobAdded
  <2>7. CASE Len(sqls) = 1
    <3>1. e = first
      BY <1>1, <2>7
    <3>2. \A i \in 1..1 : i = 1
      OBVIOUS
    <3>3. JobsAdded(d.jobs, e.jobs, sqls)
      BY <2>6, <2>7, <3>1, <3>2 DEF JobsAdded
    <3>4. QED
      BY <2>4, <3>1, <3>3 DEF e
  <2>8. CASE Len(sqls) = 2
    <3>1. e = Storage!ExecuteSql(first, t, sqls[2])
      BY <1>1, <2>8
    <3>2. sqls[2] \in Sqls /\ 2 \in DOMAIN sqls
      <4>1. DOMAIN sqls = 1..2 /\ 2 \in 1..2
        BY <2>8
      <4>2. QED
        BY <4>1, ElementOfSeq, <2>8
    <3>3. first.txs[t].callbacks => sqls[2].verb = "page"
      BY <2>5, <3>2
    <3>4. DroidRight(e) /\ Asked(first, e, t, sqls[2])
      BY <2>4, <3>1, <3>2, <3>3, QueryGoesOn
    <3>5. Len(first.jobs) = n + 1
      BY <2>4, <2>6 DEF DroidRight, JobsRight, Droid
    <3>6. /\ DOMAIN e.jobs = 1..n + 2 /\ e.jobs[n + 2].sql = sqls[2]
          /\ \A i \in 1..n + 1 : e.jobs[i] = first.jobs[i]
      <4>1. /\ DOMAIN e.jobs = 1..Len(first.jobs) + 1 /\ e.jobs[Len(first.jobs) + 1].sql = sqls[2]
            /\ \A i \in 1..Len(first.jobs) : e.jobs[i] = first.jobs[i]
        BY <2>4, <3>4, JobAdded
      <4>2. QED
        BY <2>6, <3>5, <4>1
    <3>7. \A i \in 1..n : e.jobs[i] = d.jobs[i]
      BY <2>6, <3>6
    <3>8. e.jobs[n + 1].sql = sqls[1]
      BY <2>6, <3>6, SMTT(30)
    <3>9. \A i \in 1..2 : i = 1 \/ i = 2
      OBVIOUS
    <3>10. JobsAdded(d.jobs, e.jobs, sqls)
      BY <2>6, <2>8, <3>6, <3>7, <3>8, <3>9 DEF JobsAdded
    <3>11. QED
      BY <3>4, <3>10 DEF e
  <2>9. Len(sqls) = 1 \/ Len(sqls) = 2
    <3>1. Len(sqls) \in Nat
      OBVIOUS
    <3>2. \A k \in Nat : k >= 1 /\ k <= 2 => k = 1 \/ k = 2
      OBVIOUS
    <3>3. QED
      BY <1>11, <3>1, <3>2
  <2>10. QED
    BY <2>7, <2>8, <2>9
<1>12. QED
  BY <1>10, <1>11

PageSql == [verb |-> "page", key |-> "no key", value |-> "no key"]

\* The query a callback may ask for, as its id and its job
NewIds(d, more) == IF more THEN {d.next} ELSE {}
NewJobs(d, t, more) ==
    IF more THEN Append(d.jobs, [id |-> d.next, tx |-> t, sql |-> PageSql]) ELSE d.jobs

AskedMore(d, e, t, more) ==
    /\ JobsRight(e) /\ DOMAIN e.txs = DOMAIN d.txs
    /\ e.jobs = NewJobs(d, t, more)
    /\ JobIds(e, t) = JobIds(d, t) \cup NewIds(d, more)
    /\ e.txs[t] = [d.txs[t] EXCEPT !.queries = @ \cup NewIds(d, more)]
    /\ \A s \in DOMAIN d.txs : s # t => e.txs[s] = d.txs[s] /\ JobIds(e, s) = JobIds(d, s)

\* The callback of a query may ask for another
LEMMA MoreAsked ==
    ASSUME NEW d, JobsRight(d), NEW job, job.tx \in DOMAIN d.txs, NEW more \in BOOLEAN
    PROVE  AskedMore(d, Storage!More(d, job, more), job.tx, more)
<1> DEFINE e == Storage!More(d, job, more)
           t == job.tx
<1>1. CASE more
  <2>1. PageSql \in Sqls /\ PageSql.verb = "page"
    BY DEF PageSql, Sqls, Verbs
  <2>2. e = Storage!ExecuteSql(d, t, PageSql)
    BY <1>1 DEF Storage!More, Storage!Sql, Storage!NoKey, PageSql
  <2>3. NewIds(d, more) = {d.next}
    BY <1>1 DEF NewIds
  <2>4. NewJobs(d, t, more) = Append(d.jobs, [id |-> d.next, tx |-> t, sql |-> PageSql])
    BY <1>1 DEF NewJobs
  <2> HIDE DEF e, t
  <2>5. t \in DOMAIN d.txs
    BY DEF t
  <2>6. /\ JobsRight(e)
        /\ e.jobs = Append(d.jobs, [id |-> d.next, tx |-> t, sql |-> PageSql])
        /\ DOMAIN e.txs = DOMAIN d.txs
        /\ e.txs[t] = [d.txs[t] EXCEPT !.queries = @ \cup {d.next}]
        /\ \A s \in DOMAIN d.txs : s # t => e.txs[s] = d.txs[s] /\ JobIds(e, s) = JobIds(d, s)
        /\ JobIds(e, t) = JobIds(d, t) \cup {d.next}
    BY <2>1, <2>2, <2>5, QueryBegins
  <2>7. AskedMore(d, e, t, more)
    BY <2>3, <2>4, <2>6 DEF AskedMore
  <2>8. QED
    BY <2>7 DEF e, t
<1>2. CASE ~more
  <2>1. e = d
    BY <1>2 DEF Storage!More
  <2>2. d.txs[t] \in Tx
    BY DEF JobsRight, Droid
  <2>3. NewIds(d, more) = {} /\ NewJobs(d, t, more) = d.jobs
    BY <1>2 DEF NewIds, NewJobs
  <2>4. d.txs[t] = [d.txs[t] EXCEPT !.queries = @ \cup NewIds(d, more)]
    BY <2>2, <2>3 DEF Tx
  <2>5. AskedMore(d, d, t, more)
    BY <2>3, <2>4 DEF AskedMore
  <2>6. QED
    BY <2>1, <2>5
<1>3. QED
  BY <1>1, <1>2

\* The first job is done with, and its transaction may have changed
Popped(d, e) ==
    LET job == Head(d.jobs)
        t   == job.tx
    IN  /\ JobsRight(e) /\ e.jobs = Tail(d.jobs) /\ e.next = d.next
        /\ DOMAIN e.txs = DOMAIN d.txs
        /\ e.txs[t].callbacks = d.txs[t].callbacks
        /\ \A s \in DOMAIN d.txs : s # t => e.txs[s] = d.txs[s] /\ JobIds(e, s) = JobIds(d, s)
        /\ JobIds(e, t) = JobIds(d, t) \ {job.id}

LEMMA AnsweredPops ==
    ASSUME NEW d, JobsRight(d), d.jobs # <<>>
    PROVE  LET job == Head(d.jobs)
               got == Storage!Answered(d, job)
           IN  /\ Popped(d, got) /\ got.txs = d.txs
               /\ job \in Job /\ job.tx \in DOMAIN d.txs /\ job.id \in JobIds(d, job.tx)
               /\ job.id # d.next
<1> DEFINE job == Head(d.jobs)
           got == Storage!Answered(d, job)
<1>1. /\ JobsRight(got) /\ got.jobs = Tail(d.jobs) /\ got.txs = d.txs /\ got.next = d.next
      /\ job \in Job /\ job.tx \in DOMAIN d.txs
      /\ \A s : s # job.tx => JobIds(got, s) = JobIds(d, s)
      /\ JobIds(got, job.tx) = JobIds(d, job.tx) \ {job.id}
      /\ job.id \in JobIds(d, job.tx)
  BY JobAnswered
<1>2. job.id # d.next
  <2>1. PICK i \in DOMAIN d.jobs : d.jobs[i].id = job.id
    BY <1>1, JobIdsMember
  <2>2. d.jobs[i].id < d.next /\ d.jobs[i].id \in Nat /\ d.next \in Nat
    BY DEF JobsRight, Droid, Job
  <2>3. QED
    BY <2>1, <2>2
<1> HIDE DEF got
<1>3. Popped(d, got)
  BY <1>1 DEF Popped
<1>4. QED
  BY <1>1, <1>2, <1>3 DEF got

\* What the native side is asked to do next
JobsAfter(d, more) ==
    IF more THEN Append(Tail(d.jobs), [id |-> d.next, tx |-> Head(d.jobs).tx, sql |-> PageSql])
    ELSE Tail(d.jobs)

\* The answer to the first job, after which its callback may ask for another,
\* leaves its transaction as tx
Settled(d, got, more, tx, e) ==
    LET t     == Head(d.jobs).tx
        asked == Storage!More(got, Head(d.jobs), more)
    IN  /\ Popped(d, got)
        /\ tx \in Tx /\ tx.callbacks = asked.txs[t].callbacks
        /\ e = [asked EXCEPT !.txs[t] = tx]
        /\ TxRight(e, t)

\* Whatever a query's answer does to its transaction, the others are right
LEMMA TxAnswered ==
    ASSUME NEW d, DroidRight(d), d.jobs # <<>>, NEW more \in BOOLEAN,
           NEW got, NEW tx, NEW e, Settled(d, got, more, tx, e)
    PROVE  DroidRight(e) /\ e.jobs = JobsAfter(d, more)
<1> DEFINE job == Head(d.jobs)
           t == job.tx
           asked == Storage!More(got, job, more)
<1>0. /\ Popped(d, got)
      /\ tx \in Tx /\ tx.callbacks = asked.txs[t].callbacks
      /\ e = [asked EXCEPT !.txs[t] = tx]
      /\ TxRight(e, t)
  BY DEF Settled
<1>1. JobsRight(d) /\ \A s \in DOMAIN d.txs : TxRight(d, s)
  BY DEF DroidRight
<1>2. /\ JobsRight(got) /\ got.jobs = Tail(d.jobs) /\ got.next = d.next
      /\ DOMAIN got.txs = DOMAIN d.txs
      /\ \A s \in DOMAIN d.txs : s # t => got.txs[s] = d.txs[s] /\ JobIds(got, s) = JobIds(d, s)
  BY <1>0 DEF Popped
<1>3. t \in DOMAIN d.txs
  BY <1>1, AnsweredPops
<1>4. AskedMore(got, asked, t, more)
  BY <1>2, <1>3, MoreAsked
<1> HIDE DEF asked
<1>5. /\ JobsRight(asked) /\ DOMAIN asked.txs = DOMAIN d.txs
      /\ \A s \in DOMAIN d.txs : s # t => asked.txs[s] = got.txs[s] /\ JobIds(asked, s) = JobIds(got, s)
      /\ asked.jobs = NewJobs(got, t, more)
  BY <1>2, <1>4 DEF AskedMore
<1>6. /\ JobsRight(e) /\ e.jobs = asked.jobs
      /\ DOMAIN e.txs = DOMAIN d.txs
      /\ \A s \in DOMAIN d.txs : s # t => e.txs[s] = asked.txs[s]
      /\ \A s : JobIds(e, s) = JobIds(asked, s)
  BY <1>0, <1>3, <1>5, TxChanges
<1>7. ASSUME NEW s \in DOMAIN d.txs, s # t
      PROVE  TxRight(e, s)
  <2>1. e.txs[s] = d.txs[s] /\ JobIds(e, s) = JobIds(d, s) /\ TxRight(d, s)
    BY <1>1, <1>2, <1>5, <1>6, <1>7
  <2>2. QED
    BY <2>1 DEF TxRight
<1>8. e.jobs = JobsAfter(d, more)
  BY <1>2, <1>5, <1>6 DEF JobsAfter, NewJobs
<1>9. QED
  BY <1>0, <1>6, <1>7, <1>8 DEF DroidRight

\* A query succeeded
LEMMA QueryCompletes ==
    ASSUME NEW d, DroidRight(d), d.jobs # <<>>, NEW more \in BOOLEAN
    PROVE  LET e == Storage!CompleteQuery(d, Head(d.jobs), more)
           IN  DroidRight(e) /\ e.jobs \in {JobsAfter(d, more), Tail(d.jobs)}
<1> DEFINE job == Head(d.jobs)
           t == job.tx
           got == Storage!Answered(d, job)
           asked == Storage!More(got, job, more)
           e == Storage!CompleteQuery(d, job, more)
           rest == asked.txs[t].queries \ {job.id}
           heard == IF asked.txs[t].callbacks /\ rest = {} THEN Append(asked.txs[t].heard, "success")
                    ELSE asked.txs[t].heard
           tx == [asked.txs[t] EXCEPT !.queries = rest, !.heard = heard]
<1>1. JobsRight(d) /\ TxRight(d, t) /\ (\A s \in DOMAIN d.txs : TxRight(d, s)) /\ t \in DOMAIN d.txs
  BY AnsweredPops DEF DroidRight
<1>2. /\ Popped(d, got) /\ got.txs = d.txs /\ job.id \in JobIds(d, t) /\ job.id # d.next
  BY <1>1, AnsweredPops
<1> HIDE DEF got
<1>3. /\ JobsRight(got) /\ got.jobs = Tail(d.jobs) /\ got.next = d.next
      /\ DOMAIN got.txs = DOMAIN d.txs /\ JobIds(got, t) = JobIds(d, t) \ {job.id}
      /\ \A s \in DOMAIN d.txs : s # t => got.txs[s] = d.txs[s] /\ JobIds(got, s) = JobIds(d, s)
  BY <1>2 DEF Popped
<1>4. d.txs[t] \in Tx
  BY <1>1 DEF JobsRight, Droid
<1>5. CASE job.id \notin d.txs[t].queries
  <2>1. e = got
    BY <1>5 DEF Storage!CompleteQuery, got
  <2>2. d.txs[t].failed /\ d.txs[t].queries = {}
    BY <1>1, <1>2, <1>5 DEF TxRight
  <2>3. TxRight(got, t)
    BY <1>1, <1>2, <2>2 DEF TxRight
  <2>4. \A s \in DOMAIN d.txs : s # t => TxRight(got, s)
    BY <1>1, <1>3 DEF TxRight
  <2>5. DroidRight(got)
    BY <1>3, <2>3, <2>4 DEF DroidRight
  <2>6. QED
    BY <1>3, <2>1, <2>5
<1>6. CASE job.id \in d.txs[t].queries
  <2>1. ~d.txs[t].failed /\ d.txs[t].queries = JobIds(d, t)
    BY <1>1, <1>4, <1>6 DEF TxRight, Tx
  <2>2. d.txs[t].callbacks /\ ~d.txs[t].threw => d.txs[t].heard = <<>>
    BY <1>1, <1>6, <2>1 DEF TxRight
  <2>3. AskedMore(got, asked, t, more)
    BY <1>1, <1>3, MoreAsked
  <2>4. /\ JobsRight(asked) /\ DOMAIN asked.txs = DOMAIN d.txs
        /\ JobIds(asked, t) = (JobIds(d, t) \ {job.id}) \cup NewIds(d, more)
        /\ asked.txs[t] = [d.txs[t] EXCEPT !.queries = @ \cup NewIds(d, more)]
    BY <1>2, <1>3, <2>3 DEF AskedMore, NewIds
  <2> HIDE DEF asked
  <2>5. /\ asked.txs[t].queries = d.txs[t].queries \cup NewIds(d, more)
        /\ asked.txs[t].failed = d.txs[t].failed /\ asked.txs[t].callbacks = d.txs[t].callbacks
        /\ asked.txs[t].threw = d.txs[t].threw /\ asked.txs[t].heard = d.txs[t].heard
    BY <1>4, <2>4 DEF Tx
  <2>6. rest = JobIds(asked, t)
    <3>1. job.id \notin NewIds(d, more)
      BY <1>2 DEF NewIds
    <3>2. QED
      BY <2>1, <2>4, <2>5, <3>1
  <2>7. /\ asked.txs[t] \in Tx /\ asked.txs \in Seq(Tx) /\ t \in DOMAIN asked.txs
        /\ asked \in Droid
    BY <1>1, <2>4 DEF JobsRight, Droid
  <2>8. e = [asked EXCEPT !.txs[t] = tx]
    <3>1. e = Storage!QueryComplete(asked, t, job.id)
      BY <1>6 DEF Storage!CompleteQuery, asked, got
    <3> DEFINE left == [asked EXCEPT !.txs[t].queries = @ \ {job.id}]
    <3>2. left.txs[t].queries = rest
      BY <2>7 DEF Droid, Tx
    <3>3. CASE asked.txs[t].callbacks /\ rest = {}
      <4>1. e = [left EXCEPT !.txs[t].heard = Append(@, "success")]
        BY <3>1, <3>2, <3>3 DEF Storage!QueryComplete
      <4>2. heard = Append(asked.txs[t].heard, "success")
        BY <3>3
      <4> HIDE DEF heard
      <4>3. QED
        BY <2>7, <4>1, <4>2 DEF Droid, Tx
    <3>4. CASE ~(asked.txs[t].callbacks /\ rest = {})
      <4>1. e = left
        BY <3>1, <3>2, <3>4 DEF Storage!QueryComplete
      <4>2. heard = asked.txs[t].heard
        BY <3>4
      <4> HIDE DEF heard
      <4>3. QED
        BY <2>7, <4>1, <4>2 DEF Droid, Tx
    <3>5. QED
      BY <3>3, <3>4
  <2> HIDE DEF rest
  <2>9. heard \in Seq({"error", "success"}) /\ rest \in SUBSET Nat
    BY <2>7 DEF Tx, rest
  <2>10. heard = IF asked.txs[t].callbacks /\ rest = {} THEN Append(d.txs[t].heard, "success")
                 ELSE d.txs[t].heard
    BY <2>5
  <2> HIDE DEF heard
  <2>11. /\ tx \in Tx /\ tx.queries = rest /\ tx.heard = heard /\ tx.failed = d.txs[t].failed
         /\ tx.callbacks = d.txs[t].callbacks /\ tx.threw = d.txs[t].threw
    BY <2>5, <2>7, <2>9 DEF Tx
  <2> HIDE DEF tx, e
  <2>12. tx.callbacks = asked.txs[t].callbacks
    BY <2>5, <2>11
  <2>13. TxRight(e, t)
    <3>1. e.txs[t] = tx /\ JobIds(e, t) = JobIds(asked, t)
      <4>1. JobsRight(asked) /\ t \in DOMAIN asked.txs /\ tx \in Tx
        BY <2>4, <2>7, <2>11
      <4>2. QED
        BY <2>8, <2>12, <4>1, TxChanges
    <3>2. Append(<<>>, "success") = <<"success">>
      OBVIOUS
    <3>3. tx.callbacks /\ ~tx.threw => tx.heard = IF rest = {} THEN <<"success">> ELSE <<>>
      BY <2>2, <2>10, <2>11, <2>5, <3>2
    <3>4. QED
      BY <2>1, <2>6, <2>11, <3>1, <3>3 DEF TxRight
  <2>14. DroidRight(e) /\ e.jobs = JobsAfter(d, more)
    <3>1. Settled(d, got, more, tx, e)
      BY <1>2, <2>8, <2>11, <2>12, <2>13 DEF Settled, asked
    <3>2. QED
      BY <3>1, TxAnswered
  <2>15. QED
    BY <2>14 DEF e
<1>7. QED
  BY <1>5, <1>6

\* A query failed
LEMMA QueryFails ==
    ASSUME NEW d, DroidRight(d), d.jobs # <<>>, NEW more \in BOOLEAN
    PROVE  LET e == Storage!Fail(d, Head(d.jobs), more)
           IN  DroidRight(e) /\ e.jobs \in {JobsAfter(d, more), Tail(d.jobs)}
<1> DEFINE job == Head(d.jobs)
           t == job.tx
           popped == Storage!Answered(d, job)
           none == [d.txs[t] EXCEPT !.queries = {}]
           got == [popped EXCEPT !.txs[t].queries = {}]
           asked == Storage!More(got, job, more)
           e == Storage!Fail(d, job, more)
           heard == IF asked.txs[t].callbacks THEN Append(asked.txs[t].heard, "error")
                    ELSE asked.txs[t].heard
           tx == [asked.txs[t] EXCEPT !.queries = {}, !.failed = TRUE, !.heard = heard]
<1>1. JobsRight(d) /\ TxRight(d, t) /\ (\A s \in DOMAIN d.txs : TxRight(d, s)) /\ t \in DOMAIN d.txs
  BY AnsweredPops DEF DroidRight
<1>2. /\ Popped(d, popped) /\ popped.txs = d.txs /\ job.id \in JobIds(d, t)
  BY <1>1, AnsweredPops
<1> HIDE DEF popped
<1>3. /\ JobsRight(popped) /\ popped.jobs = Tail(d.jobs) /\ popped.next = d.next
      /\ DOMAIN popped.txs = DOMAIN d.txs /\ JobIds(popped, t) = JobIds(d, t) \ {job.id}
      /\ \A s \in DOMAIN d.txs : s # t => popped.txs[s] = d.txs[s] /\ JobIds(popped, s) = JobIds(d, s)
  BY <1>2 DEF Popped
<1>4. d.txs[t] \in Tx
  BY <1>1 DEF JobsRight, Droid
<1>5. CASE job.id \notin d.txs[t].queries
  <2>1. e = popped
    BY <1>5 DEF Storage!Fail, popped
  <2>2. d.txs[t].failed /\ d.txs[t].queries = {}
    BY <1>1, <1>2, <1>5 DEF TxRight
  <2>3. TxRight(popped, t)
    BY <1>1, <1>2, <2>2 DEF TxRight
  <2>4. \A s \in DOMAIN d.txs : s # t => TxRight(popped, s)
    BY <1>1, <1>3 DEF TxRight
  <2>5. DroidRight(popped)
    BY <1>3, <2>3, <2>4 DEF DroidRight
  <2>6. QED
    BY <1>3, <2>1, <2>5
<1>6. CASE job.id \in d.txs[t].queries
  <2>1. ~d.txs[t].failed
    BY <1>1, <1>6 DEF TxRight
  <2>2. d.txs[t].callbacks /\ ~d.txs[t].threw => d.txs[t].heard = <<>>
    BY <1>1, <1>6, <2>1 DEF TxRight
  <2>3. none \in Tx /\ none.callbacks = d.txs[t].callbacks
    BY <1>4 DEF Tx
  <2>4. got = [popped EXCEPT !.txs[t] = none]
    BY <1>2, <1>3, <1>1, <1>4 DEF JobsRight, Droid
  <2> HIDE DEF none, got
  <2>5. /\ JobsRight(got) /\ got.jobs = popped.jobs /\ got.next = popped.next
        /\ DOMAIN got.txs = DOMAIN popped.txs /\ got.txs[t] = none
        /\ \A s \in DOMAIN d.txs : s # t => got.txs[s] = popped.txs[s]
        /\ \A s : JobIds(got, s) = JobIds(popped, s)
    BY <1>1, <1>2, <1>3, <2>3, <2>4, TxChanges
  <2>6. Popped(d, got)
    BY <1>3, <2>3, <2>5 DEF Popped
  <2>7. AskedMore(got, asked, t, more)
    BY <1>1, <1>3, <2>5, MoreAsked
  <2>8. /\ JobsRight(asked) /\ DOMAIN asked.txs = DOMAIN d.txs
        /\ asked.txs[t] = [none EXCEPT !.queries = @ \cup NewIds(got, more)]
    BY <1>3, <2>5, <2>7 DEF AskedMore
  <2> HIDE DEF asked
  <2>9. /\ asked.txs[t].callbacks = d.txs[t].callbacks
        /\ asked.txs[t].threw = d.txs[t].threw /\ asked.txs[t].heard = d.txs[t].heard
    BY <1>4, <2>8 DEF Tx, none
  <2>10. /\ asked.txs[t] \in Tx /\ asked.txs \in Seq(Tx) /\ t \in DOMAIN asked.txs
         /\ asked \in Droid
    BY <1>1, <2>8 DEF JobsRight, Droid
  <2>11. e = [asked EXCEPT !.txs[t] = tx]
    <3>1. e = Storage!QueryFailed(asked, t)
      BY <1>6 DEF Storage!Fail, asked, got, popped
    <3>2. QED
      BY <3>1 DEF Storage!QueryFailed
  <2>12. heard \in Seq({"error", "success"})
    BY <2>10 DEF Tx
  <2>13. heard = IF d.txs[t].callbacks THEN Append(d.txs[t].heard, "error") ELSE d.txs[t].heard
    BY <2>9
  <2> HIDE DEF heard
  <2>14. /\ tx \in Tx /\ tx.queries = {} /\ tx.heard = heard /\ tx.failed
         /\ tx.callbacks = d.txs[t].callbacks /\ tx.threw = d.txs[t].threw
    BY <2>9, <2>10, <2>12 DEF Tx
  <2> HIDE DEF tx, e
  <2>15. tx.callbacks = asked.txs[t].callbacks
    BY <2>9, <2>14
  <2>16. TxRight(e, t)
    <3>1. e.txs[t] = tx
      BY <2>8, <2>10, <2>11, <2>14, <2>15, TxChanges
    <3>2. Append(<<>>, "error") = <<"error">>
      OBVIOUS
    <3>3. tx.callbacks /\ ~tx.threw => tx.heard = <<"error">>
      BY <2>2, <2>13, <2>14, <3>2
    <3>4. QED
      BY <2>14, <3>1, <3>3 DEF TxRight
  <2>17. DroidRight(e) /\ e.jobs = JobsAfter(d, more)
    <3>1. Settled(d, got, more, tx, e)
      BY <2>6, <2>11, <2>14, <2>15, <2>16 DEF Settled, asked
    <3>2. QED
      BY <3>1, TxAnswered
  <2>18. QED
    BY <2>17 DEF e
<1>7. QED
  BY <1>5, <1>6

-----------------------------------------------------------------------------
(* The copy, the table and the jobs between them, a key at a time            *)

LEMMA RowsMember ==
    ASSUME NEW f
    PROVE  f \in Rows <=> DOMAIN f \in SUBSET Keys /\ f \in [DOMAIN f -> Values]
BY DEF Rows

\* What each statement does to the table
LEMMA RunIs ==
    ASSUME NEW f, NEW sql
    PROVE  /\ sql.verb = "replace" => Storage!Run(f, sql) = Storage!Put(f, sql.key, sql.value)
           /\ sql.verb = "delete" => Storage!Run(f, sql) = Storage!Without(f, sql.key)
           /\ sql.verb = "clear" => Storage!Run(f, sql) = [k \in {} |-> Storage!NoKey]
           /\ sql.verb \notin {"replace", "delete", "clear"} => Storage!Run(f, sql) = f
<1>1. CASE sql.verb = "replace"
  BY <1>1 DEF Storage!Run
<1>2. CASE sql.verb = "delete"
  BY <1>2 DEF Storage!Run
<1>3. CASE sql.verb = "clear"
  BY <1>3 DEF Storage!Run
<1>4. CASE sql.verb \notin {"replace", "delete", "clear"}
  BY <1>4 DEF Storage!Run
<1>5. QED
  BY <1>1, <1>2, <1>3, <1>4

LEMMA NoRows ==
    LET none == [k \in {} |-> Storage!NoKey]
    IN  DOMAIN none = {} /\ none \in Rows
<1>1. DOMAIN [k \in {} |-> Storage!NoKey] = {} /\ [k \in {} |-> Storage!NoKey] \in [{} -> Values]
  OBVIOUS
<1>2. QED
  BY <1>1, RowsMember

LEMMA PutRows ==
    ASSUME NEW f \in Rows, NEW key \in Keys, NEW value \in Values
    PROVE  Storage!Put(f, key, value) \in Rows
<1> DEFINE g == Storage!Put(f, key, value)
<1>1. DOMAIN f \in SUBSET Keys /\ f \in [DOMAIN f -> Values]
  BY RowsMember
<1>2. DOMAIN g = DOMAIN f \cup {key} /\ g \in [DOMAIN f \cup {key} -> Values]
  BY <1>1 DEF Storage!Put
<1> HIDE DEF g
<1>3. g \in Rows
  BY <1>1, <1>2, RowsMember
<1>4. QED
  BY <1>3 DEF g

LEMMA WithoutIs ==
    ASSUME NEW f, NEW key
    PROVE  /\ DOMAIN Storage!Without(f, key) = DOMAIN f \ {key}
           /\ \A k \in DOMAIN f \ {key} : Storage!Without(f, key)[k] = f[k]
BY DEF Storage!Without

LEMMA WithoutRows ==
    ASSUME NEW f \in Rows, NEW key
    PROVE  Storage!Without(f, key) \in Rows
<1> DEFINE g == Storage!Without(f, key)
<1>1. DOMAIN f \in SUBSET Keys /\ f \in [DOMAIN f -> Values]
  BY RowsMember
<1>2. DOMAIN g = DOMAIN f \ {key} /\ g \in [DOMAIN f \ {key} -> Values]
  BY <1>1 DEF Storage!Without
<1> HIDE DEF g
<1>3. g \in Rows
  BY <1>1, <1>2, RowsMember
<1>4. QED
  BY <1>3 DEF g

LEMMA RunRows ==
    ASSUME NEW f \in Rows, NEW sql \in Sqls
    PROVE  Storage!Run(f, sql) \in Rows
<1>1. CASE sql.verb = "replace"
  <2>1. sql.key \in Keys /\ sql.value \in Values
    BY <1>1 DEF Sqls
  <2>2. Storage!Put(f, sql.key, sql.value) \in Rows
    BY <2>1, PutRows
  <2>3. QED
    BY <1>1, <2>2, RunIs
<1>2. CASE sql.verb = "delete"
  BY <1>2, RunIs, WithoutRows
<1>3. CASE sql.verb = "clear"
  BY <1>3, RunIs, NoRows
<1>4. CASE sql.verb \notin {"replace", "delete", "clear"}
  BY <1>4, RunIs
<1>5. QED
  BY <1>1, <1>2, <1>3, <1>4

\* A statement about a key leaves the same row whatever the table was
LEMMA RunReplace ==
    ASSUME NEW rows, NEW sql, sql.verb = "replace"
    PROVE  /\ DOMAIN Storage!Run(rows, sql) = DOMAIN rows \cup {sql.key}
           /\ Storage!Run(rows, sql)[sql.key] = sql.value
<1>1. Storage!Run(rows, sql) = Storage!Put(rows, sql.key, sql.value)
  BY DEF Storage!Run
<1>2. QED
  BY <1>1 DEF Storage!Put

LEMMA RunTouched ==
    ASSUME NEW f \in Rows, NEW g \in Rows, NEW sql \in Sqls, NEW key, Storage!Touches(sql, key)
    PROVE  Storage!SameRow(Storage!Run(f, sql), Storage!Run(g, sql), key)
<1>1. sql.verb = "clear" \/ (sql.verb \in {"replace", "delete"} /\ sql.key = key)
  BY DEF Storage!Touches
<1>2. CASE sql.verb = "replace"
  <2>1. sql.key \in Keys /\ sql.value \in Values /\ sql.key = key
    BY <1>1, <1>2 DEF Sqls
  <2>2. /\ DOMAIN Storage!Run(f, sql) = DOMAIN f \cup {sql.key}
        /\ Storage!Run(f, sql)[sql.key] = sql.value
    BY <1>2, RunReplace
  <2>3. /\ DOMAIN Storage!Run(g, sql) = DOMAIN g \cup {sql.key}
        /\ Storage!Run(g, sql)[sql.key] = sql.value
    BY <1>2, RunReplace
  <2>4. QED
    BY <2>1, <2>2, <2>3 DEF Storage!SameRow
<1>3. CASE sql.verb = "delete"
  <2>1. /\ Storage!Run(f, sql) = Storage!Without(f, key)
        /\ Storage!Run(g, sql) = Storage!Without(g, key)
    BY <1>1, <1>3, RunIs
  <2>2. key \notin DOMAIN Storage!Run(f, sql) /\ key \notin DOMAIN Storage!Run(g, sql)
    BY <2>1 DEF Storage!Without
  <2>3. QED
    BY <2>2 DEF Storage!SameRow
<1>4. CASE sql.verb = "clear"
  BY <1>4, RunIs DEF Storage!SameRow
<1>5. QED
  BY <1>1, <1>2, <1>3, <1>4

\* and one that is not leaves the row
LEMMA RunUntouched ==
    ASSUME NEW f \in Rows, NEW sql \in Sqls, NEW key, ~Storage!Touches(sql, key)
    PROVE  Storage!SameRow(Storage!Run(f, sql), f, key)
<1>1. sql.verb # "clear" /\ (sql.verb \in {"replace", "delete"} => sql.key # key)
  BY DEF Storage!Touches
<1>2. CASE sql.verb = "replace"
  <2>1. sql.key \in Keys /\ sql.value \in Values /\ sql.key # key
    BY <1>1, <1>2 DEF Sqls
  <2> DEFINE p == Storage!Put(f, sql.key, sql.value)
  <2>2. DOMAIN p = DOMAIN f \cup {sql.key} /\ \A k \in DOMAIN f : k # sql.key => p[k] = f[k]
    BY DEF Storage!Put
  <2>3. Storage!Run(f, sql) = p
    BY <1>2, RunIs
  <2> HIDE DEF p
  <2>4. QED
    BY <2>1, <2>2, <2>3 DEF Storage!SameRow
<1>3. CASE sql.verb = "delete"
  <2> DEFINE p == Storage!Without(f, sql.key)
  <2>1. DOMAIN p = DOMAIN f \ {sql.key} /\ \A k \in DOMAIN f \ {sql.key} : p[k] = f[k]
    BY WithoutIs
  <2>2. Storage!Run(f, sql) = p
    BY <1>3, RunIs
  <2> HIDE DEF p
  <2>3. QED
    BY <1>1, <1>3, <2>1, <2>2 DEF Storage!SameRow
<1>4. CASE sql.verb \notin {"replace", "delete", "clear"}
  BY <1>4, RunIs DEF Storage!SameRow
<1>5. QED
  BY <1>1, <1>2, <1>3, <1>4

LEMMA SameRowThen ==
    ASSUME NEW f, NEW g, NEW h, NEW key
    PROVE  /\ Storage!SameRow(f, f, key)
           /\ Storage!SameRow(f, g, key) => Storage!SameRow(g, f, key)
           /\ Storage!SameRow(f, g, key) /\ Storage!SameRow(g, h, key) => Storage!SameRow(f, h, key)
BY DEF Storage!SameRow

-----------------------------------------------------------------------------
\* The copy has the row that the jobs leave in the table
Untouched(jobs, key) == \A i \in DOMAIN jobs : ~Storage!Touches(jobs[i].sql, key)

LastTouch(jobs, i, key) ==
    /\ i \in DOMAIN jobs /\ Storage!Touches(jobs[i].sql, key)
    /\ \A j \in DOMAIN jobs : j > i => ~Storage!Touches(jobs[j].sql, key)

RowRight(jobs, copy, rows, key) ==
    \/ Untouched(jobs, key) /\ Storage!SameRow(copy, rows, key)
    \/ \E i : LastTouch(jobs, i, key) /\ Storage!SameRow(copy, Storage!Run(rows, jobs[i].sql), key)

\* The jobs that were added come last
LEMMA AddedSplit ==
    ASSUME NEW jobs, NEW new, NEW sqls, JobsAdded(jobs, new, sqls), Len(sqls) \in Nat
    PROVE  \A i \in DOMAIN new :
              \/ i \in DOMAIN jobs /\ new[i] = jobs[i] /\ i <= Len(jobs)
              \/ i > Len(jobs) /\ \E k \in 1..Len(sqls) : i = Len(jobs) + k /\ new[i].sql = sqls[k]
<1> DEFINE n == Len(jobs)
<1>1. /\ n \in Nat /\ DOMAIN jobs = 1..n /\ DOMAIN new = 1..n + Len(sqls)
      /\ \A i \in 1..n : new[i] = jobs[i]
      /\ \A i \in 1..Len(sqls) : new[n + i].sql = sqls[i]
  BY DEF JobsAdded
<1> HIDE DEF n
<1>2. ASSUME NEW i \in 1..n + Len(sqls), i > n
      PROVE  \E k \in 1..Len(sqls) : i = n + k /\ new[i].sql = sqls[k]
  <2>1. i - n \in 1..Len(sqls) /\ i = n + (i - n)
    BY <1>1, <1>2
  <2>2. QED
    BY <1>1, <2>1
<1>3. ASSUME NEW i \in 1..n + Len(sqls), ~(i > n)
      PROVE  i \in 1..n /\ i <= n
  BY <1>1, <1>3
<1>4. QED
  BY <1>1, <1>2, <1>3 DEF n

\* Jobs about other keys do not matter to this one
LEMMA RowKept ==
    ASSUME NEW jobs, NEW new, NEW sqls, JobsAdded(jobs, new, sqls), Len(sqls) \in Nat,
           NEW key, \A i \in 1..Len(sqls) : ~Storage!Touches(sqls[i], key),
           NEW copy, NEW rows, RowRight(jobs, copy, rows, key),
           NEW later, Storage!SameRow(later, copy, key)
    PROVE  RowRight(new, later, rows, key)
<1>1. \A i \in DOMAIN new :
         \/ i \in DOMAIN jobs /\ new[i] = jobs[i]
         \/ ~Storage!Touches(new[i].sql, key)
  BY AddedSplit
<1>2. CASE Untouched(jobs, key) /\ Storage!SameRow(copy, rows, key)
  <2>1. Untouched(new, key)
    BY <1>1, <1>2 DEF Untouched
  <2>2. QED
    BY <1>2, <2>1, SameRowThen DEF RowRight
<1>3. ASSUME NEW i, LastTouch(jobs, i, key),
             Storage!SameRow(copy, Storage!Run(rows, jobs[i].sql), key)
      PROVE  RowRight(new, later, rows, key)
  <2>1. i \in DOMAIN new /\ new[i] = jobs[i]
    BY <1>3 DEF LastTouch, JobsAdded
  <2>2. LastTouch(new, i, key)
    BY <1>1, <1>3, <2>1 DEF LastTouch
  <2>3. Storage!SameRow(later, Storage!Run(rows, new[i].sql), key)
    BY <1>3, <2>1, SameRowThen
  <2>4. QED
    BY <2>2, <2>3 DEF RowRight
<1>4. QED
  BY <1>2, <1>3 DEF RowRight

\* The last job decides
LEMMA RowWritten ==
    ASSUME NEW jobs, NEW new, NEW sqls, JobsAdded(jobs, new, sqls), Len(sqls) = 2,
           NEW key, Storage!Touches(sqls[2], key),
           NEW rows, NEW later, Storage!SameRow(later, Storage!Run(rows, sqls[2]), key)
    PROVE  RowRight(new, later, rows, key)
<1> DEFINE i == Len(jobs) + 2
<1>1. /\ Len(jobs) \in Nat /\ DOMAIN new = 1..i
      /\ \A k \in 1..2 : new[Len(jobs) + k].sql = sqls[k]
  BY DEF JobsAdded
<1>2. new[i].sql = sqls[2] /\ i \in 1..i
  BY <1>1
<1>3. \A j \in 1..i : ~(j > i)
  BY <1>1
<1> HIDE DEF i
<1>4. LastTouch(new, i, key)
  BY <1>1, <1>2, <1>3 DEF LastTouch
<1>5. QED
  BY <1>2, <1>4 DEF RowRight

\* The first job is done, and the page's transaction may have added one
Shifted(jobs, new) ==
    LET n == Len(jobs)
    IN  /\ n \in Nat \ {0} /\ DOMAIN jobs = 1..n /\ Head(jobs) = jobs[1] /\ jobs \in Seq(Job)
        /\ 1..n - 1 \subseteq DOMAIN new
        /\ \A i \in 1..n - 1 : i + 1 \in DOMAIN jobs /\ i + 1 # 1 /\ new[i] = jobs[i + 1]
        /\ \A i \in DOMAIN new : i \in Nat /\ (i \in 1..n - 1 \/ new[i].sql = PageSql)

LEMMA AfterShifts ==
    ASSUME NEW d, JobsRight(d), d.jobs # <<>>, NEW more \in BOOLEAN
    PROVE  Shifted(d.jobs, JobsAfter(d, more)) /\ Shifted(d.jobs, Tail(d.jobs))
<1> DEFINE n == Len(d.jobs)
           rest == Tail(d.jobs)
           job == [id |-> d.next, tx |-> Head(d.jobs).tx, sql |-> PageSql]
<1>1. d.jobs \in Seq(Job)
  BY DEF JobsRight, Droid
<1>2. /\ n \in Nat /\ n >= 1 /\ DOMAIN d.jobs = 1..n /\ Head(d.jobs) = d.jobs[1]
      /\ rest \in Seq(Job) /\ DOMAIN rest = 1..n - 1
      /\ \A i \in 1..n - 1 : rest[i] = d.jobs[i + 1] /\ i + 1 \in 1..n /\ i + 1 # 1
  BY <1>1, TailOf
<1>3. job.sql = PageSql
  OBVIOUS
<1> HIDE DEF rest, job, n
<1>4. Shifted(d.jobs, rest)
  BY <1>1, <1>2 DEF Shifted, n
<1>5. Shifted(d.jobs, Append(rest, job))
  <2>1. Len(rest) = n - 1
    BY <1>2
  <2>2. /\ DOMAIN Append(rest, job) = 1..n /\ Append(rest, job)[n] = job
        /\ \A i \in 1..n - 1 : Append(rest, job)[i] = rest[i]
    BY <1>2, <2>1
  <2>3. \A i \in 1..n : i \in 1..n - 1 \/ i = n
    BY <1>2
  <2>4. 1..n - 1 \subseteq 1..n
    BY <1>2
  <2>5. QED
    BY <1>1, <1>2, <1>3, <2>2, <2>3, <2>4 DEF Shifted, n
<1>6. JobsAfter(d, more) \in {rest, Append(rest, job)}
  BY DEF JobsAfter, rest, job
<1>7. QED
  BY <1>4, <1>5, <1>6 DEF rest

\* A job of the page is about no key
LEMMA PageTouches == ASSUME NEW key PROVE PageSql \in Sqls /\ ~Storage!Touches(PageSql, key)
BY DEF PageSql, Storage!Touches, Sqls, Verbs

\* Running the first job keeps what the jobs leave
LEMMA RowRun ==
    ASSUME NEW jobs, NEW new, Shifted(jobs, new), NEW key, NEW copy, NEW rows \in Rows,
           RowRight(jobs, copy, rows, key)
    PROVE  RowRight(new, copy, Storage!Run(rows, jobs[1].sql), key)
<1> DEFINE n == Len(jobs)
           sql == jobs[1].sql
           after == Storage!Run(rows, sql)
<1>1. /\ n \in Nat \ {0} /\ DOMAIN jobs = 1..n /\ jobs \in Seq(Job)
      /\ 1..n - 1 \subseteq DOMAIN new
      /\ \A i \in 1..n - 1 : i + 1 \in DOMAIN jobs /\ i + 1 # 1 /\ new[i] = jobs[i + 1]
      /\ \A i \in DOMAIN new : i \in Nat /\ (i \in 1..n - 1 \/ new[i].sql = PageSql)
  BY DEF Shifted
<1> HIDE DEF n
<1>2. 1 \in DOMAIN jobs /\ \A i \in DOMAIN jobs : jobs[i] \in Job /\ i \in Nat /\ (i = 1 \/ i - 1 \in 1..n - 1)
  BY <1>1
<1>3. \A i \in DOMAIN jobs : jobs[i].sql \in Sqls
  BY <1>2 DEF Job
<1>4. sql \in Sqls /\ after \in Rows
  BY <1>2, <1>3, RunRows
<1> HIDE DEF sql, after
<1>5. \A i \in DOMAIN new : ~(i \in 1..n - 1) => ~Storage!Touches(new[i].sql, key)
  BY <1>1, PageTouches
<1>6. CASE Untouched(jobs, key) /\ Storage!SameRow(copy, rows, key)
  <2>1. Untouched(new, key)
    BY <1>1, <1>5, <1>6 DEF Untouched
  <2>2. ~Storage!Touches(sql, key)
    BY <1>2, <1>6 DEF Untouched, sql
  <2>3. Storage!SameRow(after, rows, key)
    BY <1>4, <2>2, RunUntouched DEF after
  <2>4. QED
    BY <1>6, <2>1, <2>3, SameRowThen DEF RowRight, after, sql
<1>7. ASSUME NEW i, LastTouch(jobs, i, key),
             Storage!SameRow(copy, Storage!Run(rows, jobs[i].sql), key)
      PROVE  RowRight(new, copy, after, key)
  <2>1. /\ i \in DOMAIN jobs /\ Storage!Touches(jobs[i].sql, key)
        /\ \A j \in DOMAIN jobs : j > i => ~Storage!Touches(jobs[j].sql, key)
    BY <1>7 DEF LastTouch
  <2>2. CASE i = 1
    <3>1. \A j \in 1..n - 1 : j + 1 > 1
      BY <1>1
    <3>2. Untouched(new, key)
      BY <1>1, <1>5, <2>1, <2>2, <3>1 DEF Untouched
    <3>3. Storage!SameRow(copy, after, key)
      BY <1>7, <2>2 DEF after, sql
    <3>4. QED
      BY <3>2, <3>3 DEF RowRight
  <2>3. CASE i # 1
    <3>1. i - 1 \in 1..n - 1 /\ (i - 1) + 1 = i
      BY <1>1, <1>2, <2>1, <2>3
    <3>2. new[i - 1] = jobs[i] /\ i - 1 \in DOMAIN new
      BY <1>1, <3>1
    <3>3. ASSUME NEW j \in DOMAIN new, j > i - 1
          PROVE  ~Storage!Touches(new[j].sql, key)
      <4>1. CASE j \in 1..n - 1
        <5>1. j + 1 > i
          BY <1>2, <2>1, <3>1, <3>3, <4>1
        <5>2. QED
          BY <1>1, <2>1, <4>1, <5>1
      <4>2. QED
        BY <1>5, <4>1
    <3>4. LastTouch(new, i - 1, key)
      BY <2>1, <3>2, <3>3 DEF LastTouch
    <3>5. Storage!SameRow(Storage!Run(rows, jobs[i].sql), Storage!Run(after, jobs[i].sql), key)
      BY <1>3, <1>4, <2>1, RunTouched
    <3>6. Storage!SameRow(copy, Storage!Run(after, new[i - 1].sql), key)
      BY <1>7, <3>2, <3>5, SameRowThen
    <3>7. QED
      BY <3>4, <3>6 DEF RowRight
  <2>4. QED
    BY <2>2, <2>3
<1>8. QED
  BY <1>6, <1>7 DEF RowRight, after, sql

-----------------------------------------------------------------------------
\* The rows are loaded by the one select there is, and until then nothing is
\* written; from then on, unless a query of localStorage failed, every row is
\* what the jobs leave, and length counts the copy but for keys removed twice
StorageInv ==
    /\ DroidRight(droid)
    /\ storage \in Rows /\ table \in Rows /\ length \in Int /\ missing \in Int
    /\ \A i, j \in DOMAIN droid.jobs :
          droid.jobs[i].sql.verb = "select" /\ droid.jobs[j].sql.verb = "select" => i = j
    /\ loaded => \A i \in DOMAIN droid.jobs : droid.jobs[i].sql.verb # "select"
    /\ ~loaded => /\ DOMAIN storage = {}
                  /\ \A i \in DOMAIN droid.jobs : droid.jobs[i].sql.verb \in {"create", "select", "page"}
    /\ loaded /\ ~lost =>
          /\ \A key \in Keys : RowRight(droid.jobs, storage, table, key)
          /\ length = Cardinality(DOMAIN storage) - missing

LEMMA StorageInit == Storage!Init => StorageInv
<1>1. SUFFICES ASSUME Storage!Init PROVE StorageInv
  OBVIOUS
<1> DEFINE none == [txs |-> <<>>, queue |-> {}, jobs |-> <<>>, next |-> 1]
           create == [verb |-> "create", key |-> "no key", value |-> "no key"]
           select == [verb |-> "select", key |-> "no key", value |-> "no key"]
           sqls == <<create, select>>
<1>2. /\ table \in Rows /\ length = 0 /\ missing = 0 /\ loaded = FALSE
      /\ DOMAIN storage = {} /\ storage \in Rows
      /\ droid = Storage!Transaction(none, FALSE, sqls, FALSE)
  BY <1>1, NoRows DEF Storage!Init, Storage!Create, Storage!Sql, Storage!NoKey, Rows
<1>3. DroidRight(none)
  <2>1. /\ none.txs = <<>> /\ none.queue = {} /\ none.jobs = <<>> /\ none.next = 1
        /\ none \in Droid
    BY DEF Droid
  <2> HIDE DEF none
  <2>2. DOMAIN none.txs = {} /\ DOMAIN none.jobs = {}
    BY <2>1
  <2>3. QED
    BY <2>1, <2>2 DEF DroidRight, JobsRight
<1>4. create \in Sqls /\ select \in Sqls /\ create.verb = "create" /\ select.verb = "select"
  BY DEF Sqls, Verbs
<1>5. none.jobs = <<>>
  OBVIOUS
<1> HIDE DEF none, create, select
<1>6. sqls \in Seq(Sqls) /\ Len(sqls) = 2 /\ sqls[1] = create /\ sqls[2] = select
  BY <1>4
<1> HIDE DEF sqls
<1>7. DroidRight(droid) /\ JobsAdded(none.jobs, droid.jobs, sqls)
  <2>1. Len(sqls) <= 2 /\ FALSE \in BOOLEAN
    BY <1>6
  <2>2. /\ DroidRight(Storage!Transaction(none, FALSE, sqls, FALSE))
        /\ JobsAdded(none.jobs, Storage!Transaction(none, FALSE, sqls, FALSE).jobs, sqls)
    BY <1>3, <1>6, <2>1, TransactionBegins
  <2>3. QED
    BY <1>2, <2>2
<1>8. DOMAIN droid.jobs = 1..2 /\ droid.jobs[1].sql = create /\ droid.jobs[2].sql = select
  <2>1. Len(none.jobs) = 0
    BY <1>5
  <2>2. /\ DOMAIN droid.jobs = 1..0 + 2
        /\ \A i \in 1..2 : droid.jobs[0 + i].sql = sqls[i]
    BY <1>6, <1>7, <2>1 DEF JobsAdded
  <2>3. 1 \in 1..2 /\ 2 \in 1..2 /\ 0 + 1 = 1 /\ 0 + 2 = 2
    OBVIOUS
  <2>4. QED
    BY <1>6, <2>2, <2>3
<1>9. \A i \in DOMAIN droid.jobs : i = 1 \/ i = 2
  BY <1>8
<1>10. \A i \in DOMAIN droid.jobs : /\ droid.jobs[i].sql.verb = "select" => i = 2
                                    /\ droid.jobs[i].sql.verb \in {"create", "select", "page"}
  BY <1>4, <1>8, <1>9
<1>11. length \in Int /\ missing \in Int /\ ~loaded
  BY <1>2
<1>12. QED
  BY <1>2, <1>7, <1>10, <1>11 DEF StorageInv

\* A change of the copy and the transaction that carries it to the table
LEMMA ChangeKept ==
    ASSUME StorageInv, loaded, NEW sql \in Sqls, sql.verb \in {"replace", "delete", "clear"},
           Storage!Change(sql),
           storage' \in Rows, length' \in Int, missing' \in Int,
           UNCHANGED <<loaded, table, lost>>,
           \A key : Storage!Touches(sql, key) => Storage!SameRow(storage', Storage!Run(table, sql), key),
           \A key : ~Storage!Touches(sql, key) => Storage!SameRow(storage', storage, key),
           ~lost => length' = Cardinality(DOMAIN storage') - missing'
    PROVE  StorageInv'
<1> DEFINE create == [verb |-> "create", key |-> "no key", value |-> "no key"]
           sqls == <<create, sql>>
<1>1. droid' = Storage!Transaction(droid, FALSE, sqls, FALSE)
  BY DEF Storage!Change, Storage!Create, Storage!Sql, Storage!NoKey
<1>2. create \in Sqls /\ create.verb = "create"
  BY DEF Sqls, Verbs
<1> HIDE DEF create
<1>3. sqls \in Seq(Sqls) /\ Len(sqls) = 2 /\ sqls[1] = create /\ sqls[2] = sql /\ Len(sqls) \in Nat
  BY <1>2
<1> HIDE DEF sqls
<1>4. DroidRight(droid') /\ JobsAdded(droid.jobs, droid'.jobs, sqls)
  <2>1. Len(sqls) <= 2 /\ FALSE \in BOOLEAN /\ DroidRight(droid)
    BY <1>3 DEF StorageInv
  <2>2. /\ DroidRight(Storage!Transaction(droid, FALSE, sqls, FALSE))
        /\ JobsAdded(droid.jobs, Storage!Transaction(droid, FALSE, sqls, FALSE).jobs, sqls)
    BY <1>3, <2>1, TransactionBegins
  <2>3. QED
    BY <1>1, <2>2
<1>5. \A k \in 1..2 : k = 1 \/ k = 2
  OBVIOUS
<1>6. \A i \in DOMAIN droid'.jobs : droid'.jobs[i].sql.verb # "select"
  <2>1. \A i \in DOMAIN droid'.jobs :
           \/ i \in DOMAIN droid.jobs /\ droid'.jobs[i] = droid.jobs[i]
           \/ \E k \in 1..2 : droid'.jobs[i].sql = sqls[k]
    BY <1>3, <1>4, AddedSplit
  <2>2. QED
    BY <1>2, <1>3, <1>5, <2>1 DEF StorageInv
<1>7. ASSUME ~lost, NEW key \in Keys
      PROVE  RowRight(droid'.jobs, storage', table, key)
  <2>1. CASE Storage!Touches(sql, key)
    <3>1. Storage!Touches(sqls[2], key) /\ Storage!SameRow(storage', Storage!Run(table, sqls[2]), key)
      BY <1>3, <2>1
    <3>2. QED
      BY <1>3, <1>4, <3>1, RowWritten
  <2>2. CASE ~Storage!Touches(sql, key)
    <3>1. ~Storage!Touches(create, key)
      BY <1>2 DEF Storage!Touches
    <3>2. \A k \in 1..Len(sqls) : ~Storage!Touches(sqls[k], key)
      BY <1>3, <1>5, <2>2, <3>1
    <3>3. RowRight(droid.jobs, storage, table, key)
      BY <1>7 DEF StorageInv
    <3>4. Storage!SameRow(storage', storage, key)
      BY <2>2
    <3>5. QED
      BY <1>3, <1>4, <3>2, <3>3, <3>4, RowKept
  <2>3. QED
    BY <2>1, <2>2
<1>8. QED
  BY <1>4, <1>6, <1>7 DEF StorageInv

LEMMA RowsFinite == ASSUME NEW f \in Rows PROVE IsFiniteSet(DOMAIN f) /\ Cardinality(DOMAIN f) \in Nat
<1>1. DOMAIN f \in SUBSET Keys
  BY RowsMember
<1>2. IsFiniteSet(DOMAIN f)
  BY <1>1, KeysAssumption, FS_Subset
<1>3. QED
  BY <1>2, FS_CardinalityType

LEMMA SetItemKept ==
    ASSUME StorageInv, NEW key \in Keys, NEW value \in Values, Storage!SetItem(key, value)
    PROVE  StorageInv'
<1> DEFINE sql == [verb |-> "replace", key |-> key, value |-> value]
<1>1. /\ loaded /\ Storage!Change(sql)
      /\ length' = IF key \in DOMAIN storage THEN length ELSE length + 1
      /\ storage' = Storage!Put(storage, key, value)
      /\ UNCHANGED <<loaded, table, lost, missing>>
  BY DEF Storage!SetItem, Storage!Sql
<1>2. storage \in Rows /\ table \in Rows /\ length \in Int /\ missing \in Int
  BY DEF StorageInv
<1>3. /\ sql \in Sqls /\ sql.verb = "replace" /\ sql.key = key /\ sql.value = value
  BY DEF Sqls, Verbs
<1> HIDE DEF sql
<1>4. /\ storage' \in Rows /\ DOMAIN storage' = DOMAIN storage \cup {key} /\ storage'[key] = value
      /\ \A k \in DOMAIN storage : k # key => storage'[k] = storage[k]
  <2>1. storage' \in Rows
    BY <1>1, <1>2, PutRows
  <2>2. storage' = [k \in DOMAIN storage \cup {key} |-> IF k = key THEN value ELSE storage[k]]
    BY <1>1 DEF Storage!Put
  <2>3. QED
    BY <2>1, <2>2
<1>5. \A k : Storage!Touches(sql, k) <=> k = key
  BY <1>3 DEF Storage!Touches
<1>6. Storage!SameRow(storage', Storage!Run(table, sql), key)
  <2> DEFINE p == Storage!Put(table, key, value)
  <2>1. DOMAIN p = DOMAIN table \cup {key} /\ p[key] = value
    BY DEF Storage!Put
  <2>2. Storage!Run(table, sql) = p
    BY <1>3, RunIs
  <2> HIDE DEF p
  <2>3. QED
    BY <1>4, <2>1, <2>2 DEF Storage!SameRow
<1>7. \A k : k # key => Storage!SameRow(storage', storage, k)
  BY <1>4 DEF Storage!SameRow
<1>8. ~lost => length' = Cardinality(DOMAIN storage') - missing'
  <2>1. SUFFICES ASSUME ~lost PROVE length' = Cardinality(DOMAIN storage') - missing
    BY <1>1
  <2>2. length = Cardinality(DOMAIN storage) - missing /\ Cardinality(DOMAIN storage) \in Nat
    BY <1>1, <1>2, <2>1, RowsFinite DEF StorageInv
  <2>3. Cardinality(DOMAIN storage \cup {key})
          = IF key \in DOMAIN storage THEN Cardinality(DOMAIN storage) ELSE Cardinality(DOMAIN storage) + 1
    BY <1>2, RowsFinite, FS_AddElement
  <2>4. QED
    BY <1>1, <1>2, <1>4, <2>2, <2>3
<1>9. length' \in Int
  BY <1>1, <1>2
<1>10. QED
  BY <1>1, <1>2, <1>3, <1>4, <1>5, <1>6, <1>7, <1>8, <1>9, ChangeKept

LEMMA RemoveItemKept ==
    ASSUME StorageInv, NEW key \in Keys, Storage!RemoveItem(key)
    PROVE  StorageInv'
<1> DEFINE sql == [verb |-> "delete", key |-> key, value |-> "no key"]
<1>1. /\ loaded /\ Storage!Change(sql)
      /\ storage' = Storage!Without(storage, key)
      /\ length' = length - 1
      /\ missing' = IF key \in DOMAIN storage THEN missing ELSE missing + 1
      /\ UNCHANGED <<loaded, table, lost>>
  BY DEF Storage!RemoveItem, Storage!Sql, Storage!NoKey
<1>2. storage \in Rows /\ table \in Rows /\ length \in Int /\ missing \in Int
  BY DEF StorageInv
<1>3. sql \in Sqls /\ sql.verb = "delete" /\ sql.key = key
  BY DEF Sqls, Verbs
<1> HIDE DEF sql
<1>4. /\ storage' \in Rows /\ DOMAIN storage' = DOMAIN storage \ {key}
      /\ \A k \in DOMAIN storage' : storage'[k] = storage[k]
  BY <1>1, <1>2, WithoutIs, WithoutRows
<1>5. \A k : Storage!Touches(sql, k) <=> k = key
  BY <1>3 DEF Storage!Touches
<1>6. Storage!SameRow(storage', Storage!Run(table, sql), key)
  <2> DEFINE p == Storage!Without(table, key)
  <2>1. DOMAIN p = DOMAIN table \ {key}
    BY WithoutIs
  <2>2. Storage!Run(table, sql) = p
    BY <1>3, RunIs
  <2> HIDE DEF p
  <2>3. QED
    BY <1>4, <2>1, <2>2 DEF Storage!SameRow
<1>7. \A k : k # key => Storage!SameRow(storage', storage, k)
  BY <1>4 DEF Storage!SameRow
<1>8. ~lost => length' = Cardinality(DOMAIN storage') - missing'
  <2>1. SUFFICES ASSUME ~lost PROVE length' = Cardinality(DOMAIN storage') - missing'
    OBVIOUS
  <2>2. length = Cardinality(DOMAIN storage) - missing /\ Cardinality(DOMAIN storage) \in Nat
    BY <1>1, <1>2, <2>1, RowsFinite DEF StorageInv
  <2>3. Cardinality(DOMAIN storage \ {key})
          = IF key \in DOMAIN storage THEN Cardinality(DOMAIN storage) - 1 ELSE Cardinality(DOMAIN storage)
    BY <1>2, RowsFinite, FS_RemoveElement
  <2>4. QED
    BY <1>1, <1>2, <1>4, <2>2, <2>3
<1>9. length' \in Int /\ missing' \in Int
  BY <1>1, <1>2
<1>10. QED
  BY <1>1, <1>2, <1>3, <1>4, <1>5, <1>6, <1>7, <1>8, <1>9, ChangeKept

LEMMA ClearKept ==
    ASSUME StorageInv, Storage!Clear
    PROVE  StorageInv'
<1> DEFINE sql == [verb |-> "clear", key |-> "no key", value |-> "no key"]
           none == [k \in {} |-> Storage!NoKey]
<1>1. /\ loaded /\ Storage!Change(sql)
      /\ storage' = none /\ length' = 0 /\ missing' = 0
      /\ UNCHANGED <<loaded, table, lost>>
  BY DEF Storage!Clear, Storage!Sql, Storage!NoKey
<1>2. DOMAIN none = {} /\ none \in Rows
  BY NoRows
<1>3. sql \in Sqls /\ sql.verb = "clear"
  BY DEF Sqls, Verbs
<1> HIDE DEF sql
<1>4. \A k : Storage!Touches(sql, k)
  BY <1>3 DEF Storage!Touches
<1>5. Storage!Run(table, sql) = none
  BY <1>3, RunIs
<1> HIDE DEF none
<1>6. \A k : Storage!SameRow(storage', Storage!Run(table, sql), k)
  BY <1>1, <1>5, SameRowThen
<1>7. length' = Cardinality(DOMAIN storage') - missing'
  BY <1>1, <1>2, FS_EmptySet
<1>8. storage' \in Rows /\ length' \in Int /\ missing' \in Int
  BY <1>1, <1>2
<1>9. \A k : ~Storage!Touches(sql, k) => Storage!SameRow(storage', storage, k)
  BY <1>4
<1>10. sql.verb \in {"replace", "delete", "clear"}
  BY <1>3
<1>11. QED
  BY <1>1, <1>3, <1>6, <1>7, <1>8, <1>9, <1>10, ChangeKept

LEMMA PageTransactionKept ==
    ASSUME StorageInv, NEW n \in 0..2, NEW throws \in BOOLEAN, Storage!PageTransaction(n, throws)
    PROVE  StorageInv'
<1> DEFINE sqls == [i \in 1..n |-> PageSql]
<1>1. /\ droid' = Storage!Transaction(droid, TRUE, sqls, throws)
      /\ UNCHANGED <<storage, length, loaded, table, lost, missing>>
  BY DEF Storage!PageTransaction, Storage!Sql, Storage!NoKey, PageSql
<1>2. PageSql \in Sqls /\ PageSql.verb = "page"
  BY DEF PageSql, Sqls, Verbs
<1>3. /\ sqls \in Seq(Sqls) /\ Len(sqls) = n /\ n \in Nat /\ n <= 2 /\ DOMAIN sqls = 1..n
      /\ \A i \in 1..n : sqls[i] = PageSql
  BY <1>2
<1> HIDE DEF sqls
<1>4. DroidRight(droid') /\ JobsAdded(droid.jobs, droid'.jobs, sqls)
  <2>1. \A i \in DOMAIN sqls : sqls[i].verb = "page"
    BY <1>2, <1>3
  <2>2. Len(sqls) <= 2 /\ DroidRight(droid)
    BY <1>3 DEF StorageInv
  <2>3. QED
    BY <1>1, <1>3, <2>1, <2>2, TransactionBegins
<1>5. \A i \in DOMAIN droid'.jobs :
         \/ i \in DOMAIN droid.jobs /\ droid'.jobs[i] = droid.jobs[i]
         \/ droid'.jobs[i].sql = PageSql
  <2>1. \A i \in DOMAIN droid'.jobs :
           \/ i \in DOMAIN droid.jobs /\ droid'.jobs[i] = droid.jobs[i]
           \/ \E k \in 1..Len(sqls) : droid'.jobs[i].sql = sqls[k]
    BY <1>3, <1>4, AddedSplit
  <2>2. QED
    BY <1>3, <2>1
<1>6. ASSUME loaded, ~lost, NEW key \in Keys
      PROVE  RowRight(droid'.jobs, storage, table, key)
  <2>1. RowRight(droid.jobs, storage, table, key)
    BY <1>6 DEF StorageInv
  <2>2. \A i \in 1..Len(sqls) : ~Storage!Touches(sqls[i], key)
    BY <1>3, PageTouches
  <2>3. Storage!SameRow(storage, storage, key)
    BY SameRowThen
  <2>4. QED
    BY <1>3, <1>4, <2>1, <2>2, <2>3, RowKept
<1>7. QED
  BY <1>1, <1>2, <1>4, <1>5, <1>6, ZenonT(40) DEF StorageInv

\* What is asked for next is about no select that was not asked for before
LEMMA ShiftedJobs ==
    ASSUME NEW jobs, NEW new, Shifted(jobs, new)
    PROVE  \A i \in DOMAIN new : \/ i + 1 \in DOMAIN jobs /\ i + 1 # 1 /\ new[i] = jobs[i + 1]
                                 \/ new[i].sql = PageSql
BY DEF Shifted

LEMMA JobsKept ==
    ASSUME StorageInv, Shifted(droid.jobs, droid'.jobs)
    PROVE  /\ \A i, j \in DOMAIN droid'.jobs :
                 droid'.jobs[i].sql.verb = "select" /\ droid'.jobs[j].sql.verb = "select" => i = j
           /\ loaded \/ droid.jobs[1].sql.verb = "select" =>
                 \A i \in DOMAIN droid'.jobs : droid'.jobs[i].sql.verb # "select"
           /\ ~loaded =>
                 \A i \in DOMAIN droid'.jobs : droid'.jobs[i].sql.verb \in {"create", "select", "page"}
<1> DEFINE jobs == droid.jobs
           new == droid'.jobs
<1>1. /\ \A i, j \in DOMAIN jobs : jobs[i].sql.verb = "select" /\ jobs[j].sql.verb = "select" => i = j
      /\ loaded => \A i \in DOMAIN jobs : jobs[i].sql.verb # "select"
      /\ ~loaded => \A i \in DOMAIN jobs : jobs[i].sql.verb \in {"create", "select", "page"}
  BY DEF StorageInv
<1>2. /\ \A i \in DOMAIN new : \/ i + 1 \in DOMAIN jobs /\ i + 1 # 1 /\ new[i] = jobs[i + 1]
                               \/ new[i].sql = PageSql
      /\ \A i \in DOMAIN new : i \in Nat
      /\ 1 \in DOMAIN jobs
  BY ShiftedJobs DEF Shifted
<1>3. PageSql.verb = "page"
  BY DEF PageSql
<1> HIDE DEF jobs, new
<1>4. ASSUME NEW i \in DOMAIN new, new[i].sql.verb = "select"
      PROVE  i + 1 \in DOMAIN jobs /\ i + 1 # 1 /\ jobs[i + 1].sql.verb = "select"
  BY <1>2, <1>3, <1>4
<1>5. ASSUME NEW i \in DOMAIN new, NEW j \in DOMAIN new,
             new[i].sql.verb = "select", new[j].sql.verb = "select"
      PROVE  i = j
  <2>1. i + 1 = j + 1
    BY <1>1, <1>4, <1>5
  <2>2. i \in Nat /\ j \in Nat
    BY <1>2
  <2>3. QED
    BY <2>1, <2>2
<1>6. ASSUME loaded \/ jobs[1].sql.verb = "select", NEW i \in DOMAIN new
      PROVE  new[i].sql.verb # "select"
  BY <1>1, <1>2, <1>4, <1>6
<1>7. ASSUME ~loaded, NEW i \in DOMAIN new
      PROVE  new[i].sql.verb \in {"create", "select", "page"}
  BY <1>1, <1>2, <1>3, <1>7
<1>8. QED
  BY <1>5, <1>6, <1>7 DEF jobs, new

LEMMA RunJobKept ==
    ASSUME StorageInv, NEW more \in BOOLEAN, Storage!RunJob(more)
    PROVE  StorageInv'
<1> DEFINE job == Head(droid.jobs)
           loads == job.sql.verb = "select" /\ job.id \in droid.txs[job.tx].queries
<1>1. /\ droid.jobs # <<>> /\ droid' = Storage!CompleteQuery(droid, job, more)
      /\ table' = Storage!Run(table, job.sql) /\ lost' = lost
      /\ loads => /\ storage' = [k \in DOMAIN storage \cup DOMAIN table |->
                                     IF k \in DOMAIN table THEN table[k] ELSE storage[k]]
                  /\ length' = Storage!Cardinality(DOMAIN table)
                  /\ loaded' = TRUE /\ missing' = 0
      /\ ~loads => UNCHANGED <<storage, length, loaded, missing>>
  BY DEF Storage!RunJob
<1>2. /\ DroidRight(droid) /\ JobsRight(droid)
      /\ storage \in Rows /\ table \in Rows /\ length \in Int /\ missing \in Int
  BY DEF StorageInv, DroidRight
<1>3. DroidRight(droid') /\ Shifted(droid.jobs, droid'.jobs)
  <2>1. DroidRight(droid') /\ droid'.jobs \in {JobsAfter(droid, more), Tail(droid.jobs)}
    BY <1>1, <1>2, QueryCompletes
  <2>2. QED
    BY <1>1, <1>2, <2>1, AfterShifts
<1>4. job = droid.jobs[1] /\ 1 \in DOMAIN droid.jobs /\ job.sql \in Sqls
  <2>1. job = droid.jobs[1] /\ 1 \in DOMAIN droid.jobs /\ droid.jobs \in Seq(Job)
    BY <1>3 DEF Shifted
  <2>2. job \in Job
    BY <2>1
  <2>3. QED
    BY <2>1, <2>2 DEF Job
<1>5. table' \in Rows
  BY <1>1, <1>2, <1>4, RunRows
<1> HIDE DEF job
<1>6. CASE ~loads
  <2>1. UNCHANGED <<storage, length, loaded, missing>>
    BY <1>1, <1>6
  <2>2. ASSUME loaded, ~lost, NEW key \in Keys
        PROVE  RowRight(droid'.jobs, storage, table', key)
    <3>1. RowRight(droid.jobs, storage, table, key)
      BY <2>2 DEF StorageInv
    <3>2. QED
      BY <1>1, <1>2, <1>3, <1>4, <3>1, RowRun
  <2> HIDE DEF loads
  <2>3. QED
    BY <1>1, <1>2, <1>3, <1>5, <2>1, <2>2, JobsKept DEF StorageInv
<1>7. CASE loads
  <2>1. ~loaded /\ DOMAIN storage = {}
    BY <1>4, <1>7 DEF StorageInv
  <2>2. DOMAIN storage' = DOMAIN table /\ \A k \in DOMAIN table : storage'[k] = table[k]
    BY <1>1, <1>7, <2>1
  <2>3. storage' \in Rows
    <3>1. DOMAIN table \in SUBSET Keys /\ table \in [DOMAIN table -> Values]
      BY <1>2, RowsMember
    <3>2. storage' = [k \in DOMAIN table |-> table[k]]
      BY <1>1, <1>7, <2>1
    <3>3. storage' = table
      BY <3>1, <3>2
    <3>4. QED
      BY <1>2, <3>3
  <2>4. table' = table
    BY <1>1, <1>4, <1>7, RunIs
  <2>5. \A i \in DOMAIN droid'.jobs : droid'.jobs[i].sql.verb \in {"create", "page"}
    BY <1>3, <1>4, <1>7, <2>1, JobsKept
  <2>6. ASSUME NEW key \in Keys
        PROVE  RowRight(droid'.jobs, storage', table', key)
    <3>1. Untouched(droid'.jobs, key)
      BY <2>5 DEF Untouched, Storage!Touches
    <3>2. Storage!SameRow(storage', table', key)
      BY <2>2, <2>4 DEF Storage!SameRow
    <3>3. QED
      BY <3>1, <3>2 DEF RowRight
  <2>7. length' = Cardinality(DOMAIN storage') - 0 /\ length' \in Int
    <3>1. length' = Cardinality(DOMAIN storage')
      BY <1>1, <1>7, <2>2, SameCount
    <3>2. Cardinality(DOMAIN storage') \in Nat
      BY <2>3, RowsFinite
    <3>3. QED
      BY <3>1, <3>2
  <2>8. loaded' = TRUE /\ missing' = 0
    BY <1>1, <1>7
  <2> HIDE DEF loads
  <2>9. \A i, j \in DOMAIN droid'.jobs :
            droid'.jobs[i].sql.verb = "select" /\ droid'.jobs[j].sql.verb = "select" => i = j
    BY <2>5
  <2>10. QED
    BY <1>3, <1>5, <2>3, <2>5, <2>6, <2>7, <2>8, <2>9 DEF StorageInv
<1>8. QED
  BY <1>6, <1>7

LEMMA FailJobKept ==
    ASSUME StorageInv, NEW more \in BOOLEAN, Storage!FailJob(more)
    PROVE  StorageInv'
<1> DEFINE job == Head(droid.jobs)
<1>1. /\ droid.jobs # <<>> /\ droid' = Storage!Fail(droid, job, more)
      /\ lost' = (lost \/ ~droid.txs[job.tx].callbacks)
      /\ UNCHANGED <<storage, length, loaded, table, missing>>
  BY DEF Storage!FailJob
<1>2. /\ DroidRight(droid) /\ JobsRight(droid)
      /\ storage \in Rows /\ table \in Rows /\ length \in Int /\ missing \in Int
  BY DEF StorageInv, DroidRight
<1>3. DroidRight(droid') /\ Shifted(droid.jobs, droid'.jobs)
  <2>1. DroidRight(droid') /\ droid'.jobs \in {JobsAfter(droid, more), Tail(droid.jobs)}
    BY <1>1, <1>2, QueryFails
  <2>2. QED
    BY <1>1, <1>2, <2>1, AfterShifts
<1>4. job = droid.jobs[1] /\ 1 \in DOMAIN droid.jobs /\ job.sql \in Sqls
  <2>1. job = droid.jobs[1] /\ 1 \in DOMAIN droid.jobs /\ droid.jobs \in Seq(Job)
    BY <1>3 DEF Shifted
  <2>2. job \in Job
    BY <2>1
  <2>3. QED
    BY <2>1, <2>2 DEF Job
<1> HIDE DEF job
<1>5. ASSUME loaded, ~lost', NEW key \in Keys
      PROVE  RowRight(droid'.jobs, storage, table, key)
  <2>1. ~lost /\ droid.txs[job.tx].callbacks
    BY <1>1, <1>5
  <2>2. job.sql.verb = "page"
    BY <1>2, <1>4, <2>1 DEF JobsRight
  <2>3. Storage!Run(table, job.sql) = table
    BY <1>4, <2>2, RunIs
  <2>4. RowRight(droid.jobs, storage, table, key)
    BY <1>5, <2>1 DEF StorageInv
  <2>5. RowRight(droid'.jobs, storage, Storage!Run(table, droid.jobs[1].sql), key)
    BY <1>2, <1>3, <2>4, RowRun
  <2>6. QED
    BY <1>4, <2>3, <2>5
<1>6. ~lost' => ~lost
  BY <1>1
<1>7. QED
  BY <1>1, <1>2, <1>3, <1>5, <1>6, JobsKept DEF StorageInv

LEMMA StorageStep == ASSUME StorageInv, Storage!Next PROVE StorageInv'
BY SetItemKept, RemoveItemKept, ClearKept, PageTransactionKept, RunJobKept, FailJobKept DEF Storage!Next

LEMMA StorageIsRight == StorageInv => Storage!TransactionsSettle /\ Storage!StorageAgrees
<1>1. SUFFICES ASSUME StorageInv PROVE Storage!TransactionsSettle /\ Storage!StorageAgrees
  OBVIOUS
<1>2. /\ JobsRight(droid) /\ droid \in Droid
      /\ \A t \in DOMAIN droid.txs : TxRight(droid, t) /\ droid.txs[t] \in Tx
  BY <1>1 DEF StorageInv, DroidRight, JobsRight, Droid
<1>3. Storage!TransactionsSettle
  <2>1. SUFFICES ASSUME NEW t \in DOMAIN droid.txs
                 PROVE  LET tx == droid.txs[t]
                        IN  /\ tx.queries \subseteq droid.queue
                            /\ tx.callbacks /\ ~tx.threw =>
                                 /\ Len(tx.heard) <= 1
                                 /\ (tx.failed <=> tx.heard = <<"error">>)
                                 /\ (tx.heard = <<"success">> => Storage!JobsOf(t) = {})
    BY DEF Storage!TransactionsSettle
  <2> DEFINE tx == droid.txs[t]
  <2>2. /\ tx.queries = IF tx.failed THEN {} ELSE JobIds(droid, t)
        /\ tx.callbacks /\ ~tx.threw =>
              \/ tx.failed /\ tx.heard = <<"error">>
              \/ ~tx.failed /\ tx.heard = <<>>
              \/ ~tx.failed /\ tx.heard = <<"success">> /\ tx.queries = {}
    BY <1>2 DEF TxRight
  <2> HIDE DEF tx
  <2>3. JobIds(droid, t) \subseteq droid.queue
    BY <1>2 DEF JobIds, JobsRight
  <2>4. JobIds(droid, t) = {} => Storage!JobsOf(t) = {}
    BY DEF JobIds, Storage!JobsOf
  <2>5. /\ Len(<<"error">>) = 1 /\ Len(<<"success">>) = 1 /\ Len(<<>>) = 0
        /\ <<"error">> # <<"success">> /\ <<"error">> # <<>> /\ <<"success">> # <<>>
    OBVIOUS
  <2>6. tx.callbacks /\ ~tx.threw =>
            /\ Len(tx.heard) <= 1
            /\ (tx.failed <=> tx.heard = <<"error">>)
            /\ (tx.heard = <<"success">> => Storage!JobsOf(t) = {})
    <3>1. SUFFICES ASSUME tx.callbacks /\ ~tx.threw
                   PROVE  /\ Len(tx.heard) <= 1
                          /\ (tx.failed <=> tx.heard = <<"error">>)
                          /\ (tx.heard = <<"success">> => Storage!JobsOf(t) = {})
      OBVIOUS
    <3>2. CASE tx.failed /\ tx.heard = <<"error">>
      BY <2>5, <3>2
    <3>3. CASE ~tx.failed /\ tx.heard = <<>>
      BY <2>5, <3>3
    <3>4. CASE ~tx.failed /\ tx.heard = <<"success">> /\ tx.queries = {}
      <4>1. Storage!JobsOf(t) = {}
        BY <2>2, <2>4, <3>4
      <4>2. QED
        BY <2>5, <3>4, <4>1
    <3>5. QED
      BY <2>2, <3>1, <3>2, <3>3, <3>4
  <2>7. tx.queries \subseteq droid.queue
    BY <2>2, <2>3
  <2>8. QED
    BY <2>6, <2>7 DEF tx
<1>4. Storage!StorageAgrees
  <2>1. SUFFICES ASSUME loaded, ~lost
                 PROVE  /\ \A key \in Keys :
                              \/ /\ \A i \in DOMAIN droid.jobs : ~Storage!Touches(droid.jobs[i].sql, key)
                                 /\ Storage!SameRow(storage, table, key)
                              \/ \E i \in DOMAIN droid.jobs :
                                    /\ Storage!IsLast(i, key)
                                    /\ Storage!SameRow(storage, Storage!Run(table, droid.jobs[i].sql), key)
                        /\ length = Storage!Cardinality(DOMAIN storage) - missing
    BY DEF Storage!StorageAgrees
  <2>2. length = Storage!Cardinality(DOMAIN storage) - missing
    BY <1>1, <2>1, SameCount DEF StorageInv
  <2>3. ASSUME NEW key \in Keys
        PROVE  \/ /\ \A i \in DOMAIN droid.jobs : ~Storage!Touches(droid.jobs[i].sql, key)
                  /\ Storage!SameRow(storage, table, key)
               \/ \E i \in DOMAIN droid.jobs :
                     /\ Storage!IsLast(i, key)
                     /\ Storage!SameRow(storage, Storage!Run(table, droid.jobs[i].sql), key)
    <3>1. RowRight(droid.jobs, storage, table, key)
      BY <1>1, <2>1 DEF StorageInv
    <3>2. QED
      BY <3>1 DEF RowRight, Untouched, LastTouch, Storage!IsLast
  <2>4. QED
    BY <2>2, <2>3
<1>5. QED
  BY <1>3, <1>4

\* In every behaviour of the storage a transaction is told once how it ended,
\* and the copy is what the table becomes, for any keys, values and numbers of
\* transactions and queries, failed or not.
THEOREM StorageRightTheorem == PartsSpec => []StorageRight
<1> DEFINE Inv == part = "storage" => StorageInv
<1>1. PartsInit => Inv
  BY StorageInit DEF PartsInit
<1>2. Inv /\ [PartsNext]_partsVars => Inv'
  <2>1. SUFFICES ASSUME Inv, [PartsNext]_partsVars PROVE Inv'
    OBVIOUS
  <2>2. CASE UNCHANGED partsVars
    BY <2>1, <2>2 DEF partsVars, phoneGapVars, storageVars, StorageInv
  <2>3. CASE PartsNext
    <3>1. part' = part
      BY <2>3 DEF PartsNext
    <3>2. part = "storage" => Storage!Next
      BY <2>3 DEF PartsNext, StepOfPhoneGap
    <3>3. QED
      BY <2>1, <3>1, <3>2, StorageStep
  <2>4. QED
    BY <2>1, <2>2, <2>3
<1>3. Inv => StorageRight
  BY StorageIsRight DEF StorageRight
<1>4. QED
  BY <1>1, <1>2, <1>3, PTL DEF PartsSpec

=============================================================================

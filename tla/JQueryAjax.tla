----------------------------- MODULE JQueryAjax ------------------------------
(* jQuery.ajax of lib/jquery.js with its transport over XMLHttpRequest, the  *)
(* global events, timeouts and aborts, and how a response becomes the type   *)
(* of data that was asked for.                                               *)
(*                                                                           *)
(* A request is created, sent and, where it fails at once, ended in one      *)
(* step; what its handlers do in it is chosen with the call.                 *)
EXTENDS Integers, Sequences, FiniteSets, FiniteSetsExt, SequencesExt

CONSTANTS
    MaxRequests,    \* the requests of the page, those its callbacks make too
    DataTypes,      \* the dataTypes asked for
    ContentTypes    \* what servers say they sent; Unknown is no known type

VARIABLE ajax       \* jQuery.active, the requests, and the global events

Unknown == "unknown"

-----------------------------------------------------------------------------
(* Responses.  A datum is known by its type alone                            *)

\* ajaxSettings.converters, in their order
Converters == << <<"*", "text">>, <<"text", "html">>, <<"text", "json">>, <<"text", "xml">>,
                 <<"text", "script">> >>

HasConverter(from, to) == Contains(Converters, <<from, to>>)

\* ajaxHandleResponses: the chain of types from the response taken to the data.
\* The type asked for is expected, or what the server says it sent for "*"
HandleResponses(want, contentType, responses) ==
    LET expected == IF want # "*" THEN <<want>> ELSE IF contentType # Unknown THEN <<contentType>> ELSE <<>>
        fits(i)  == expected = <<>> \/ HasConverter(responses[i], Head(expected))
        first    == {i \in DOMAIN responses : fits(i) /\ \A j \in 1..i - 1 : ~fits(j)}
        final    == IF expected # <<>> /\ Contains(responses, Head(expected)) THEN Head(expected)
                    ELSE IF first # {} THEN responses[CHOOSE i \in first : TRUE]
                    ELSE Head(responses)
    IN  IF expected # <<>> /\ final = Head(expected) THEN expected ELSE <<final>> \o expected

\* ajaxConvert, one pair of the chain: a direct converter or two
Converts(from, to) ==
    \/ from = to
    \/ HasConverter(from, to) \/ HasConverter("*", to)
    \/ \E i \in DOMAIN Converters :
          Converters[i][1] \in {from, "*"} /\ HasConverter(Converters[i][2], to)

\* The type of the data, or an error that there is no conversion
Convert(chain) ==
    IF \A i \in 1..Len(chain) - 1 : Converts(chain[i], chain[i + 1]) THEN Last(chain) ELSE "no conversion"

-----------------------------------------------------------------------------
(* Ends of requests                                                          *)

Request(settings) ==
    [settings |-> settings, state |-> 0, installed |-> FALSE, globals |-> FALSE, transport |-> FALSE,
     callback |-> FALSE, timer |-> FALSE, fired |-> FALSE, heard |-> <<>>, ends |-> 0]

\* jQuery.event.trigger of ajaxStart and ajaxStop
Triggered(a, event) == [a EXCEPT !.events = Append(@, event)]

\* Request r becomes q
Becomes(a, r, q) == [a EXCEPT !.requests[r] = q]

\* Only what is installed hears
Hears(q, what) == IF q.installed THEN [q EXCEPT !.heard = Append(@, what)] ELSE q

\* A request is made; one with global events counts, the first of a batch is an
\* ajaxStart and the last to end an ajaxStop
Begun(a, q) == [a EXCEPT !.requests = Append(@, q)]

CountIn(a) == LET more == [a EXCEPT !.active = @ + 1]
              IN  IF a.active = 0 THEN Triggered(more, "ajaxStart") ELSE more

CountOut(a) == LET less == [a EXCEPT !.active = @ - 1]
               IN  IF less.active = 0 THEN Triggered(less, "ajaxStop") ELSE less

Counted(a, q) ==
    IF q.settings.global THEN CountIn(Begun(a, [q EXCEPT !.globals = TRUE])) ELSE Begun(a, q)

\* The callbacks are installed and the transport found; the timeout is set as
\* late as just before the request is sent; state is 1 whatever it was, and the
\* transport's callback is set in the end of its send
Ready(q)   == [q EXCEPT !.installed = TRUE, !.transport = TRUE]
Sending(q) == [q EXCEPT !.timer = q.settings.timeout, !.state = 1]
Sent(q)    == [Sending(q) EXCEPT !.callback = TRUE]

\* A request of a callback, once its parent is done: it counts from the start
\* and its answer comes later
Nested(a) == Counted(a, Sent(Ready(Request([global |-> TRUE, timeout |-> FALSE, want |-> "*"]))))

\* Each of the two deferreds fires once: the outcome's callbacks hear first, and
\* complete's when none of them throws
Ended(q, outcome, throws) ==
    LET over == [q EXCEPT !.state = 2, !.timer = FALSE, !.transport = FALSE, !.ends = @ + 1, !.fired = TRUE]
    IN  IF q.fired THEN over
        ELSE IF throws THEN Hears(over, outcome) ELSE Hears(Hears(over, outcome), <<"complete">>)

\* What is left of done() when the outcome's callbacks have run
Finished(a, r, outcome, mood) ==
    LET q     == a.requests[r]
        hears == q.installed /\ ~q.fired
        over  == Becomes(a, r, Ended(q, outcome, mood = "throws" /\ hears))
        after == IF mood = "asks again" /\ hears THEN Nested(over) ELSE over
    IN  IF mood = "throws" /\ hears THEN [over EXCEPT !.threw = TRUE]
        ELSE IF q.globals THEN CountOut(after) ELSE after

\* Mutant of Finish: a request that is done may be done again.
Finish_Again(a, r, outcome, mood) == Finished(a, r, outcome, mood)

\* done(): once; the outcome's callbacks, ajaxSuccess or ajaxError, complete,
\* ajaxComplete and the count.  A callback that throws ends it there.
Finish(a, r, outcome, mood) ==
    IF a.requests[r].state = 2 THEN a ELSE Finished(a, r, outcome, mood)

\* jqXHR.abort(): the transport forgets its callback, and done
Abort(a, r, why, mood) ==
    LET q == a.requests[r]
    IN  Finish(Becomes(a, r, [q EXCEPT !.callback = @ /\ ~q.transport]), r, <<"error", why>>, mood)

\* What the callback of the transport makes of a status.  304 has no data
Outcome(want, answer) ==
    LET data == Convert(HandleResponses(want, answer.contentType, answer.responses))
    IN  IF answer.status = "notmodified" THEN <<"success", "notmodified">>
        ELSE IF answer.status = "failed" THEN <<"error", "error">>
        ELSE IF answer.broken \/ data = "no conversion" THEN <<"error", "parsererror">>
        ELSE <<"success", data>>

Answer(a, r, answer, mood) ==
    LET q == a.requests[r]
    IN  Finish(Becomes(a, r, [q EXCEPT !.callback = FALSE]), r, Outcome(q.settings.want, answer), mood)

-----------------------------------------------------------------------------
(* ajax                                                                      *)

Settings == [global : BOOLEAN, timeout : BOOLEAN, want : DataTypes]

\* What handlers do before a request is sent, and how sending goes
Ways == {"prefilter aborts", "beforeSend refuses", "beforeSend aborts", "no transport", "ajaxSend aborts",
         "send throws", "sync", "async"}

Answers ==
    [status : {"ok"}, contentType : ContentTypes, responses : {<<"text">>, <<"xml", "text">>}, broken : BOOLEAN]
    \cup [status : {"notmodified", "failed"}, contentType : {Unknown}, responses : {<<"text">>}, broken : {FALSE}]

\* The transport's send throws
Throws(a, r, mood) == Finish(Becomes(a, r, Sending(a.requests[r])), r, <<"error", "error">>, mood)

Ajax(settings, way, answer, mood) ==
    LET r == Len(ajax.requests) + 1
        q == Request(settings)
        aborted == Abort(Counted(ajax, Ready(q)), r, "abort", mood)
    IN  /\ r <= MaxRequests
        /\ mood = "asks again" => r < MaxRequests
        /\ way = "ajaxSend aborts" => settings.global
        /\ ajax' =
             CASE way = "prefilter aborts" -> Abort(Begun(ajax, q), r, "abort", mood)
               [] way \in {"beforeSend refuses", "beforeSend aborts"} ->
                     Abort(Counted(ajax, q), r, "abort", mood)
               [] way = "no transport" ->
                     Finish(Counted(ajax, [q EXCEPT !.installed = TRUE]), r, <<"error", "No Transport">>, mood)
               [] way = "ajaxSend aborts" ->
                     IF mood = "throws" THEN aborted
                     ELSE [Throws(aborted, r, "quiet") EXCEPT !.crossed = TRUE]
               [] way = "send throws" -> Throws(Counted(ajax, Ready(q)), r, mood)
               [] way = "sync" ->
                     Answer(Counted(ajax, [Sent(Ready(q)) EXCEPT !.timer = FALSE]), r, answer, mood)
               [] way = "async" -> Counted(ajax, Sent(Ready(q)))

MayAsk(mood) == mood = "asks again" => Len(ajax.requests) < MaxRequests

\* readyState is 4: nothing is left to do when the callback was forgotten
XhrEvent(r, answer, mood) ==
    /\ ajax.requests[r].callback /\ MayAsk(mood)
    /\ ajax' = Answer(ajax, r, answer, mood)

\* jqXHR.abort("timeout")
Timeout(r, mood) ==
    /\ ajax.requests[r].timer /\ MayAsk(mood)
    /\ ajax' = Abort(Becomes(ajax, r, [ajax.requests[r] EXCEPT !.timer = FALSE]), r, "timeout", mood)

\* A request that is done may be aborted too
PageAborts(r, mood) ==
    /\ MayAsk(mood)
    /\ ajax' = Abort(ajax, r, "abort", mood)

Init == ajax = [active |-> 0, requests |-> <<>>, events |-> <<>>, threw |-> FALSE, crossed |-> FALSE]

Moods == {"quiet", "throws", "asks again"}

SomeAnswer == [status |-> "ok", contentType |-> Unknown, responses |-> <<"text">>, broken |-> FALSE]

Next ==
    \E mood \in Moods :
       \/ \E settings \in Settings :
             \/ \E way \in Ways \ {"sync"} : Ajax(settings, way, SomeAnswer, mood)
             \/ \E answer \in Answers : Ajax(settings, "sync", answer, mood)
       \/ \E r \in DOMAIN ajax.requests :
             \/ Timeout(r, mood) \/ PageAborts(r, mood)
             \/ \E answer \in Answers : XhrEvent(r, answer, mood)

Spec == Init /\ [][Next]_ajax

-----------------------------------------------------------------------------
(* Properties                                                                *)

\* A request ends once, its callbacks hear success or error and then complete,
\* the data is of the type wanted, and active counts what is under way, with
\* ajaxStart where it leaves 0 and ajaxStop where it is 0 again.  A handler of
\* ajaxSend that aborts ends a request twice, and a callback that throws leaves
\* active as it was, for good.
AjaxSettles ==
    ~ajax.crossed =>
        /\ \A r \in DOMAIN ajax.requests :
              LET q == ajax.requests[r]
              IN  /\ q.ends <= 1 /\ (q.ends = 1 <=> q.state = 2)
                  /\ q.state = 2 => ~q.timer /\ ~q.callback
                  /\ q.installed /\ ~ajax.threw => Len(q.heard) = IF q.state = 2 THEN 2 ELSE 0
                  /\ (q.heard # <<>> /\ Head(q.heard)[1] = "success") =>
                        Head(q.heard)[2] = "notmodified" \/ q.settings.want \in {"*", Head(q.heard)[2]}
        /\ ~ajax.threw =>
              /\ ajax.active = Cardinality({r \in DOMAIN ajax.requests :
                                              ajax.requests[r].globals /\ ajax.requests[r].state < 2})
              /\ \A i \in DOMAIN ajax.events :
                    ajax.events[i] = IF i % 2 = 1 THEN "ajaxStart" ELSE "ajaxStop"
              /\ Len(ajax.events) % 2 = IF ajax.active = 0 THEN 0 ELSE 1

=============================================================================

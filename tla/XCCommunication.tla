---------------------------- MODULE XCCommunication ----------------------------
(***************************************************************************)
(* XCCommunicationImpl, the external XMPP component that bundles share:    *)
(* each bundle registers a NamespaceExtension, and queries from the        *)
(* network are unmarshalled, given to the extension of their namespace and *)
(* answered with what it returns.                                          *)
(*                                                                         *)
(* The component is connected in its constructor, before any bundle has    *)
(* registered, so the threads that run its handlers (workers) meet the     *)
(* threads that run register (one per bundle) at any of the puts into      *)
(* three HashMaps that nothing guards.  Each access to a map is an action. *)
(* tinder, which calls the handlers, is external: it answers a query with  *)
(* internal-server-error when the handler throws.                          *)
(***************************************************************************)

CONSTANTS
    Namespaces,     \* XML namespaces
    Packages,       \* Java packages of JAXB classes
    Classes,        \* classes of XML root elements
    RootClasses,    \* the root classes of each package
    Bundles,        \* NamespaceExtension instances, each in its own bundle
    NamespaceOf,    \* getNamespace() of each
    PackageOf,      \* getPackage() of each
    Workers,        \* threads that run the component's handlers
    Queries,        \* packets of type get or set, by id
    TargetOf,       \* the namespace of each query's element, None without one
    Outgoing,       \* queries bundles send through sendQuery, by id
    None,
    SameBucket      \* whether keys that bundles put into a HashMap at one time
                    \* fall into one bucket of it

ASSUME XCCommunicationAssumption ==
    /\ RootClasses \in [Packages -> SUBSET Classes]
    /\ NamespaceOf \in [Bundles -> Namespaces]
    /\ PackageOf \in [Bundles -> Packages]
    /\ TargetOf \in [Queries -> Namespaces \cup {None}]
    /\ None \notin Namespaces \cup Packages \cup Classes \cup Bundles
                   \cup Queries
    /\ SameBucket \in BOOLEAN

VARIABLES
    reg,                \* where each bundle is in register
    todo,               \* classes its loop has still to put
    extensions,         \* the bundle of each namespace
    unmarshallers,      \* the package of the unmarshaller of each namespace
    marshallers,        \* classes with a marshaller
    queryIdExtension,   \* the callback of each outgoing query
    worker,             \* what each worker is doing
    taken,              \* queries that have arrived
    out,                \* answers sent
    errors              \* history: errors given to the callbacks

maps == <<extensions, unmarshallers, marshallers>>
vars == <<reg, todo, maps, queryIdExtension, worker, taken, out, errors>>

Opt(S) == S \cup {None}

\* What a worker knows of its query: what it has read of the maps and what
\* the extension returned; and two history fields, the bundles that were
\* registered when the query came, and whether no register has been under way
\* since.
Job == [at : {"idle", "extension", "unmarshaller", "log", "unmarshal",
              "receive", "marshal"},
        query : Opt(Queries), ext : Opt(Bundles), package : Opt(Packages),
        by : Opt(Bundles), result : Opt(Classes),
        known : SUBSET Bundles, quiet : BOOLEAN]
Idle == [at |-> "idle", query |-> None, ext |-> None, package |-> None,
         by |-> None, result |-> None, known |-> {}, quiet |-> FALSE]

\* What is sent: answers, with who handled the query and what came of it.
Answer == [kind : {"result", "unavailable", "error"}, query : Queries,
           by : Opt(Bundles), result : Opt(Classes),
           known : SUBSET Bundles, quiet : BOOLEAN]

Reg == {"new", "context", "unmarshaller", "classes", "marshallers",
        "registered", "failed"}
Registering(b) == reg[b] \notin {"new", "registered", "failed"}
Registered == {b \in Bundles : reg[b] = "registered"}

TypeOK ==
    /\ reg \in [Bundles -> Reg]
    /\ todo \in [Bundles -> SUBSET Classes]
    /\ extensions \in [Namespaces -> Opt(Bundles)]
    /\ unmarshallers \in [Namespaces -> Opt(Packages)]
    /\ marshallers \subseteq Classes
    /\ queryIdExtension \in [Outgoing -> Opt(Bundles)]
    /\ worker \in [Workers -> Job]
    /\ taken \subseteq Queries
    /\ out \subseteq Answer
    /\ errors \subseteq Outgoing \X Bundles

Init ==
    /\ reg = [b \in Bundles |-> "new"]
    /\ todo = [b \in Bundles |-> {}]
    /\ extensions = [n \in Namespaces |-> None]
    /\ unmarshallers = [n \in Namespaces |-> None]
    /\ marshallers = {}
    /\ queryIdExtension = [i \in Outgoing |-> None]
    /\ worker = [w \in Workers |-> Idle]
    /\ taken = {}
    /\ out = {}
    /\ errors = {}

-----------------------------------------------------------------------------
(* A bundle in register.                                                    *)

Advance(b, from, to) == reg[b] = from /\ reg' = [reg EXCEPT ![b] = to]

\* Nothing guards a put.  Of two puts at once into one bucket one is lost: it
\* returns as the other does, and leaves no entry.
Overrun(b) ==
    IF SameBucket THEN SUBSET {c \in Bundles \ {b} : reg[c] = reg[b]} ELSE {{}}

AdvanceAll(bs, from, to) ==
    /\ \A c \in bs : reg[c] = from
    /\ reg' = [c \in Bundles |-> IF c \in bs THEN to ELSE reg[c]]

\* Mutant of PutExtension: the map is made anew for each bundle.
PutExtension_Anew(b) ==
    /\ Advance(b, "new", "context")
    /\ extensions' = [n \in Namespaces |-> IF n = NamespaceOf[b] THEN b ELSE None]
    /\ worker' = [w \in Workers |-> [worker[w] EXCEPT !.quiet = FALSE]]
    /\ UNCHANGED <<todo, unmarshallers, marshallers, queryIdExtension, taken,
                   out, errors>>

\* extensions.put; the queries in work are no longer undisturbed.
PutExtension(b) ==
    /\ \E lost \in Overrun(b) : AdvanceAll(lost \cup {b}, "new", "context")
    /\ extensions' = [extensions EXCEPT ![NamespaceOf[b]] = b]
    /\ worker' = [w \in Workers |-> [worker[w] EXCEPT !.quiet = FALSE]]
    /\ UNCHANGED <<todo, unmarshallers, marshallers, queryIdExtension, taken,
                   out, errors>>

\* JAXBContext.newInstance and createUnmarshaller, which may throw a
\* JAXBException: register throws a CommunicationException.
NewContext(b) ==
    /\ Advance(b, "context", "unmarshaller") \/ Advance(b, "context", "failed")
    /\ UNCHANGED <<todo, maps, queryIdExtension, worker, taken, out, errors>>

\* Mutant of PutUnmarshaller: the map is made anew for each bundle.
PutUnmarshaller_Anew(b) ==
    /\ Advance(b, "unmarshaller", "classes")
    /\ unmarshallers' = [n \in Namespaces |->
                            IF n = NamespaceOf[b] THEN PackageOf[b] ELSE None]
    /\ UNCHANGED <<todo, extensions, marshallers, queryIdExtension, worker,
                   taken, out, errors>>

\* unmarshallers.put
PutUnmarshaller(b) ==
    /\ \E lost \in Overrun(b) :
          AdvanceAll(lost \cup {b}, "unmarshaller", "classes")
    /\ unmarshallers' = [unmarshallers EXCEPT ![NamespaceOf[b]] = PackageOf[b]]
    /\ UNCHANGED <<todo, extensions, marshallers, queryIdExtension, worker,
                   taken, out, errors>>

\* createMarshaller, which may throw a JAXBException, and Class.forName, which
\* may throw a ClassNotFoundException.
LoadClasses(b) ==
    /\ \/ /\ Advance(b, "classes", "marshallers")
          /\ todo' = [todo EXCEPT ![b] = RootClasses[PackageOf[b]]]
       \/ Advance(b, "classes", "failed") /\ UNCHANGED todo
    /\ UNCHANGED <<maps, queryIdExtension, worker, taken, out, errors>>

\* One round of the loop over the factory's methods, in any order:
\* marshallers.put of a class.
PutMarshaller(b) ==
    /\ reg[b] = "marshallers"
    /\ \E class \in todo[b], lost \in Overrun(b) :
          /\ marshallers' = marshallers \cup {class}
          /\ todo' \in [Bundles -> SUBSET Classes]
          /\ todo'[b] = todo[b] \ {class}
          /\ \A c \in Bundles \ {b} :
                IF c \in lost THEN \E d \in todo[c] : todo'[c] = todo[c] \ {d}
                ELSE todo'[c] = todo[c]
    /\ UNCHANGED <<reg, extensions, unmarshallers, queryIdExtension, worker,
                   taken, out, errors>>

\* Mutant of Finish: the loop ends after any number of rounds.
Finish_Early(b) ==
    /\ Advance(b, "marshallers", "registered")
    /\ UNCHANGED <<todo, maps, queryIdExtension, worker, taken, out, errors>>

Finish(b) ==
    /\ todo[b] = {}
    /\ Advance(b, "marshallers", "registered")
    /\ UNCHANGED <<todo, maps, queryIdExtension, worker, taken, out, errors>>

Register(b) ==
    \/ PutExtension(b) \/ NewContext(b) \/ PutUnmarshaller(b)
    \/ LoadClasses(b) \/ PutMarshaller(b) \/ Finish(b)

-----------------------------------------------------------------------------
(* A worker in handleIQGet (handleIQSet calls it).                          *)

Unchanged == UNCHANGED <<reg, todo, maps, queryIdExtension, taken, out, errors>>

\* The worker goes on with its query, having learnt something.
Step(w, from, job) ==
    /\ worker[w].at = from
    /\ worker' = [worker EXCEPT ![w] = job]

AnswerTo(job, kind) ==
    [kind |-> kind, query |-> job.query, by |-> job.by, result |-> job.result,
     known |-> job.known, quiet |-> job.quiet]

\* The handler ends: it returns the reply, or throws and tinder replies.
Reply(w, kind) ==
    /\ out' = out \cup {AnswerTo(worker[w], kind)}
    /\ worker' = [worker EXCEPT ![w] = Idle]
    /\ UNCHANGED <<reg, todo, maps, queryIdExtension, taken, errors>>

\* A query arrives.  elements().get(0) throws if it holds no element.
Take(w, q) ==
    LET job == [Idle EXCEPT !.at = "extension", !.query = q,
                            !.known = Registered,
                            !.quiet = ~ \E b \in Bundles : Registering(b)]
    IN
    /\ q \notin taken
    /\ taken' = taken \cup {q}
    /\ worker[w].at = "idle"
    /\ \/ /\ TargetOf[q] # None
          /\ worker' = [worker EXCEPT ![w] = job]
          /\ UNCHANGED out
       \/ /\ TargetOf[q] = None
          /\ out' = out \cup {AnswerTo(job, "error")}
          /\ UNCHANGED worker
    /\ UNCHANGED <<reg, todo, maps, queryIdExtension, errors>>

\* nsExtension = extensions.get(uri)
ReadExtension(w) ==
    /\ Step(w, "extension",
            [worker[w] EXCEPT !.at = "unmarshaller",
                              !.ext = extensions[TargetOf[worker[w].query]]])
    /\ Unchanged

\* u = unmarshallers.get(uri)
ReadUnmarshaller(w) ==
    /\ Step(w, "unmarshaller",
            [worker[w] EXCEPT !.at = "log",
                              !.package = unmarshallers[TargetOf[worker[w].query]]])
    /\ Unchanged

\* The log lines call keySet().iterator().next() on both maps, which throws if
\* the map is empty, and may throw a ConcurrentModificationException while
\* bundles put into them.
LogFails ==
    \/ \A n \in Namespaces : extensions[n] = None
    \/ \A n \in Namespaces : unmarshallers[n] = None
LogMayFail == LogFails \/ \E b \in Bundles : Registering(b)

\* Mutant of Refuse: the else branch of "if (... u != null)" is missing.
Refuse_Not(w) == FALSE

\* The log lines throw; or there is no unmarshaller: service-unavailable.
Refuse(w) ==
    /\ worker[w].at = "log"
    /\ \/ LogMayFail /\ Reply(w, "error")
       \/ ~LogFails /\ worker[w].package = None /\ Reply(w, "unavailable")

\* "if (extensions != null && u != null)": the extension itself is not asked.
Accept(w) ==
    /\ ~LogFails
    /\ worker[w].package # None
    /\ Step(w, "log", [worker[w] EXCEPT !.at = "unmarshal"])
    /\ Unchanged

\* u.unmarshal throws on an element the package does not know.
Unmarshal(w) ==
    \/ /\ Step(w, "unmarshal", [worker[w] EXCEPT !.at = "receive"])
       /\ Unchanged
    \/ worker[w].at = "unmarshal" /\ Reply(w, "error")

\* nsExtension.receiveQuery throws, on null in particular, or returns null or
\* a root element of its own package, null if it is given a foreign pojo.
Results(w) ==
    {None} \cup (IF worker[w].package = PackageOf[worker[w].ext]
                 THEN RootClasses[PackageOf[worker[w].ext]] ELSE {})

Receive(w) ==
    \/ /\ worker[w].ext # None
       /\ \E r \in Results(w) :
             Step(w, "receive", [worker[w] EXCEPT !.at = "marshal",
                                                  !.by = worker[w].ext,
                                                  !.result = r])
       /\ Unchanged
    \/ worker[w].at = "receive" /\ Reply(w, "error")

\* marshallers.get(result.getClass()).marshal(...) and the reply, or a
\* NullPointerException of the first two calls.
Marshal(w) ==
    /\ worker[w].at = "marshal"
    /\ Reply(w, IF worker[w].result \in marshallers THEN "result" ELSE "error")

Handle(w) ==
    \/ ReadExtension(w) \/ ReadUnmarshaller(w) \/ Refuse(w) \/ Accept(w)
    \/ Unmarshal(w) \/ Receive(w) \/ Marshal(w)

-----------------------------------------------------------------------------
(* Queries of the bundles.                                                  *)

\* sendQuery marshals the pojo, or throws, and remembers the callback.  It
\* does not hand the packet to the component's connection, so nothing is sent.
SendQuery(b, i) ==
    /\ queryIdExtension[i] = None
    /\ RootClasses[PackageOf[b]] \cap marshallers # {}
    /\ queryIdExtension' = [queryIdExtension EXCEPT ![i] = b]
    /\ UNCHANGED <<reg, todo, maps, worker, taken, out, errors>>

\* An error packet with this id arrives.  (Of a result nothing reaches the
\* callback: handleIQResult looks its unmarshaller up by a Namespace object
\* among String keys, and finds none.)
HandleIQError(i) ==
    /\ queryIdExtension[i] # None
    /\ errors' = errors \cup {<<i, queryIdExtension[i]>>}
    /\ UNCHANGED <<reg, todo, maps, queryIdExtension, worker, taken, out>>

-----------------------------------------------------------------------------

Next ==
    \/ \E b \in Bundles : Register(b) \/ \E i \in Outgoing : SendQuery(b, i)
    \/ \E w \in Workers : Handle(w) \/ \E q \in Queries : Take(w, q)
    \/ \E i \in Outgoing : HandleIQError(i)

Spec == Init /\ [][Next]_vars

\* A worker that runs a handler is run by the JVM; extensions return.
Fairness == \A w \in Workers : WF_vars(Handle(w))

FairSpec == Spec /\ Fairness

-----------------------------------------------------------------------------
\* What an extension has done for a query is told to who asked: a query that
\* was in work while no register was, and for which an extension that is
\* registered returned a result, is answered with that result (l.175-183).
\* In the middle of a register the peer may be told internal-server-error for
\* a query that took effect, because marshallers are put last (l.142-149).
EffectTold ==
    \A a \in out :
        (a.quiet /\ a.result # None /\ a.by \in Registered) => a.kind = "result"

\* A namespace is never refused again once a register for it has returned
\* (l.137, l.166, l.173-190), whoever registers it anew.
NotRefused ==
    \A a \in out :
        (\E b \in a.known : NamespaceOf[b] = TargetOf[a.query])
            => a.kind # "unavailable"

\* Every query that arrives is answered, whichever maps the handler finds half
\* filled and wherever it throws (l.162-192).
EveryQueryAnswered ==
    \A q \in Queries : q \in taken ~> \E a \in out : a.query = q

-----------------------------------------------------------------------------
(* The inductive invariant of the proofs, where bundles do not put into one *)
(* bucket.                                                                  *)

\* How far the maps are filled for a bundle, by where it is in register.
RegisterInv ==
    /\ \A n \in Namespaces : extensions[n] # None => reg[extensions[n]] # "new"
    /\ \A b \in Bundles :
          /\ reg[b] # "new" => extensions[NamespaceOf[b]] # None
          /\ reg[b] \in {"classes", "marshallers", "registered"} =>
                unmarshallers[NamespaceOf[b]] # None
          /\ reg[b] = "marshallers" =>
                RootClasses[PackageOf[b]] \ todo[b] \subseteq marshallers
          /\ reg[b] = "registered" =>
                RootClasses[PackageOf[b]] \subseteq marshallers

\* What a worker knows holds: of the registers that had returned when its
\* query came, of those that are under way, and of the extension it asked.
Knows(j) ==
    /\ j.at # "idle" => j.query \in Queries /\ TargetOf[j.query] # None
    /\ j.known \subseteq Registered
    /\ j.quiet => ~ \E b \in Bundles : Registering(b)
    /\ j.ext # None => reg[j.ext] # "new"
    /\ j.at \in {"log", "unmarshal", "receive", "marshal"} =>
          \A b \in j.known :
              NamespaceOf[b] = TargetOf[j.query] => j.package # None
    /\ j.at # "marshal" => j.result = None
    /\ j.result # None => /\ j.by # None
                          /\ reg[j.by] # "new"
                          /\ j.result \in RootClasses[PackageOf[j.by]]

\* An undisturbed result is kept from who asked only if the register of the
\* extension that returned it had failed.
KeptBack(a) ==
    (a.quiet /\ a.result # None /\ a.kind # "result") =>
        (a.by # None /\ reg[a.by] = "failed")

\* The puts of register are complete when it returns, in the order a worker
\* reads them (l.135-147, l.165-180); with TypeOK and
\* NotRefused it is preserved by every step.
ServeInv ==
    /\ RegisterInv
    /\ \A w \in Workers : Knows(worker[w])
    /\ \A a \in out : KeptBack(a)

-----------------------------------------------------------------------------
(* What comments and messages say of it.                                    *)

\* discoInfoFeatureNamespaces
Features == {n \in Namespaces : extensions[n] # None}

\* "After a bundle registrers ... claiming some namespace, the
\* XCCommunicationFrameworkBundle will automatically adjust its Service
\* Discovery (XEP-0030) responses, in order to include that namespace."
\* (XCCommunication.java l.33-35)
FeaturesIncludeRegistered == \A b \in Registered : NamespaceOf[b] \in Features

=============================================================================

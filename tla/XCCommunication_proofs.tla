------------------------ MODULE XCCommunication_proofs ------------------------
(* Proofs about XCCommunication for any bundles, namespaces, packages,      *)
(* workers and queries.                                                     *)
EXTENDS XCCommunication, TLAPS

USE XCCommunicationAssumption

-----------------------------------------------------------------------------
(* Jobs and answers.                                                        *)

LEMMA IdleJob ==
    /\ Idle \in Job
    /\ Idle.at = "idle" /\ Idle.ext = None /\ Idle.result = None
    /\ Idle.known = {} /\ Idle.quiet = FALSE
BY DEF Idle, Job, Opt

LEMMA AnswerFields ==
    ASSUME NEW j \in Job, j.query \in Queries,
           NEW kind \in {"result", "unavailable", "error"}
    PROVE  /\ AnswerTo(j, kind) \in Answer
           /\ AnswerTo(j, kind).kind = kind
           /\ AnswerTo(j, kind).query = j.query
           /\ AnswerTo(j, kind).by = j.by
           /\ AnswerTo(j, kind).result = j.result
           /\ AnswerTo(j, kind).known = j.known
           /\ AnswerTo(j, kind).quiet = j.quiet
BY DEF AnswerTo, Answer, Job, Opt

LEMMA DisturbedJob ==
    ASSUME NEW j \in Job
    PROVE  LET d == [j EXCEPT !.quiet = FALSE] IN
           /\ d \in Job /\ d.quiet = FALSE
           /\ d.at = j.at /\ d.query = j.query /\ d.ext = j.ext
           /\ d.package = j.package /\ d.by = j.by /\ d.result = j.result
           /\ d.known = j.known
BY DEF Job

\* The job a worker takes up with a query.
TakenUp(q) == [Idle EXCEPT !.at = "extension", !.query = q,
                           !.known = Registered,
                           !.quiet = ~ \E b \in Bundles : Registering(b)]

LEMMA TakenUpFields ==
    ASSUME NEW q \in Queries
    PROVE  /\ TakenUp(q) \in Job
           /\ TakenUp(q).at = "extension" /\ TakenUp(q).query = q
           /\ TakenUp(q).ext = None /\ TakenUp(q).result = None
           /\ TakenUp(q).known = Registered
           /\ TakenUp(q).quiet = ~ \E b \in Bundles : Registering(b)
<1>1. Registered \in SUBSET Bundles
  BY DEF Registered
<1>2. (~ \E b \in Bundles : Registering(b)) \in BOOLEAN
  OBVIOUS
<1>3. QED
  BY <1>1, <1>2 DEF TakenUp, Idle, Job, Opt

\* A query is in work wherever a handler is at work.
Busy == \A w \in Workers : worker[w].at # "idle" =>
            worker[w].query \in Queries /\ TargetOf[worker[w].query] \in Namespaces

TypeInv == TypeOK /\ Busy

-----------------------------------------------------------------------------
(* Type correctness.                                                        *)

LEMMA InitType == Init => TypeInv
BY IdleJob DEF Init, TypeInv, TypeOK, Busy, Reg, Opt

LEMMA ReplyType ==
    ASSUME TypeInv, NEW w \in Workers, worker[w].at # "idle",
           NEW kind \in {"result", "unavailable", "error"}, Reply(w, kind)
    PROVE  TypeInv'
<1>1. worker[w] \in Job /\ worker[w].query \in Queries
  BY DEF TypeInv, TypeOK, Busy
<1>2. AnswerTo(worker[w], kind) \in Answer
  BY <1>1, AnswerFields
<1>3. worker' \in [Workers -> Job] /\ out' \subseteq Answer
  BY <1>2, IdleJob DEF TypeInv, TypeOK, Reply
<1>4. Busy'
  BY IdleJob DEF TypeInv, TypeOK, Busy, Reply
<1>5. QED
  BY <1>3, <1>4 DEF TypeInv, TypeOK, Reply, maps

LEMMA StepType ==
    ASSUME TypeInv, NEW w \in Workers, NEW job \in Job,
           NEW from \in {"extension", "unmarshaller", "log", "unmarshal", "receive"},
           job.query = worker[w].query, Step(w, from, job), Unchanged
    PROVE  TypeInv'
<1>1. worker' \in [Workers -> Job]
  BY DEF TypeInv, TypeOK, Step
<1>2. worker[w].at # "idle"
  BY DEF Step
<1>3. Busy'
  BY <1>2 DEF TypeInv, TypeOK, Busy, Step
<1>4. QED
  BY <1>1, <1>3 DEF TypeInv, TypeOK, Unchanged, maps

LEMMA RegisterType ==
    ASSUME TypeInv, NEW b \in Bundles, Register(b)
    PROVE  TypeInv'
<1> USE DEF TypeInv, TypeOK
<1>a. ASSUME NEW bs \in SUBSET Bundles, NEW from \in Reg, NEW to \in Reg,
             AdvanceAll(bs, from, to)
      PROVE  reg' \in [Bundles -> Reg]
  BY <1>a DEF AdvanceAll
<1>b. \A lost \in Overrun(b) : lost \cup {b} \in SUBSET Bundles
  BY DEF Overrun
<1>1. CASE PutExtension(b)
  <2>1. reg' \in [Bundles -> Reg]
    BY <1>1, <1>a, <1>b DEF PutExtension, Reg
  <2>2. extensions' \in [Namespaces -> Opt(Bundles)]
    BY <1>1 DEF PutExtension, Opt
  <2>3. \A w \in Workers : /\ worker'[w] \in Job
                           /\ worker'[w].at = worker[w].at
                           /\ worker'[w].query = worker[w].query
    BY <1>1, DisturbedJob DEF PutExtension
  <2>4. worker' \in [Workers -> Job]
    BY <1>1, <2>3 DEF PutExtension
  <2>5. Busy'
    BY <2>3 DEF Busy
  <2>6. QED
    BY <1>1, <2>1, <2>2, <2>4, <2>5 DEF PutExtension
<1>2. CASE NewContext(b)
  BY <1>2 DEF NewContext, Advance, Reg, Busy, maps
<1>3. CASE PutUnmarshaller(b)
  <2>1. reg' \in [Bundles -> Reg]
    BY <1>3, <1>a, <1>b DEF PutUnmarshaller, Reg
  <2>2. unmarshallers' \in [Namespaces -> Opt(Packages)]
    BY <1>3 DEF PutUnmarshaller, Opt
  <2>3. QED
    BY <1>3, <2>1, <2>2 DEF PutUnmarshaller, Busy
<1>4. CASE LoadClasses(b)
  BY <1>4 DEF LoadClasses, Advance, Reg, Busy, maps
<1>5. CASE PutMarshaller(b)
  BY <1>5 DEF PutMarshaller, Busy
<1>6. CASE Finish(b)
  BY <1>6 DEF Finish, Advance, Reg, Busy, maps
<1>7. QED
  BY <1>1, <1>2, <1>3, <1>4, <1>5, <1>6 DEF Register

LEMMA TakeType ==
    ASSUME TypeInv, NEW w \in Workers, NEW q \in Queries, Take(w, q)
    PROVE  TypeInv'
<1>1. TakenUp(q) \in Job /\ TakenUp(q).query = q
  BY TakenUpFields
<1>2. AnswerTo(TakenUp(q), "error") \in Answer
  BY <1>1, AnswerFields
<1>3. CASE TargetOf[q] # None /\ worker' = [worker EXCEPT ![w] = TakenUp(q)]
           /\ UNCHANGED out
  <2>1. worker' \in [Workers -> Job]
    BY <1>1, <1>3 DEF TypeInv, TypeOK
  <2>2. TargetOf[q] \in Namespaces
    BY <1>3
  <2>3. Busy'
    BY <1>1, <1>3, <2>2 DEF TypeInv, TypeOK, Busy
  <2>4. QED
    BY <1>3, <2>1, <2>3 DEF TypeInv, TypeOK, Take, maps
<1>4. CASE out' = out \cup {AnswerTo(TakenUp(q), "error")} /\ UNCHANGED worker
  <2>1. out' \subseteq Answer
    BY <1>2, <1>4 DEF TypeInv, TypeOK
  <2>2. QED
    BY <1>4, <2>1 DEF TypeInv, TypeOK, Take, Busy, maps
<1>5. QED
  BY <1>3, <1>4 DEF Take, TakenUp

LEMMA JobSteps ==
    ASSUME TypeInv, NEW w \in Workers, worker[w].at # "idle"
    PROVE  /\ [worker[w] EXCEPT !.at = "unmarshaller",
                   !.ext = extensions[TargetOf[worker[w].query]]] \in Job
           /\ [worker[w] EXCEPT !.at = "log",
                   !.package = unmarshallers[TargetOf[worker[w].query]]] \in Job
           /\ [worker[w] EXCEPT !.at = "unmarshal"] \in Job
           /\ [worker[w] EXCEPT !.at = "receive"] \in Job
           /\ \A r \in Opt(Classes) :
                 [worker[w] EXCEPT !.at = "marshal", !.by = worker[w].ext,
                                   !.result = r] \in Job
<1>1. worker[w] \in Job /\ TargetOf[worker[w].query] \in Namespaces
  BY DEF TypeInv, TypeOK, Busy
<1>2. /\ extensions[TargetOf[worker[w].query]] \in Opt(Bundles)
      /\ unmarshallers[TargetOf[worker[w].query]] \in Opt(Packages)
  BY <1>1 DEF TypeInv, TypeOK
<1>3. QED
  BY <1>1, <1>2 DEF Job

LEMMA ResultsType ==
    ASSUME TypeInv, NEW w \in Workers, worker[w].ext # None
    PROVE  /\ worker[w].ext \in Bundles
           /\ Results(w) \subseteq Opt(Classes)
           /\ \A r \in Results(w) :
                 r # None => r \in RootClasses[PackageOf[worker[w].ext]]
<1>1. worker[w] \in Job
  BY DEF TypeInv, TypeOK
<1>2. worker[w].ext \in Bundles
  BY <1>1 DEF Job, Opt
<1>3. RootClasses[PackageOf[worker[w].ext]] \subseteq Classes
  BY <1>2
<1>4. QED
  BY <1>2, <1>3 DEF Results, Opt

LEMMA HandleType ==
    ASSUME TypeInv, NEW w \in Workers, Handle(w)
    PROVE  TypeInv'
<1>1. CASE ReadExtension(w)
  <2>1. worker[w].at # "idle"
    BY <1>1 DEF ReadExtension, Step
  <2>2. worker[w] \in Job
    BY DEF TypeInv, TypeOK
  <2>3. [worker[w] EXCEPT !.at = "unmarshaller",
             !.ext = extensions[TargetOf[worker[w].query]]].query = worker[w].query
    BY <2>2 DEF Job
  <2>4. QED
    BY <1>1, <2>1, <2>3, JobSteps, StepType DEF ReadExtension
<1>2. CASE ReadUnmarshaller(w)
  <2>1. worker[w].at # "idle"
    BY <1>2 DEF ReadUnmarshaller, Step
  <2>2. worker[w] \in Job
    BY DEF TypeInv, TypeOK
  <2>3. [worker[w] EXCEPT !.at = "log",
             !.package = unmarshallers[TargetOf[worker[w].query]]].query
           = worker[w].query
    BY <2>2 DEF Job
  <2>4. QED
    BY <1>2, <2>1, <2>3, JobSteps, StepType DEF ReadUnmarshaller
<1>3. CASE Refuse(w)
  BY <1>3, ReplyType DEF Refuse
<1>4. CASE Accept(w)
  <2>1. worker[w].at # "idle" /\ worker[w] \in Job
    BY <1>4 DEF Accept, Step, TypeInv, TypeOK
  <2>2. [worker[w] EXCEPT !.at = "unmarshal"].query = worker[w].query
    BY <2>1 DEF Job
  <2>3. QED
    BY <1>4, <2>1, <2>2, JobSteps, StepType DEF Accept
<1>5. CASE Unmarshal(w)
  <2>1. CASE worker[w].at = "unmarshal" /\ Reply(w, "error")
    BY <2>1, ReplyType
  <2>2. CASE Step(w, "unmarshal", [worker[w] EXCEPT !.at = "receive"]) /\ Unchanged
    <3>1. worker[w].at # "idle" /\ worker[w] \in Job
      BY <2>2 DEF Step, TypeInv, TypeOK
    <3>2. [worker[w] EXCEPT !.at = "receive"].query = worker[w].query
      BY <3>1 DEF Job
    <3>3. QED
      BY <2>2, <3>1, <3>2, JobSteps, StepType
  <2>3. QED
    BY <1>5, <2>1, <2>2 DEF Unmarshal
<1>6. CASE Receive(w)
  <2>1. CASE worker[w].at = "receive" /\ Reply(w, "error")
    BY <2>1, ReplyType
  <2>2. ASSUME worker[w].ext # None, NEW r \in Results(w), Unchanged,
               Step(w, "receive", [worker[w] EXCEPT !.at = "marshal",
                                       !.by = worker[w].ext, !.result = r])
        PROVE  TypeInv'
    <3>1. worker[w].at # "idle" /\ worker[w] \in Job /\ r \in Opt(Classes)
      BY <2>2, ResultsType DEF Step, TypeInv, TypeOK
    <3>2. [worker[w] EXCEPT !.at = "marshal", !.by = worker[w].ext,
                            !.result = r].query = worker[w].query
      BY <3>1 DEF Job
    <3>3. QED
      BY <2>2, <3>1, <3>2, JobSteps, StepType
  <2>3. QED
    BY <1>6, <2>1, <2>2 DEF Receive
<1>7. CASE Marshal(w)
  BY <1>7, ReplyType DEF Marshal
<1>8. QED
  BY <1>1, <1>2, <1>3, <1>4, <1>5, <1>6, <1>7 DEF Handle

LEMMA BundleQueryType ==
    ASSUME TypeInv, NEW i \in Outgoing,
           HandleIQError(i) \/ \E b \in Bundles : SendQuery(b, i)
    PROVE  TypeInv'
<1>1. CASE HandleIQError(i)
  <2>1. queryIdExtension[i] \in Bundles
    BY <1>1 DEF HandleIQError, TypeInv, TypeOK, Opt
  <2>2. QED
    BY <1>1, <2>1 DEF HandleIQError, TypeInv, TypeOK, Busy, maps
<1>2. ASSUME NEW b \in Bundles, SendQuery(b, i) PROVE TypeInv'
  BY <1>2 DEF SendQuery, TypeInv, TypeOK, Busy, maps, Opt
<1>3. QED
  BY <1>1, <1>2

LEMMA StepKeepsType == TypeInv /\ [Next]_vars => TypeInv'
<1> SUFFICES ASSUME TypeInv, [Next]_vars PROVE TypeInv'
  OBVIOUS
<1>1. CASE UNCHANGED vars
  BY <1>1 DEF vars, maps, TypeInv, TypeOK, Busy
<1>2. CASE Next
  BY <1>2, RegisterType, TakeType, HandleType, BundleQueryType DEF Next
<1>3. QED
  BY <1>1, <1>2

LEMMA TypeInvariant == Spec => []TypeInv
BY InitType, StepKeepsType, PTL DEF Spec

\* The maps, the workers' jobs and what is sent keep their types, however
\* registers and queries interleave (XCCommunicationImpl.java l.125-233): a
\* callback is never called on null, a handler reads the maps with a namespace.
THEOREM TypeCorrect == Spec => []TypeOK
BY TypeInvariant, PTL DEF TypeInv

-----------------------------------------------------------------------------
(* What is told to who asks, where no two bundles put into one bucket.      *)

Served(a) ==
    (\E b \in a.known : NamespaceOf[b] = TargetOf[a.query])
        => a.kind # "unavailable"

SInv == TypeInv /\ ServeInv /\ \A a \in out : Served(a)

LEMMA InitServe == Init => SInv
<1> SUFFICES ASSUME Init PROVE SInv
  OBVIOUS
<1>1. TypeInv
  BY InitType
<1>2. RegisterInv
  BY DEF Init, RegisterInv
<1>3. \A w \in Workers : Knows(worker[w])
  BY IdleJob DEF Init, Knows
<1>4. out = {}
  BY DEF Init
<1>5. QED
  BY <1>1, <1>2, <1>3, <1>4 DEF SInv, ServeInv

\* A step of register disturbs nothing that a worker knows.
LEMMA RegisterKeepsWorkers ==
    ASSUME SInv, NEW b \in Bundles, out' = out,
           reg[b] \notin {"registered", "failed"}, reg'[b] # "new",
           \A c \in Bundles \ {b} : reg'[c] = reg[c],
           \A w \in Workers :
              /\ worker'[w].at = worker[w].at
              /\ worker'[w].query = worker[w].query
              /\ worker'[w].ext = worker[w].ext
              /\ worker'[w].package = worker[w].package
              /\ worker'[w].by = worker[w].by
              /\ worker'[w].result = worker[w].result
              /\ worker'[w].known = worker[w].known
              /\ worker'[w].quiet = FALSE
    PROVE  /\ \A w \in Workers : Knows(worker[w])'
           /\ \A a \in out' : KeptBack(a)' /\ Served(a)'
<1>1. \A c \in Bundles : /\ reg[c] = "registered" => reg'[c] = "registered"
                         /\ reg[c] = "failed" => reg'[c] = "failed"
                         /\ reg[c] # "new" => reg'[c] # "new"
  OBVIOUS
<1>2. ASSUME NEW w \in Workers PROVE Knows(worker[w])'
  <2>1. Knows(worker[w]) /\ worker[w] \in Job
    BY DEF SInv, ServeInv, TypeInv, TypeOK
  <2>2. Registered \subseteq Registered'
    BY <1>1 DEF Registered
  <2>3. worker[w].ext \in Opt(Bundles) /\ worker[w].by \in Opt(Bundles)
    BY <2>1 DEF Job
  <2>4. QED
    BY <1>1, <2>1, <2>2, <2>3 DEF Knows, Opt
<1>3. ASSUME NEW a \in out' PROVE KeptBack(a)' /\ Served(a)'
  <2>1. a \in out /\ a \in Answer
    BY DEF SInv, TypeInv, TypeOK
  <2>2. KeptBack(a) /\ Served(a)
    BY <2>1 DEF SInv, ServeInv
  <2>3. a.by \in Opt(Bundles)
    BY <2>1 DEF Answer
  <2>4. QED
    BY <1>1, <2>2, <2>3 DEF KeptBack, Served, Opt
<1>4. QED
  BY <1>2, <1>3

\* Nor, as it goes on, a worker it has disturbed before.
LEMMA Disturbed ==
    ASSUME SInv, NEW b \in Bundles, Registering(b)
    PROVE  \A w \in Workers : worker[w].quiet = FALSE
<1>1. \A w \in Workers : Knows(worker[w]) /\ worker[w] \in Job
  BY DEF SInv, ServeInv, TypeInv, TypeOK
<1>2. \A w \in Workers : worker[w].quiet \in BOOLEAN
  BY <1>1 DEF Job
<1>3. QED
  BY <1>1, <1>2 DEF Knows

LEMMA RegisterServes ==
    ASSUME ~SameBucket, SInv, NEW b \in Bundles, Register(b)
    PROVE  SInv'
<1>1. TypeInv' /\ TypeInv
  BY RegisterType DEF SInv
<1>2. reg \in [Bundles -> Reg] /\ Overrun(b) = {{}}
  BY <1>1 DEF TypeInv, TypeOK, Overrun
<1>3. RegisterInv
  BY DEF SInv, ServeInv
<1>a. ASSUME NEW from, NEW to, \E lost \in Overrun(b) : AdvanceAll(lost \cup {b}, from, to)
      PROVE  Advance(b, from, to)
  BY <1>2, <1>a DEF Advance, AdvanceAll
<1>b. SUFFICES /\ RegisterInv'
               /\ \A w \in Workers : Knows(worker[w])'
               /\ \A a \in out' : KeptBack(a)' /\ Served(a)'
  BY <1>1 DEF SInv, ServeInv
<1>c. ASSUME NEW to \in Reg \ {"new"}, reg' = [reg EXCEPT ![b] = to],
             worker' = worker, out' = out, Registering(b)
      PROVE  /\ \A w \in Workers : Knows(worker[w])'
             /\ \A a \in out' : KeptBack(a)' /\ Served(a)'
  <2>1. reg'[b] # "new" /\ \A c \in Bundles \ {b} : reg'[c] = reg[c]
    BY <1>c, <1>2
  <2>2. \A w \in Workers : worker'[w].quiet = FALSE
    BY <1>c, Disturbed
  <2>3. QED
    BY <1>c, <2>1, <2>2, RegisterKeepsWorkers DEF Registering
<1>4. CASE PutExtension(b)
  <2>1. Advance(b, "new", "context")
    BY <1>4, <1>a DEF PutExtension
  <2>2. RegisterInv'
    BY <1>1, <1>2, <1>3, <1>4, <2>1 DEF RegisterInv, PutExtension, Advance, TypeInv, TypeOK
  <2>3. \A w \in Workers : /\ worker[w] \in Job
                           /\ worker'[w] = [worker[w] EXCEPT !.quiet = FALSE]
    BY <1>1, <1>4 DEF PutExtension, TypeInv, TypeOK
  <2>4. \A w \in Workers :
              /\ worker'[w].at = worker[w].at
              /\ worker'[w].query = worker[w].query
              /\ worker'[w].ext = worker[w].ext
              /\ worker'[w].package = worker[w].package
              /\ worker'[w].by = worker[w].by
              /\ worker'[w].result = worker[w].result
              /\ worker'[w].known = worker[w].known
              /\ worker'[w].quiet = FALSE
    <3> TAKE w \in Workers
    <3> DEFINE d == [worker[w] EXCEPT !.quiet = FALSE]
    <3>1. worker[w] \in Job /\ worker'[w] = d
      BY <2>3
    <3>2. /\ d.at = worker[w].at /\ d.query = worker[w].query
          /\ d.ext = worker[w].ext /\ d.package = worker[w].package
          /\ d.by = worker[w].by /\ d.result = worker[w].result
          /\ d.known = worker[w].known /\ d.quiet = FALSE
      BY <3>1, DisturbedJob
    <3> HIDE DEF d
    <3>3. QED
      BY <3>1, <3>2
  <2>5. out' = out
    BY <1>4 DEF PutExtension
  <2>6. reg[b] \notin {"registered", "failed"} /\ reg'[b] # "new"
        /\ \A c \in Bundles \ {b} : reg'[c] = reg[c]
    BY <1>2, <2>1 DEF Advance
  <2>7. QED
    BY <2>2, <2>4, <2>5, <2>6, RegisterKeepsWorkers
<1>5. CASE NewContext(b)
  <2>1. RegisterInv'
    <3>1. reg[b] = "context" /\ reg'[b] \in {"unmarshaller", "failed"}
          /\ \A c \in Bundles \ {b} : reg'[c] = reg[c]
      BY <1>2, <1>5 DEF NewContext, Advance
    <3>2. todo' = todo /\ UNCHANGED <<extensions, unmarshallers, marshallers>>
      BY <1>5 DEF NewContext, maps
    <3>3. \A n \in Namespaces : extensions[n] \in Opt(Bundles)
      BY <1>1 DEF TypeInv, TypeOK
    <3>4. QED
      BY <1>3, <3>1, <3>2, <3>3 DEF RegisterInv, Opt
  <2>2. QED
    BY <1>5, <1>c, <2>1 DEF NewContext, Advance, Registering, Reg
<1>6. CASE PutUnmarshaller(b)
  <2>1. Advance(b, "unmarshaller", "classes")
    BY <1>6, <1>a DEF PutUnmarshaller
  <2>2. RegisterInv'
    BY <1>1, <1>2, <1>3, <1>6, <2>1
       DEF RegisterInv, PutUnmarshaller, Advance, TypeInv, TypeOK
  <2>3. QED
    BY <1>6, <1>c, <2>1, <2>2 DEF PutUnmarshaller, Advance, Registering, Reg
<1>7. CASE LoadClasses(b)
  <2>1. CASE Advance(b, "classes", "failed")
    <3>1. RegisterInv'
      BY <1>2, <1>3, <1>7, <2>1 DEF RegisterInv, LoadClasses, Advance, maps
    <3>2. QED
      BY <1>7, <1>c, <2>1, <3>1 DEF LoadClasses, Advance, Registering, Reg
  <2>2. CASE Advance(b, "classes", "marshallers")
             /\ todo' = [todo EXCEPT ![b] = RootClasses[PackageOf[b]]]
    <3>1. \A c \in Bundles : c # b => todo'[c] = todo[c] /\ reg'[c] = reg[c]
      BY <1>1, <1>2, <2>2 DEF TypeInv, TypeOK, Advance
    <3>2. todo'[b] = RootClasses[PackageOf[b]] /\ reg'[b] = "marshallers"
          /\ reg[b] = "classes"
      BY <1>1, <1>2, <2>2 DEF TypeInv, TypeOK, Advance
    <3>3. RegisterInv'
      <4>1. UNCHANGED <<extensions, unmarshallers, marshallers>>
        BY <1>7 DEF LoadClasses, maps
      <4>2. \A n \in Namespaces : extensions[n] \in Opt(Bundles)
        BY <1>1 DEF TypeInv, TypeOK
      <4>3. QED
        BY <1>3, <3>1, <3>2, <4>1, <4>2 DEF RegisterInv, Opt
    <3>4. QED
      BY <1>7, <1>c, <2>2, <3>3 DEF LoadClasses, Advance, Registering, Reg
  <2>3. QED
    BY <1>7, <2>1, <2>2 DEF LoadClasses
<1>8. CASE PutMarshaller(b)
  <2>1. PICK class \in todo[b] : /\ marshallers' = marshallers \cup {class}
                                /\ todo'[b] = todo[b] \ {class}
                                /\ \A c \in Bundles \ {b} : todo'[c] = todo[c]
    BY <1>2, <1>8 DEF PutMarshaller
  <2>2. RegisterInv'
    BY <1>3, <1>8, <2>1 DEF RegisterInv, PutMarshaller
  <2>3. reg' = [reg EXCEPT ![b] = "marshallers"] /\ Registering(b)
    BY <1>2, <1>8 DEF PutMarshaller, Registering
  <2>4. QED
    BY <1>8, <1>c, <2>2, <2>3 DEF PutMarshaller, Reg
<1>9. CASE Finish(b)
  <2>1. RegisterInv'
    BY <1>2, <1>3, <1>9 DEF RegisterInv, Finish, Advance, maps
  <2>2. QED
    BY <1>9, <1>c, <2>1 DEF Finish, Advance, Registering, Reg
<1>10. QED
  BY <1>4, <1>5, <1>6, <1>7, <1>8, <1>9 DEF Register

\* An answer that keeps nothing back and refuses nobody keeps the invariant.
LEMMA ReplyServes ==
    ASSUME SInv, NEW w \in Workers, worker[w].at # "idle",
           NEW kind \in {"result", "unavailable", "error"}, Reply(w, kind),
           KeptBack(AnswerTo(worker[w], kind)), Served(AnswerTo(worker[w], kind))
    PROVE  SInv'
<1>1. TypeInv'
  BY ReplyType DEF SInv
<1>2. RegisterInv'
  BY DEF SInv, ServeInv, RegisterInv, Reply, maps
<1>3. \A v \in Workers : Knows(worker[v])'
  <2>1. \A v \in Workers : worker'[v] = Idle \/ worker'[v] = worker[v]
    BY DEF Reply, SInv, TypeInv, TypeOK
  <2>2. \A v \in Workers : Knows(worker[v])
    BY DEF SInv, ServeInv
  <2>3. reg' = reg /\ Registered' = Registered
    BY DEF Reply, Registered
  <2>4. ASSUME NEW v \in Workers PROVE Knows(worker[v])'
    <3>1. Knows(Idle)
      BY IdleJob DEF Knows
    <3>2. Knows(worker'[v])
      BY <2>1, <2>2, <3>1
    <3>3. QED
      BY <2>3, <3>2 DEF Knows, Registering
  <2>5. QED
    BY <2>4
<1>4. ASSUME NEW a \in out' PROVE KeptBack(a)' /\ Served(a)'
  <2>1. a \in out \/ a = AnswerTo(worker[w], kind)
    BY DEF Reply
  <2>2. KeptBack(a) /\ Served(a)
    BY <2>1 DEF SInv, ServeInv
  <2>3. QED
    BY <2>2 DEF KeptBack, Served, Reply
<1>5. QED
  BY <1>1, <1>2, <1>3, <1>4 DEF SInv, ServeInv

\* A step to a job in which the worker knows what it has learnt keeps it.
LEMMA StepServes ==
    ASSUME SInv, NEW w \in Workers, NEW job \in Job,
           NEW from \in {"extension", "unmarshaller", "log", "unmarshal", "receive"},
           job.query = worker[w].query, Step(w, from, job), Unchanged, Knows(job)
    PROVE  SInv'
<1>1. TypeInv'
  BY StepType DEF SInv
<1>2. RegisterInv'
  BY DEF SInv, ServeInv, RegisterInv, Unchanged, maps
<1>3. reg' = reg /\ Registered' = Registered /\ out' = out
  BY DEF Unchanged, Registered
<1>4. ASSUME NEW v \in Workers PROVE Knows(worker[v])'
  <2>1. worker'[v] = job \/ worker'[v] = worker[v]
    BY DEF Step, SInv, TypeInv, TypeOK
  <2>2. Knows(worker'[v])
    BY <2>1 DEF SInv, ServeInv
  <2>3. QED
    BY <1>3, <2>2 DEF Knows, Registering
<1>5. ASSUME NEW a \in out' PROVE KeptBack(a)' /\ Served(a)'
  BY <1>3 DEF SInv, ServeInv, KeptBack, Served
<1>6. QED
  BY <1>1, <1>2, <1>4, <1>5 DEF SInv, ServeInv

\* An error, and every answer to a query for which nothing was returned yet.
LEMMA ErrorServes ==
    ASSUME SInv, NEW w \in Workers, worker[w].at \notin {"idle", "marshal"},
           Reply(w, "error")
    PROVE  SInv'
<1>1. worker[w] \in Job /\ worker[w].query \in Queries
  BY DEF SInv, TypeInv, TypeOK, Busy
<1>2. worker[w].result = None
  BY DEF SInv, ServeInv, Knows
<1>3. KeptBack(AnswerTo(worker[w], "error")) /\ Served(AnswerTo(worker[w], "error"))
  BY <1>1, <1>2, AnswerFields DEF KeptBack, Served
<1>4. QED
  BY <1>3, ReplyServes

LEMMA TakeServes ==
    ASSUME SInv, NEW w \in Workers, NEW q \in Queries, Take(w, q)
    PROVE  SInv'
<1>1. TakenUp(q) \in Job /\ TakenUp(q).query = q
  BY TakenUpFields
<1>2. TypeInv' /\ RegisterInv'
  BY TakeType DEF SInv, ServeInv, RegisterInv, Take, maps
<1>3. reg' = reg /\ Registered' = Registered
  BY DEF Take, Registered
<1>4. CASE TargetOf[q] # None /\ worker' = [worker EXCEPT ![w] = TakenUp(q)]
           /\ UNCHANGED out
  <2>1. Knows(TakenUp(q))
    BY <1>4, TakenUpFields DEF Knows
  <2>2. \A v \in Workers : worker'[v] = TakenUp(q) \/ worker'[v] = worker[v]
    BY <1>4 DEF SInv, TypeInv, TypeOK
  <2>3. \A v \in Workers : Knows(worker'[v])
    BY <2>1, <2>2 DEF SInv, ServeInv
  <2>4. ASSUME NEW v \in Workers PROVE Knows(worker[v])'
    <3>1. Knows(worker'[v])
      BY <2>3
    <3>2. QED
      BY <1>3, <3>1 DEF Knows, Registering
  <2>5. \A a \in out' : KeptBack(a)' /\ Served(a)'
    BY <1>3, <1>4 DEF SInv, ServeInv, KeptBack, Served
  <2>6. QED
    BY <1>2, <2>4, <2>5 DEF SInv, ServeInv
<1>5. CASE out' = out \cup {AnswerTo(TakenUp(q), "error")} /\ UNCHANGED worker
  <2>1. \A v \in Workers : Knows(worker[v])'
    BY <1>3, <1>5 DEF SInv, ServeInv, Knows, Registering
  <2>2. KeptBack(AnswerTo(TakenUp(q), "error")) /\ Served(AnswerTo(TakenUp(q), "error"))
    BY <1>1, TakenUpFields, AnswerFields DEF KeptBack, Served
  <2>3. ASSUME NEW a \in out' PROVE KeptBack(a)' /\ Served(a)'
    <3>1. a \in out \/ a = AnswerTo(TakenUp(q), "error")
      BY <1>5
    <3>2. KeptBack(a) /\ Served(a)
      BY <2>2, <3>1 DEF SInv, ServeInv
    <3>3. QED
      BY <1>3, <3>2 DEF KeptBack, Served
  <2>4. QED
    BY <1>2, <2>1, <2>3 DEF SInv, ServeInv
<1>6. QED
  BY <1>4, <1>5 DEF Take, TakenUp

LEMMA HandleServes ==
    ASSUME SInv, NEW w \in Workers, Handle(w)
    PROVE  SInv'
<1>1. /\ worker[w] \in Job /\ Knows(worker[w]) /\ RegisterInv
      /\ worker[w].ext \in Opt(Bundles) /\ worker[w].known \in SUBSET Bundles
      /\ TypeInv
  BY DEF SInv, ServeInv, TypeInv, TypeOK, Job
<1>2. CASE ReadExtension(w)
  <2> DEFINE e == extensions[TargetOf[worker[w].query]]
             job == [worker[w] EXCEPT !.at = "unmarshaller", !.ext = e]
  <2>1. worker[w].at = "extension" /\ Step(w, "extension", job) /\ Unchanged
    BY <1>2 DEF ReadExtension, Step
  <2>2. job \in Job
    BY <1>1, <2>1, JobSteps
  <2>3. /\ job.at = "unmarshaller" /\ job.query = worker[w].query /\ job.ext = e
        /\ job.known = worker[w].known /\ job.quiet = worker[w].quiet
        /\ job.result = worker[w].result
    BY <1>1 DEF Job
  <2>4. TargetOf[worker[w].query] \in Namespaces
    BY <1>1, <2>1 DEF TypeInv, Busy
  <2>5. e # None => reg[e] # "new"
    BY <1>1, <2>4 DEF RegisterInv
  <2> HIDE DEF job, e
  <2>6. Knows(job)
    BY <1>1, <2>1, <2>3, <2>5 DEF Knows
  <2>7. QED
    BY <2>1, <2>2, <2>3, <2>6, StepServes
<1>3. CASE ReadUnmarshaller(w)
  <2> DEFINE u == unmarshallers[TargetOf[worker[w].query]]
             job == [worker[w] EXCEPT !.at = "log", !.package = u]
  <2>1. worker[w].at = "unmarshaller" /\ Step(w, "unmarshaller", job) /\ Unchanged
    BY <1>3 DEF ReadUnmarshaller, Step
  <2>2. job \in Job
    BY <1>1, <2>1, JobSteps
  <2>3. /\ job.at = "log" /\ job.query = worker[w].query /\ job.package = u
        /\ job.ext = worker[w].ext /\ job.known = worker[w].known
        /\ job.quiet = worker[w].quiet /\ job.result = worker[w].result
    BY <1>1 DEF Job
  <2>4. \A b \in worker[w].known :
            NamespaceOf[b] = TargetOf[worker[w].query] => u # None
    BY <1>1 DEF Knows, RegisterInv, Registered
  <2> HIDE DEF job, u
  <2>5. Knows(job)
    BY <1>1, <2>1, <2>3, <2>4 DEF Knows
  <2>6. QED
    BY <2>1, <2>2, <2>3, <2>5, StepServes
<1>4. CASE Refuse(w)
  <2>1. worker[w].at = "log"
    BY <1>4 DEF Refuse
  <2>2. CASE worker[w].package = None /\ Reply(w, "unavailable")
    <3>1. worker[w].query \in Queries
      BY <1>1, <2>1 DEF Knows
    <3>2. Served(AnswerTo(worker[w], "unavailable"))
      BY <1>1, <2>1, <2>2, <3>1, AnswerFields DEF Knows, Served
    <3>3. KeptBack(AnswerTo(worker[w], "unavailable"))
      BY <1>1, <2>1, <3>1, AnswerFields DEF Knows, KeptBack
    <3>4. QED
      BY <2>1, <2>2, <3>2, <3>3, ReplyServes
  <2>3. CASE Reply(w, "error")
    BY <2>1, <2>3, ErrorServes
  <2>4. QED
    BY <1>4, <2>2, <2>3 DEF Refuse
<1>5. CASE Accept(w)
  <2> DEFINE job == [worker[w] EXCEPT !.at = "unmarshal"]
  <2>1. worker[w].at = "log" /\ Step(w, "log", job) /\ Unchanged
    BY <1>5 DEF Accept, Step
  <2>2. job \in Job
    BY <1>1, <2>1, JobSteps
  <2>3. /\ job.at = "unmarshal" /\ job.query = worker[w].query
        /\ job.package = worker[w].package
        /\ job.ext = worker[w].ext /\ job.known = worker[w].known
        /\ job.quiet = worker[w].quiet /\ job.result = worker[w].result
    BY <1>1 DEF Job
  <2> HIDE DEF job
  <2>4. Knows(job)
    BY <1>1, <2>1, <2>3 DEF Knows
  <2>5. QED
    BY <2>1, <2>2, <2>3, <2>4, StepServes
<1>6. CASE Unmarshal(w)
  <2> DEFINE job == [worker[w] EXCEPT !.at = "receive"]
  <2>1. CASE worker[w].at = "unmarshal" /\ Reply(w, "error")
    BY <2>1, ErrorServes
  <2>2. CASE Step(w, "unmarshal", job) /\ Unchanged
    <3>1. worker[w].at = "unmarshal"
      BY <2>2 DEF Step
    <3>2. job \in Job
      BY <1>1, <3>1, JobSteps
    <3>3. /\ job.at = "receive" /\ job.query = worker[w].query
          /\ job.package = worker[w].package
          /\ job.ext = worker[w].ext /\ job.known = worker[w].known
          /\ job.quiet = worker[w].quiet /\ job.result = worker[w].result
      BY <1>1 DEF Job
    <3> HIDE DEF job
    <3>4. Knows(job)
      BY <1>1, <3>1, <3>3 DEF Knows
    <3>5. QED
      BY <2>2, <3>2, <3>3, <3>4, StepServes
  <2>3. QED
    BY <1>6, <2>1, <2>2 DEF Unmarshal
<1>7. CASE Receive(w)
  <2>1. CASE worker[w].at = "receive" /\ Reply(w, "error")
    BY <2>1, ErrorServes
  <2>2. ASSUME worker[w].ext # None, NEW r \in Results(w), Unchanged,
               Step(w, "receive", [worker[w] EXCEPT !.at = "marshal",
                                       !.by = worker[w].ext, !.result = r])
        PROVE  SInv'
    <3> DEFINE job == [worker[w] EXCEPT !.at = "marshal", !.by = worker[w].ext,
                                        !.result = r]
    <3>1. /\ worker[w].at = "receive" /\ r \in Opt(Classes)
          /\ r # None => r \in RootClasses[PackageOf[worker[w].ext]]
      BY <1>1, <2>2, ResultsType DEF Step
    <3>2. job \in Job
      BY <1>1, <3>1, JobSteps
    <3>3. /\ job.at = "marshal" /\ job.query = worker[w].query
          /\ job.package = worker[w].package
          /\ job.ext = worker[w].ext /\ job.known = worker[w].known
          /\ job.quiet = worker[w].quiet /\ job.result = r
          /\ job.by = worker[w].ext
      BY <1>1 DEF Job
    <3>4. Step(w, "receive", job) /\ Unchanged
      BY <2>2
    <3> HIDE DEF job
    <3>5. Knows(job)
      BY <1>1, <2>2, <3>1, <3>3 DEF Knows
    <3>6. QED
      BY <3>2, <3>3, <3>4, <3>5, StepServes
  <2>3. QED
    BY <1>7, <2>1, <2>2 DEF Receive
<1>8. CASE Marshal(w)
  <2>1. worker[w].at = "marshal" /\ worker[w].query \in Queries
    BY <1>1, <1>8 DEF Marshal, Knows
  <2>2. ASSUME worker[w].quiet, worker[w].result # None,
               worker[w].result \notin marshallers
        PROVE  worker[w].by # None /\ reg[worker[w].by] = "failed"
    <3>1. /\ worker[w].by \in Bundles /\ reg[worker[w].by] # "new"
          /\ ~Registering(worker[w].by)
          /\ worker[w].result \in RootClasses[PackageOf[worker[w].by]]
      BY <1>1, <2>2 DEF Knows, Job, Opt
    <3>2. reg[worker[w].by] # "registered"
      BY <1>1, <2>2, <3>1 DEF RegisterInv
    <3>3. QED
      BY <3>1, <3>2 DEF Registering
  <2>3. CASE worker[w].result \in marshallers /\ Reply(w, "result")
    <3>1. KeptBack(AnswerTo(worker[w], "result")) /\ Served(AnswerTo(worker[w], "result"))
      BY <1>1, <2>1, AnswerFields DEF KeptBack, Served
    <3>2. QED
      BY <2>1, <2>3, <3>1, ReplyServes
  <2>4. CASE worker[w].result \notin marshallers /\ Reply(w, "error")
    <3>1. KeptBack(AnswerTo(worker[w], "error")) /\ Served(AnswerTo(worker[w], "error"))
      BY <1>1, <2>1, <2>2, <2>4, AnswerFields DEF KeptBack, Served
    <3>2. QED
      BY <2>1, <2>4, <3>1, ReplyServes
  <2>5. QED
    BY <1>8, <2>3, <2>4 DEF Marshal
<1>9. QED
  BY <1>2, <1>3, <1>4, <1>5, <1>6, <1>7, <1>8 DEF Handle

\* A step that changes neither the registers, the workers nor the answers.
LEMMA OtherServes ==
    ASSUME SInv, TypeInv', reg' = reg, todo' = todo, UNCHANGED maps,
           worker' = worker, out' = out
    PROVE  SInv'
<1>1. RegisterInv'
  BY DEF SInv, ServeInv, RegisterInv, maps
<1>2. \A w \in Workers : Knows(worker[w])'
  BY DEF SInv, ServeInv, Knows, Registered, Registering
<1>3. \A a \in out' : KeptBack(a)' /\ Served(a)'
  BY DEF SInv, ServeInv, KeptBack, Served
<1>4. QED
  BY <1>1, <1>2, <1>3 DEF SInv, ServeInv

LEMMA StepServesAll == ~SameBucket /\ SInv /\ [Next]_vars => SInv'
<1> SUFFICES ASSUME ~SameBucket, SInv, [Next]_vars PROVE SInv'
  OBVIOUS
<1>1. TypeInv'
  BY StepKeepsType DEF SInv
<1>2. CASE UNCHANGED vars
  BY <1>1, <1>2, OtherServes DEF vars
<1>3. ASSUME NEW b \in Bundles, NEW i \in Outgoing, SendQuery(b, i) PROVE SInv'
  BY <1>1, <1>3, OtherServes DEF SendQuery
<1>4. ASSUME NEW i \in Outgoing, HandleIQError(i) PROVE SInv'
  BY <1>1, <1>4, OtherServes DEF HandleIQError
<1>5. CASE Next
  BY <1>3, <1>4, <1>5, RegisterServes, HandleServes, TakeServes DEF Next
<1>6. QED
  BY <1>2, <1>5

LEMMA ServeInvariant == ~SameBucket /\ Spec => []SInv
<1>1. ~SameBucket => (Spec => []SInv)
  <2> SUFFICES ASSUME ~SameBucket PROVE Spec => []SInv
    OBVIOUS
  <2>1. SInv /\ [Next]_vars => SInv'
    BY StepServesAll
  <2>2. QED
    BY <2>1, InitServe, PTL DEF Spec
<1>2. QED
  BY <1>1

\* However registers and queries interleave, while no two bundles put into one
\* bucket at once: what an extension returned for a query in work while no
\* register was is told to who asked (l.162-192).
THEOREM EffectsTold == ~SameBucket /\ Spec => []EffectTold
<1>1. SInv => EffectTold
  BY DEF SInv, ServeInv, EffectTold, KeptBack, Registered
<1>2. QED
  BY <1>1, ServeInvariant, PTL

\* And a namespace for which a register has returned is never refused
\* (l.137, l.173-190).
THEOREM NamespacesServed == ~SameBucket /\ Spec => []NotRefused
<1>1. SInv => NotRefused
  BY DEF SInv, Served, NotRefused
<1>2. QED
  BY <1>1, ServeInvariant, PTL

\* And it is among the features that service discovery returns (l.135,
\* l.156-159).
THEOREM FeaturesComplete == ~SameBucket /\ Spec => []FeaturesIncludeRegistered
<1>1. SInv => FeaturesIncludeRegistered
  BY DEF SInv, ServeInv, RegisterInv, FeaturesIncludeRegistered, Features, Registered
<1>2. QED
  BY <1>1, ServeInvariant, PTL

=============================================================================

--------------------------- MODULE Community_proofs ---------------------------
(* Proofs about Community for any users and requests.                       *)
EXTENDS Community, TLAPS

USE CommunityAssumption

-----------------------------------------------------------------------------
(* Types.                                                                   *)

\* A write of n, whichever request makes it.
LEMMA WriteType ==
    ASSUME TypeOK, NEW r \in Requests, NEW n \in Nat, Write(r, n)
    PROVE  /\ entries' \in [Users -> Nat]
           /\ crossed' \subseteq Requests
           /\ steady' \in [Requests -> SUBSET Users]
           /\ ever' \in [Requests -> SUBSET Users]
<1>1. entries' \in [Users -> Nat]
  BY DEF TypeOK, Write
<1>2. crossed' \subseteq Requests
  BY DEF TypeOK, Write, WritersOf, Writers
<1>3. steady' \in [Requests -> SUBSET Users] /\ ever' \in [Requests -> SUBSET Users]
  BY DEF TypeOK, Write
<1>4. QED
  BY <1>1, <1>2, <1>3

LEMMA InsertType ==
    ASSUME TypeOK, NEW r \in Requests, Insert(r)
    PROVE  /\ TypeOK'
           /\ \E n \in Nat \ {0} : Write(r, n)
           /\ r \notin crossed => Write(r, entries[UserOf[r]] + 1)
<1>1. entries[UserOf[r]] \in Nat
  BY DEF TypeOK
<1>2. PICK n \in Nat \ {0} : Write(r, n)
  BY <1>1 DEF Insert
<1>3. TypeOK'
  <2>1. at' \in [Requests -> At] /\ answer' \in [Requests -> Answer]
    BY DEF Insert, Done, Goto, TypeOK, At, Answer
  <2>2. UNCHANGED <<modified, visited, listed, before>>
    BY DEF Insert, reading
  <2>3. QED
    BY <1>2, <2>1, <2>2, WriteType DEF TypeOK
<1>4. QED
  BY <1>1, <1>2, <1>3 DEF Insert

LEMMA UnlinkType ==
    ASSUME TypeOK, WriterInv, NEW r \in Requests, Unlink(r)
    PROVE  /\ TypeOK'
           /\ \E n \in 0 .. entries[UserOf[r]] : Write(r, n)
           /\ r \notin crossed => Write(r, entries[UserOf[r]] - 1)
<1>1. entries[UserOf[r]] \in Nat
  BY DEF TypeOK
<1>2. r \notin crossed => entries[UserOf[r]] > 0
  BY DEF WriterInv, Unlink, Done, Goto, participants
<1>3. PICK n \in 0 .. entries[UserOf[r]] : Write(r, n)
  BY <1>1, <1>2 DEF Unlink
<1>4. TypeOK'
  <2>1. at' \in [Requests -> At] /\ answer' \in [Requests -> Answer]
    BY DEF Unlink, Done, Goto, TypeOK, At, Answer
  <2>2. UNCHANGED <<modified, visited, listed, before>>
    BY DEF Unlink, reading
  <2>3. n \in Nat
    BY <1>1, <1>3
  <2>4. QED
    BY <1>3, <2>1, <2>2, <2>3, WriteType DEF TypeOK
<1>5. QED
  BY <1>1, <1>2, <1>3, <1>4 DEF Unlink

LEMMA InitType == Init => TypeOK
BY DEF Init, TypeOK, At, Answer

LEMMA StepKeepsType == TypeOK /\ WriterInv /\ [Next]_vars => TypeOK'
<1> SUFFICES ASSUME TypeOK, WriterInv, [Next]_vars PROVE TypeOK'
  OBVIOUS
<1>1. CASE UNCHANGED vars
  BY <1>1 DEF vars, reading, history, TypeOK
<1>2. ASSUME NEW r \in Requests, Ask(r) PROVE TypeOK'
  <2>1. /\ before' \in [Requests -> SUBSET Requests]
        /\ steady' \in [Requests -> SUBSET Users]
        /\ ever' \in [Requests -> SUBSET Users]
    BY <1>2 DEF Ask, TypeOK, WritersOf, Writers, participants
  <2>2. at' \in [Requests -> At]
    BY <1>2 DEF Ask, Goto, TypeOK, At
  <2>3. QED
    BY <1>2, <2>1, <2>2 DEF Ask, TypeOK, reading
<1>3. ASSUME NEW r \in Requests, Serve(r) PROVE TypeOK'
  <2>1. CASE Other(r)
    BY <2>1 DEF Other, Done, Goto, TypeOK, At, Answer, reading, history
  <2>2. CASE Join(r)
    BY <2>2 DEF Join, Modify, Done, Goto, TypeOK, At, Answer, reading, history
  <2>3. CASE Leave(r)
    BY <2>3 DEF Leave, Modify, Done, Goto, TypeOK, At, Answer, reading, history
  <2>4. CASE Read(r)
    BY <2>4 DEF Read, Goto, TypeOK, At, reading, history
  <2>5. ASSUME NEW u \in Users, Visit(r, u) PROVE TypeOK'
    BY <2>5 DEF Visit, TypeOK, history
  <2>6. CASE Throw(r)
    BY <2>6 DEF Throw, Done, Goto, TypeOK, At, Answer, reading, history
  <2>7. CASE EndRead(r)
    BY <2>7 DEF EndRead, Done, Goto, TypeOK, At, Answer, reading, history
  <2>8. QED
    BY <1>3, <2>1, <2>2, <2>3, <2>4, <2>5, <2>6, <2>7, InsertType, UnlinkType
       DEF Serve
<1>4. QED
  BY <1>1, <1>2, <1>3 DEF Next

-----------------------------------------------------------------------------
(* Writers.                                                                 *)

LEMMA InitServe == Init => ServeInv
<1> SUFFICES ASSUME Init PROVE ServeInv
  OBVIOUS
<1>1. WriterInv
  BY DEF Init, WriterInv
<1>2. ReaderInv
  BY DEF Init, ReaderInv, Readers
<1>3. TurnInv
  BY DEF Init, TurnInv, WritersOf, Writers
<1>4. QED
  BY <1>1, <1>2, <1>3 DEF ServeInv

\* A write overtakes the other writers of its user, and no others' entries.
LEMMA WriteFacts ==
    ASSUME TypeOK, NEW r \in Requests, NEW n \in Nat, Write(r, n)
    PROVE  /\ entries'[UserOf[r]] = n
           /\ \A u \in Users \ {UserOf[r]} : entries'[u] = entries[u]
           /\ crossed \subseteq crossed'
           /\ \A s \in Requests \ {r} :
                 (s \in Writers /\ at[s] \in {"insert", "unlink"} /\ UserOf[s] = UserOf[r])
                     => s \in crossed'
           /\ \A s \in crossed' \ crossed :
                 /\ s \in WritersOf(UserOf[r]) \ {r}
                 /\ at[s] \in {"insert", "unlink"}
BY DEF TypeOK, Write, WritersOf

\* After a request's write: where it is, and what the set holds.
LEMMA WriteKeepsWriters ==
    ASSUME TypeOK, WriterInv, NEW r \in Requests, NEW n \in Nat, Write(r, n),
           NEW from \in {"insert", "unlink"}, Done(r, from, "result"),
           before' = before
    PROVE  WriterInv'
<1>1. /\ at'[r] = "done" /\ answer'[r] = "result"
      /\ \A s \in Requests \ {r} : at'[s] = at[s] /\ answer'[s] = answer[s]
  BY DEF Done, Goto, TypeOK
<1>2. ASSUME NEW s \in Requests, at'[s] = "unlink", s \notin crossed'
      PROVE  UserOf[s] \in participants'
  <2>1. s # r /\ at[s] = "unlink"
    BY <1>1, <1>2
  <2>2. s \notin crossed /\ s \in Writers
    BY <1>2, <2>1, WriteFacts DEF WriterInv, Writers
  <2>3. UserOf[s] # UserOf[r]
    BY <1>2, <2>1, <2>2, WriteFacts
  <2>4. QED
    BY <2>1, <2>2, <2>3, WriteFacts DEF WriterInv, participants
<1>3. \A s \in Requests : \A t \in before[s] : at[t] = "done"
  BY DEF WriterInv
<1>4. \A s \in Requests : \A t \in before'[s] : at'[t] = "done"
  <2>1. \A s \in Requests : \A t \in before[s] : t \in Requests
    BY DEF TypeOK
  <2>2. QED
    BY <1>1, <1>3, <2>1
<1>5. QED
  BY <1>1, <1>2, <1>4 DEF WriterInv

LEMMA StepKeepsWriters == TypeOK /\ WriterInv /\ [Next]_vars => WriterInv'
<1> SUFFICES ASSUME TypeOK, WriterInv, [Next]_vars PROVE WriterInv'
  OBVIOUS
<1>1. CASE UNCHANGED vars
  BY <1>1 DEF vars, history, WriterInv, participants
<1>2. ASSUME NEW r \in Requests, Ask(r) PROVE WriterInv'
  <2>1. /\ at[r] = "new" /\ at'[r] = "asked" /\ answer' = answer /\ crossed' = crossed
        /\ \A s \in Requests \ {r} : at'[s] = at[s] /\ before'[s] = before[s]
        /\ \A s \in before'[r] : s \in Requests /\ at[s] = "done"
        /\ participants' = participants
    BY <1>2 DEF Ask, Goto, TypeOK, WritersOf, Writers, participants
  <2>2. \A s \in Requests : \A t \in before[s] : at[t] = "done" /\ t \in Requests
    BY DEF WriterInv, TypeOK
  <2>3. \A s \in Requests : \A t \in before'[s] : at'[t] = "done"
    BY <2>1, <2>2
  <2>4. QED
    BY <2>1, <2>3 DEF WriterInv
<1>3. ASSUME NEW r \in Requests, NEW to \in At, at[r] # "done",
             at' = [at EXCEPT ![r] = to],
             to = "insert" => ChildOf[r] = "join",
             to = "unlink" => ChildOf[r] = "leave" /\ UserOf[r] \in participants,
             to = "visit" => r \in Readers,
             entries' = entries, crossed' = crossed, before' = before,
             \A s \in Requests \ {r} : answer'[s] = answer[s],
             answer'[r] = "result" => to = "done"
      PROVE  WriterInv'
  <2>1. at'[r] = to /\ \A s \in Requests \ {r} : at'[s] = at[s]
    BY <1>3 DEF TypeOK
  <2>2. participants' = participants
    BY <1>3 DEF participants
  <2>3. \A s \in Requests : \A t \in before[s] : at[t] = "done" /\ t \in Requests
    BY DEF WriterInv, TypeOK
  <2>4. \A s \in Requests : \A t \in before'[s] : at'[t] = "done"
    BY <1>3, <2>1, <2>3
  <2>5. QED
    BY <1>3, <2>1, <2>2, <2>4 DEF WriterInv
<1>4. ASSUME NEW r \in Requests, Serve(r) PROVE WriterInv'
  <2>1. CASE Other(r)
    BY <1>3, <2>1 DEF Other, Done, Goto, TypeOK, At, history
  <2>2. CASE Join(r)
    <3>1. CASE UserOf[r] \in participants /\ Done(r, "asked", "result")
      BY <1>3, <2>2, <3>1 DEF Join, Done, Goto, TypeOK, At, history
    <3>2. CASE Goto(r, "asked", "insert") /\ UNCHANGED answer
      <4>1. answer[r] # "result"
        BY <3>2 DEF WriterInv, Goto
      <4>2. QED
        BY <1>3, <2>2, <3>2, <4>1 DEF Join, Goto, TypeOK, At, history
    <3>3. QED
      BY <2>2, <3>1, <3>2 DEF Join
  <2>3. CASE Leave(r)
    <3>1. CASE UserOf[r] \notin participants /\ Done(r, "asked", "result")
      BY <1>3, <2>3, <3>1 DEF Leave, Done, Goto, TypeOK, At, history
    <3>2. CASE UserOf[r] \in participants /\ Goto(r, "asked", "unlink") /\ UNCHANGED answer
      <4>1. answer[r] # "result"
        BY <3>2 DEF WriterInv, Goto
      <4>2. QED
        BY <1>3, <2>3, <3>2, <4>1 DEF Leave, Goto, TypeOK, At, history
    <3>3. QED
      BY <2>3, <3>1, <3>2 DEF Leave
  <2>4. CASE Insert(r)
    BY <2>4, InsertType, WriteKeepsWriters DEF Insert
  <2>5. CASE Unlink(r)
    <3>1. PICK n \in 0 .. entries[UserOf[r]] : Write(r, n)
      BY <2>5, UnlinkType
    <3>2. n \in Nat
      BY <3>1 DEF TypeOK
    <3>3. QED
      BY <2>5, <3>1, <3>2, WriteKeepsWriters DEF Unlink
  <2>6. CASE Read(r)
    <3>1. answer[r] # "result"
      BY <2>6 DEF WriterInv, Read, Goto
    <3>2. QED
      BY <1>3, <2>6, <3>1 DEF Read, Goto, TypeOK, At, history
  <2>7. ASSUME NEW u \in Users, Visit(r, u) PROVE WriterInv'
    BY <2>7 DEF Visit, WriterInv, participants, history
  <2>8. CASE Throw(r) \/ EndRead(r)
    BY <1>3, <2>8 DEF Throw, EndRead, Done, Goto, TypeOK, At, history
  <2>9. QED
    BY <1>4, <2>1, <2>2, <2>3, <2>4, <2>5, <2>6, <2>7, <2>8 DEF Serve
<1>5. QED
  BY <1>1, <1>2, <1>4 DEF Next

LEMMA WriterInvariant == Spec => [](TypeOK /\ WriterInv)
<1>1. Init => TypeOK /\ WriterInv
  BY InitType, InitServe DEF ServeInv
<1>2. QED
  BY <1>1, StepKeepsType, StepKeepsWriters, PTL DEF Spec

\* The set and the requests keep their types, however they interleave
\* (CommunityManagementImpl.java l.94-154): a leave that no other writer of
\* its user has overtaken finds the entry it takes out.
THEOREM TypeCorrect == Spec => []TypeOK
BY WriterInvariant, PTL

-----------------------------------------------------------------------------
(* Readers.                                                                 *)

LEMMA WriteKeepsReaders ==
    ASSUME TypeOK, ReaderInv, NEW r \in Requests, r \notin Readers,
           NEW n \in Nat, Write(r, n), UNCHANGED reading,
           \A s \in Requests \ {r} : at'[s] = at[s] /\ answer'[s] = answer[s]
    PROVE  ReaderInv'
<1> SUFFICES ASSUME NEW s \in Readers
             PROVE  /\ at'[s] \in {"asked", "visit"} =>
                          steady'[s] \subseteq participants'
                          /\ participants' \subseteq ever'[s]
                    /\ at'[s] # "new" =>
                          /\ steady'[s] \cap visited'[s] \subseteq listed'[s]
                          /\ listed'[s] \subseteq ever'[s]
                    /\ at'[s] \in {"new", "asked"} => visited'[s] = {} /\ listed'[s] = {}
                    /\ answer'[s] = "result" => steady'[s] \subseteq listed'[s]
  BY DEF ReaderInv, Readers
<1>1. /\ s \in Requests /\ at'[s] = at[s] /\ answer'[s] = answer[s]
      /\ visited'[s] = visited[s] /\ listed'[s] = listed[s]
  BY DEF Readers, reading
<1>2. /\ at[s] \in {"asked", "visit"} =>
            steady'[s] = steady[s] \cap participants'
            /\ ever'[s] = ever[s] \cup participants'
      /\ at[s] \notin {"asked", "visit"} => steady'[s] = steady[s] /\ ever'[s] = ever[s]
  <2>1. participants' = {v \in Users : IF v = UserOf[r] THEN n > 0 ELSE entries[v] > 0}
    BY DEF Write, participants, TypeOK
  <2>2. QED
    BY <1>1, <2>1 DEF Write
<1>3. QED
  BY <1>1, <1>2 DEF ReaderInv

LEMMA StepKeepsReaders ==
    TypeOK /\ WriterInv /\ ReaderInv /\ [Next]_vars => ReaderInv'
<1> SUFFICES ASSUME TypeOK, WriterInv, ReaderInv, [Next]_vars PROVE ReaderInv'
  OBVIOUS
<1>1. CASE UNCHANGED vars
  BY <1>1 DEF vars, reading, history, ReaderInv, participants
<1>2. ASSUME NEW r \in Requests, Ask(r) PROVE ReaderInv'
  <2>1. /\ participants' = participants /\ UNCHANGED <<visited, listed, answer>>
        /\ at[r] = "new" /\ at'[r] = "asked"
        /\ \A s \in Requests \ {r} :
              at'[s] = at[s] /\ steady'[s] = steady[s] /\ ever'[s] = ever[s]
        /\ r \in Readers => steady'[r] = participants /\ ever'[r] = participants
    BY <1>2 DEF Ask, Goto, TypeOK, participants, reading
  <2>2. answer[r] # "result"
    BY <2>1 DEF WriterInv
  <2>3. Readers \subseteq Requests
    BY DEF Readers
  <2>4. QED
    BY <2>1, <2>2, <2>3 DEF ReaderInv
<1>3. ASSUME NEW r \in Requests, r \notin Readers, UNCHANGED <<entries, reading, steady, ever>>,
             \A s \in Requests \ {r} : at'[s] = at[s] /\ answer'[s] = answer[s]
      PROVE  ReaderInv'
  <2>1. Readers \subseteq Requests \ {r} /\ participants' = participants
    BY <1>3 DEF Readers, participants
  <2>2. QED
    BY <1>3, <2>1 DEF ReaderInv, reading
<1>4. ASSUME NEW r \in Requests, Serve(r) PROVE ReaderInv'
  <2>a. \A child \in {"other", "join", "leave"} : ChildOf[r] = child => r \notin Readers
    BY DEF Readers
  <2>1. CASE Other(r)
    BY <1>3, <2>1, <2>a DEF Other, Done, Goto, TypeOK, history
  <2>2. CASE Join(r)
    BY <1>3, <2>2, <2>a DEF Join, Done, Goto, TypeOK, history
  <2>3. CASE Leave(r)
    BY <1>3, <2>3, <2>a DEF Leave, Done, Goto, TypeOK, history
  <2>4. CASE Insert(r)
    <3>1. r \notin Readers /\ UNCHANGED reading
          /\ \A s \in Requests \ {r} : at'[s] = at[s] /\ answer'[s] = answer[s]
      BY <2>4, <2>a DEF Insert, Done, Goto, TypeOK, WriterInv
    <3>2. QED
      BY <2>4, <3>1, InsertType, WriteKeepsReaders
  <2>5. CASE Unlink(r)
    <3>1. r \notin Readers /\ UNCHANGED reading
          /\ \A s \in Requests \ {r} : at'[s] = at[s] /\ answer'[s] = answer[s]
      BY <2>5, <2>a DEF Unlink, Done, Goto, TypeOK, WriterInv
    <3>2. PICK n \in 0 .. entries[UserOf[r]] : Write(r, n)
      BY <2>5, UnlinkType
    <3>3. n \in Nat
      BY <3>2 DEF TypeOK
    <3>4. QED
      BY <3>1, <3>2, <3>3, WriteKeepsReaders
  <2>b. Readers \subseteq Requests
    BY DEF Readers
  <2>6. CASE Read(r)
    <3>1. /\ UNCHANGED <<visited, listed, steady, ever, answer>>
          /\ participants' = participants
          /\ at[r] = "asked" /\ at'[r] = "visit"
          /\ \A s \in Requests \ {r} : at'[s] = at[s]
      BY <2>6 DEF Read, Goto, TypeOK, reading, history, participants
    <3>2. QED
      BY <2>b, <3>1 DEF ReaderInv
  <2>7. ASSUME NEW u \in Users, Visit(r, u) PROVE ReaderInv'
    <3>1. /\ UNCHANGED <<at, steady, ever, answer>> /\ participants' = participants
          /\ at[r] = "visit"
          /\ visited'[r] = visited[r] \cup {u}
          /\ listed'[r] = listed[r] \cup ({u} \cap participants)
          /\ \A s \in Requests \ {r} : visited'[s] = visited[s] /\ listed'[s] = listed[s]
      BY <2>7 DEF Visit, TypeOK, history, participants
    <3>2. answer[r] # "result"
      BY <3>1 DEF WriterInv
    <3>3. QED
      BY <2>b, <3>1, <3>2 DEF ReaderInv
  <2>8. CASE Throw(r)
    <3>1. /\ UNCHANGED <<visited, listed, steady, ever>> /\ participants' = participants
          /\ at[r] = "visit" /\ at'[r] = "done" /\ answer'[r] = "exception"
          /\ \A s \in Requests \ {r} : at'[s] = at[s] /\ answer'[s] = answer[s]
      BY <2>8 DEF Throw, Done, Goto, TypeOK, reading, history, participants
    <3>2. QED
      BY <2>b, <3>1 DEF ReaderInv
  <2>9. CASE EndRead(r)
    <3>1. /\ UNCHANGED <<visited, listed, steady, ever>> /\ participants' = participants
          /\ at[r] = "visit" /\ at'[r] = "done" /\ answer'[r] = "result"
          /\ visited[r] = Users /\ steady[r] \subseteq Users
          /\ \A s \in Requests \ {r} : at'[s] = at[s] /\ answer'[s] = answer[s]
      BY <2>9 DEF EndRead, Done, Goto, TypeOK, reading, history, participants
    <3>2. r \in Readers => steady[r] \subseteq listed[r]
      BY <3>1 DEF ReaderInv
    <3>3. QED
      BY <2>b, <3>1, <3>2 DEF ReaderInv
  <2>10. QED
    BY <1>4, <2>1, <2>2, <2>3, <2>4, <2>5, <2>6, <2>7, <2>8, <2>9 DEF Serve
<1>5. QED
  BY <1>1, <1>2, <1>4 DEF Next

\* What is listed for who and by getParticipants is right for the time it took,
\* however many users join and leave meanwhile (l.119-134, l.152-154).
THEOREM ListsAreRight == Spec => []ListedRightly
<1>1. Init => ReaderInv
  BY InitServe DEF ServeInv
<1>2. TypeOK /\ WriterInv /\ ReaderInv => ListedRightly
  <2> SUFFICES ASSUME WriterInv, ReaderInv, NEW r \in Requests,
                      Answered(r, "who") \/ Answered(r, "get")
               PROVE  steady[r] \subseteq listed[r] /\ listed[r] \subseteq ever[r]
    BY DEF ListedRightly
  <2>1. r \in Readers /\ answer[r] = "result" /\ at[r] = "done"
    BY DEF Answered, Readers, WriterInv
  <2>2. QED
    BY <2>1 DEF ReaderInv
<1>3. QED
  BY <1>1, <1>2, WriterInvariant, StepKeepsReaders, PTL DEF Spec

-----------------------------------------------------------------------------
(* Joins and leaves.                                                        *)

\* What a step may do to a join, a leave and their user's entries.
LEMMA WriterSteps ==
    ASSUME TypeOK, WriterInv, [Next]_vars
    PROVE  /\ \A s \in Requests : at'[s] = "new" => at[s] = "new"
           /\ \A s \in Requests : at[s] # "new" => before'[s] = before[s]
           /\ \A u \in Users : \/ entries'[u] = entries[u]
                               \/ \E q \in Requests : UserOf[q] = u /\ Insert(q)
                               \/ \E q \in Requests : UserOf[q] = u /\ Unlink(q)
           /\ \A s \in Requests :
                 (answer'[s] = "result" /\ answer[s] # "result") =>
                    /\ ChildOf[s] = "join" =>
                          Insert(s) \/ (entries' = entries /\ UserOf[s] \in participants)
                    /\ ChildOf[s] = "leave" =>
                          Unlink(s) \/ (entries' = entries /\ UserOf[s] \notin participants)
<1> DEFINE Effect ==
           /\ \A s \in Requests : at'[s] = "new" => at[s] = "new"
           /\ \A s \in Requests : at[s] # "new" => before'[s] = before[s]
           /\ \A u \in Users : \/ entries'[u] = entries[u]
                               \/ \E q \in Requests : UserOf[q] = u /\ Insert(q)
                               \/ \E q \in Requests : UserOf[q] = u /\ Unlink(q)
           /\ \A s \in Requests :
                 (answer'[s] = "result" /\ answer[s] # "result") =>
                    /\ ChildOf[s] = "join" =>
                          Insert(s) \/ (entries' = entries /\ UserOf[s] \in participants)
                    /\ ChildOf[s] = "leave" =>
                          Unlink(s) \/ (entries' = entries /\ UserOf[s] \notin participants)
<1>1. CASE UNCHANGED vars
  BY <1>1 DEF vars, history
<1>2. ASSUME NEW r \in Requests, Ask(r) PROVE Effect
  BY <1>2 DEF Ask, Goto, TypeOK
<1>3. ASSUME NEW r \in Requests, Serve(r) PROVE Effect
  <2>1. CASE Other(r)
    BY <2>1 DEF Other, Done, Goto, TypeOK, history
  <2>2. CASE Join(r)
    BY <2>2 DEF Join, Done, Goto, TypeOK, history
  <2>3. CASE Leave(r)
    BY <2>3 DEF Leave, Done, Goto, TypeOK, history
  <2>4. CASE Insert(r)
    <3>1. /\ ChildOf[r] = "join" /\ at[r] = "insert" /\ before' = before
          /\ \A s \in Requests \ {r} : at'[s] = at[s] /\ answer'[s] = answer[s]
          /\ at'[r] = "done"
      BY <2>4 DEF Insert, Done, Goto, TypeOK, WriterInv
    <3>2. \A u \in Users \ {UserOf[r]} : entries'[u] = entries[u]
      BY <2>4, InsertType, WriteFacts
    <3>3. \A u \in Users : \/ entries'[u] = entries[u]
                         \/ \E q \in Requests : UserOf[q] = u /\ Insert(q)
      BY <2>4, <3>2
    <3>4. \A s \in Requests : (answer'[s] = "result" /\ answer[s] # "result") => s = r
      BY <3>1
    <3>5. /\ \A s \in Requests : at'[s] = "new" => at[s] = "new"
          /\ \A s \in Requests : at[s] # "new" => before'[s] = before[s]
      BY <3>1
    <3>6. \A s \in Requests :
             (answer'[s] = "result" /\ answer[s] # "result") =>
                ChildOf[s] = "join" /\ Insert(s)
      BY <2>4, <3>1, <3>4
    <3>7. QED
      BY <3>3, <3>5, <3>6
  <2>5. CASE Unlink(r)
    <3>1. /\ ChildOf[r] = "leave" /\ at[r] = "unlink" /\ before' = before
          /\ \A s \in Requests \ {r} : at'[s] = at[s] /\ answer'[s] = answer[s]
          /\ at'[r] = "done"
      BY <2>5 DEF Unlink, Done, Goto, TypeOK, WriterInv
    <3>2. PICK n \in 0 .. entries[UserOf[r]] : Write(r, n)
      BY <2>5, UnlinkType
    <3>3. n \in Nat
      BY <3>2 DEF TypeOK
    <3>4. \A u \in Users \ {UserOf[r]} : entries'[u] = entries[u]
      BY <3>2, <3>3, WriteFacts
    <3>5. \A u \in Users : \/ entries'[u] = entries[u]
                         \/ \E q \in Requests : UserOf[q] = u /\ Unlink(q)
      BY <2>5, <3>4
    <3>6. \A s \in Requests : (answer'[s] = "result" /\ answer[s] # "result") => s = r
      BY <3>1
    <3>7. /\ \A s \in Requests : at'[s] = "new" => at[s] = "new"
          /\ \A s \in Requests : at[s] # "new" => before'[s] = before[s]
      BY <3>1
    <3>8. \A s \in Requests :
             (answer'[s] = "result" /\ answer[s] # "result") =>
                ChildOf[s] = "leave" /\ Unlink(s)
      BY <2>5, <3>1, <3>6
    <3>9. QED
      BY <3>5, <3>7, <3>8
  <2>6. CASE Read(r)
    BY <2>6 DEF Read, Goto, TypeOK, history
  <2>7. ASSUME NEW u \in Users, Visit(r, u) PROVE Effect
    BY <2>7 DEF Visit, history
  <2>8. CASE Throw(r)
    BY <2>8 DEF Throw, Done, Goto, TypeOK, history
  <2>9. CASE EndRead(r)
    <3>1. r \in Readers
      BY <2>9 DEF EndRead, Done, Goto, WriterInv
    <3>2. QED
      BY <2>9, <3>1 DEF EndRead, Done, Goto, TypeOK, history, Readers
  <2>10. QED
    BY <1>3, <2>1, <2>2, <2>3, <2>4, <2>5, <2>6, <2>7, <2>8, <2>9 DEF Serve
<1>4. QED
  BY <1>1, <1>2, <1>3 DEF Next

LEMMA NoneSinceBefore ==
    ASSUME TypeOK, WriterInv, [Next]_vars, NEW r \in Requests, at[r] # "new",
           NEW child, NoneSince(r, child)'
    PROVE  NoneSince(r, child)
<1>1. before'[r] = before[r] /\ \A s \in Requests : at'[s] = "new" => at[s] = "new"
  BY WriterSteps
<1>2. QED
  BY <1>1 DEF NoneSince

\* A writer that is in work has come since, or was in work then.
LEMMA InWorkIsSince ==
    ASSUME WriterInv, NEW r \in Requests, NEW s \in Requests \ {r}, NEW child,
           ChildOf[s] = child, UserOf[s] = UserOf[r], at[s] \in {"insert", "unlink"}
    PROVE  ~NoneSince(r, child)
BY DEF WriterInv, NoneSince

LEMMA StepKeepsJoined ==
    TypeOK /\ WriterInv /\ JoinedIsIn /\ [Next]_vars => JoinedIsIn'
<1> SUFFICES ASSUME TypeOK, WriterInv, JoinedIsIn, [Next]_vars,
                    NEW r \in Requests, Answered(r, "join")', NoneSince(r, "leave")'
             PROVE  UserOf[r] \in participants'
  BY DEF JoinedIsIn, Answered
<1> DEFINE u == UserOf[r]
<1>1. u \in Users /\ ChildOf[r] = "join" /\ answer'[r] = "result"
  BY DEF Answered
<1>2. ASSUME NEW q \in Requests, UserOf[q] = u, Insert(q) PROVE u \in participants'
  <2>1. PICK n \in Nat \ {0} : Write(q, n)
    BY <1>2, InsertType
  <2>2. entries'[u] = n
    BY <1>2, <2>1, WriteFacts
  <2>3. QED
    BY <1>1, <2>2 DEF participants
<1>3. CASE answer[r] # "result"
  <2>1. Insert(r) \/ (entries' = entries /\ u \in participants)
    BY <1>1, <1>3, WriterSteps
  <2>2. QED
    BY <1>2, <2>1 DEF participants
<1>4. CASE answer[r] = "result"
  <2>1. at[r] = "done"
    BY <1>4 DEF WriterInv
  <2>2. NoneSince(r, "leave")
    BY <2>1, NoneSinceBefore
  <2>3. u \in participants
    BY <1>1, <1>4, <2>2 DEF JoinedIsIn, Answered
  <2>4. ASSUME NEW q \in Requests, UserOf[q] = u, Unlink(q) PROVE FALSE
    <3>1. ChildOf[q] = "leave" /\ at[q] = "unlink"
      BY <2>4 DEF Unlink, Done, Goto, WriterInv
    <3>2. QED
      BY <2>1, <2>2, <2>4, <3>1, InWorkIsSince
  <2>5. CASE entries'[u] = entries[u]
    BY <1>1, <2>3, <2>5 DEF participants
  <2>6. QED
    BY <1>1, <1>2, <2>4, <2>5, WriterSteps
<1>5. QED
  BY <1>3, <1>4

\* A user whose join was answered is a participant until a leave of that user
\* comes, however many joins overlap (l.99-108).
THEOREM JoinsAreKept == Spec => []JoinedIsIn
<1>1. Init => JoinedIsIn
  BY DEF Init, JoinedIsIn, Answered
<1>2. QED
  BY <1>1, WriterInvariant, StepKeepsJoined, PTL DEF Spec

-----------------------------------------------------------------------------
(* A user whose joins and leaves come in turn.                              *)

LEMMA InTurnBefore ==
    ASSUME TypeOK, WriterInv, [Next]_vars, NEW u \in Users, InTurn(u)'
    PROVE  InTurn(u)
<1>1. \A s \in Requests : at'[s] = "new" => at[s] = "new"
  BY WriterSteps
<1>2. \A s \in Requests : at[s] # "new" => before'[s] = before[s]
  BY WriterSteps
<1>3. WritersOf(u) \subseteq Requests
  BY DEF WritersOf, Writers
<1>4. QED
  BY <1>1, <1>2, <1>3 DEF InTurn

\* One of them at most is at a write.
LEMMA OneWriter ==
    ASSUME WriterInv, NEW u \in Users, InTurn(u),
           NEW r \in WritersOf(u), NEW s \in WritersOf(u), r # s,
           at[r] \notin {"new", "done"}
    PROVE  at[s] \in {"new", "done"}
BY DEF WriterInv, InTurn, WritersOf, Writers

LEMMA StepKeepsTurn ==
    TypeOK /\ WriterInv /\ TurnInv /\ [Next]_vars => TurnInv'
<1> SUFFICES ASSUME TypeOK, WriterInv, TurnInv, [Next]_vars,
                    NEW u \in Users, InTurn(u)'
             PROVE  /\ entries'[u] \in {0, 1}
                    /\ WritersOf(u) \cap crossed' = {}
                    /\ \A s \in WritersOf(u) : at'[s] = "insert" => entries'[u] = 0
  BY DEF TurnInv, WritersOf, Writers
<1>1. /\ InTurn(u) /\ entries[u] \in {0, 1}
      /\ WritersOf(u) \cap crossed = {}
      /\ \A s \in WritersOf(u) : at[s] = "insert" => entries[u] = 0
  BY InTurnBefore DEF TurnInv
<1>2. WritersOf(u) \subseteq Requests
  BY DEF WritersOf, Writers
<1>a. ASSUME entries' = entries, crossed' = crossed, NEW r \in Requests,
             \A s \in Requests \ {r} : at'[s] = at[s],
             at'[r] = "insert" => UserOf[r] \notin participants
      PROVE  /\ entries'[u] \in {0, 1}
             /\ WritersOf(u) \cap crossed' = {}
             /\ \A s \in WritersOf(u) : at'[s] = "insert" => entries'[u] = 0
  <2>1. ASSUME r \in WritersOf(u), at'[r] = "insert" PROVE entries[u] = 0
    BY <1>1, <1>a, <2>1 DEF WritersOf, participants
  <2>2. QED
    BY <1>1, <1>2, <1>a, <2>1
<1>b. ASSUME NEW r \in Requests, NEW n \in Nat, Write(r, n), at'[r] = "done",
             r \in Writers, at[r] \in {"insert", "unlink"},
             (UserOf[r] = u /\ r \notin crossed) => n \in {0, 1},
             \A s \in Requests \ {r} : at'[s] = at[s]
      PROVE  /\ entries'[u] \in {0, 1}
             /\ WritersOf(u) \cap crossed' = {}
             /\ \A s \in WritersOf(u) : at'[s] = "insert" => entries'[u] = 0
  <2>1. CASE UserOf[r] = u
    <3>1. r \in WritersOf(u) /\ r \notin crossed
      BY <1>1, <1>b, <2>1 DEF WritersOf
    <3>2. \A s \in WritersOf(u) \ {r} : at[s] \in {"new", "done"}
      BY <1>1, <1>b, <3>1, OneWriter
    <3>3. entries'[u] \in {0, 1}
      BY <1>b, <2>1, <3>1, WriteFacts
    <3>4. WritersOf(u) \cap crossed' = {}
      BY <1>1, <1>b, <2>1, <3>2, WriteFacts
    <3>5. QED
      BY <1>2, <1>b, <3>2, <3>3, <3>4
  <2>2. CASE UserOf[r] # u
    <3>1. entries'[u] = entries[u] /\ r \notin WritersOf(u)
      BY <1>b, <2>2, WriteFacts DEF WritersOf
    <3>2. WritersOf(u) \cap crossed' = {}
      BY <1>1, <1>b, <2>2, WriteFacts DEF WritersOf
    <3>3. QED
      BY <1>1, <1>2, <1>b, <3>1, <3>2
  <2>3. QED
    BY <2>1, <2>2
<1>3. CASE UNCHANGED vars
  BY <1>1, <1>3 DEF vars
<1>4. ASSUME NEW r \in Requests, Ask(r)
      PROVE  /\ entries'[u] \in {0, 1}
             /\ WritersOf(u) \cap crossed' = {}
             /\ \A s \in WritersOf(u) : at'[s] = "insert" => entries'[u] = 0
  BY <1>4, <1>a DEF Ask, Goto, TypeOK
<1>5. ASSUME NEW r \in Requests, Serve(r)
      PROVE  /\ entries'[u] \in {0, 1}
             /\ WritersOf(u) \cap crossed' = {}
             /\ \A s \in WritersOf(u) : at'[s] = "insert" => entries'[u] = 0
  <2>1. CASE Other(r)
    BY <1>a, <2>1 DEF Other, Done, Goto, TypeOK
  <2>2. CASE Join(r)
    BY <1>a, <2>2 DEF Join, Done, Goto, TypeOK
  <2>3. CASE Leave(r)
    BY <1>a, <2>3 DEF Leave, Done, Goto, TypeOK
  <2>4. CASE Insert(r)
    <3>1. /\ at[r] = "insert" /\ at'[r] = "done" /\ r \in Writers
          /\ \A s \in Requests \ {r} : at'[s] = at[s]
      BY <2>4 DEF Insert, Done, Goto, TypeOK, WriterInv, Writers
    <3>2. PICK n \in Nat \ {0} : Write(r, n)
      BY <2>4, InsertType
    <3>3. ASSUME UserOf[r] = u, r \notin crossed PROVE n = 1
      <4>1. entries[u] = 0
        BY <1>1, <3>1, <3>3 DEF WritersOf
      <4>2. Write(r, 1)
        BY <2>4, <3>3, <4>1, InsertType
      <4>3. QED
        BY <3>2, <4>2, WriteFacts
    <3>4. QED
      BY <1>b, <3>1, <3>2, <3>3
  <2>5. CASE Unlink(r)
    <3>1. /\ at[r] = "unlink" /\ at'[r] = "done" /\ r \in Writers
          /\ \A s \in Requests \ {r} : at'[s] = at[s]
      BY <2>5 DEF Unlink, Done, Goto, TypeOK, WriterInv, Writers
    <3>2. PICK n \in 0 .. entries[UserOf[r]] : Write(r, n)
      BY <2>5, UnlinkType
    <3>3. n \in Nat
      BY <3>2 DEF TypeOK
    <3>4. UserOf[r] = u => n \in {0, 1}
      BY <1>1, <3>2
    <3>5. QED
      BY <1>b, <3>1, <3>2, <3>3, <3>4
  <2>6. CASE Read(r)
    BY <1>a, <2>6 DEF Read, Goto, TypeOK
  <2>7. ASSUME NEW v \in Users, Visit(r, v)
        PROVE  /\ entries'[u] \in {0, 1}
               /\ WritersOf(u) \cap crossed' = {}
               /\ \A s \in WritersOf(u) : at'[s] = "insert" => entries'[u] = 0
    BY <1>1, <2>7 DEF Visit
  <2>8. CASE Throw(r) \/ EndRead(r)
    BY <1>a, <2>8 DEF Throw, EndRead, Done, Goto, TypeOK
  <2>9. QED
    BY <1>5, <2>1, <2>2, <2>3, <2>4, <2>5, <2>6, <2>7, <2>8 DEF Serve
<1>6. QED
  BY <1>3, <1>4, <1>5 DEF Next

LEMMA StepKeepsLeft ==
    TypeOK /\ WriterInv /\ TurnInv /\ LeftIsOutInTurn /\ [Next]_vars
        => LeftIsOutInTurn'
<1> SUFFICES ASSUME TypeOK, WriterInv, TurnInv, LeftIsOutInTurn, [Next]_vars,
                    NEW r \in Requests, Answered(r, "leave")',
                    NoneSince(r, "join")', InTurn(UserOf[r])'
             PROVE  UserOf[r] \notin participants'
  BY DEF LeftIsOutInTurn, Answered
<1> DEFINE u == UserOf[r]
<1>1. u \in Users /\ ChildOf[r] = "leave" /\ answer'[r] = "result" /\ InTurn(u)
  BY InTurnBefore DEF Answered
<1>2. entries[u] \in {0, 1} /\ WritersOf(u) \cap crossed = {}
  BY <1>1 DEF TurnInv
<1>3. ASSUME NEW q \in Requests, UserOf[q] = u, Unlink(q) PROVE u \notin participants'
  <2>1. q \in WritersOf(u) /\ entries[u] > 0
    <3>1. ChildOf[q] = "leave" /\ at[q] = "unlink"
      BY <1>3 DEF Unlink, Done, Goto, WriterInv
    <3>2. q \in WritersOf(u)
      BY <1>3, <3>1 DEF WritersOf, Writers
    <3>3. QED
      BY <1>2, <1>3, <3>1, <3>2 DEF WriterInv, participants
  <2>2. Write(q, 0)
    BY <1>2, <1>3, <2>1, UnlinkType
  <2>3. entries'[u] = 0
    BY <1>3, <2>2, WriteFacts
  <2>4. QED
    BY <2>3 DEF participants
<1>4. CASE answer[r] # "result"
  <2>1. Unlink(r) \/ (entries' = entries /\ u \notin participants)
    BY <1>1, <1>4, WriterSteps
  <2>2. QED
    BY <1>3, <2>1 DEF participants
<1>5. CASE answer[r] = "result"
  <2>1. at[r] = "done"
    BY <1>5 DEF WriterInv
  <2>2. NoneSince(r, "join")
    BY <2>1, NoneSinceBefore
  <2>3. u \notin participants
    BY <1>1, <1>5, <2>2 DEF LeftIsOutInTurn, Answered
  <2>4. ASSUME NEW q \in Requests, UserOf[q] = u, Insert(q) PROVE FALSE
    <3>1. ChildOf[q] = "join" /\ at[q] = "insert"
      BY <2>4 DEF Insert, Done, Goto, WriterInv
    <3>2. QED
      BY <2>1, <2>2, <2>4, <3>1, InWorkIsSince
  <2>5. CASE entries'[u] = entries[u]
    BY <2>3, <2>5 DEF participants
  <2>6. QED
    BY <1>1, <1>3, <2>4, <2>5, WriterSteps
<1>6. QED
  BY <1>4, <1>5

\* A user whose leave was answered is out until a join of that user comes, if
\* the user's joins and leaves are in work one at a time (l.109-118), whatever
\* the other users do meanwhile.
THEOREM LeavesAreKept == Spec => []LeftIsOutInTurn
<1>1. Init => TurnInv /\ LeftIsOutInTurn
  BY InitServe DEF ServeInv, Init, LeftIsOutInTurn, Answered
<1>2. QED
  BY <1>1, WriterInvariant, StepKeepsTurn, StepKeepsLeft, PTL DEF Spec

=============================================================================

---------------------------- MODULE PhoneGapReader ---------------------------
(* The FileReader of lib/phonegap.js with its events.  The native side is    *)
(* asked through exec (module PhoneGap) and answers each read once, in any   *)
(* order.                                                                    *)
EXTENDS Naturals, Sequences

CONSTANT MaxReads   \* the reads started

VARIABLES
    reader,     \* readyState, result and error
    asks,       \* the reads the native side has to answer
    reads,      \* what the page heard of each read: the results that came, and the ends
    tangled     \* the reader was used again before an old answer came, or within a handler

vars == <<reader, asks, reads, tangled>>

None == "none"

NewReader == [state |-> "EMPTY", result |-> None, error |-> None]

\* readAsText and readAsDataURL: readyState is set whatever it was
Read ==
    /\ Len(reads) < MaxReads
    /\ reader' = [reader EXCEPT !.state = "LOADING"]
    /\ asks' = asks \cup {Len(reads) + 1}
    /\ reads' = Append(reads, [loads |-> <<>>, ends |-> 0])
    /\ tangled' = (tangled \/ asks # {})

End(heard) == [heard EXCEPT ![Len(heard)].ends = @ + 1]

\* abort: done at once, with the events of an end
AbortReader ==
    /\ reads # <<>> /\ reads[Len(reads)].ends = 0
    /\ reader' = [state |-> "DONE", result |-> None, error |-> "undefined"]
    /\ reads' = End(reads)
    /\ UNCHANGED <<asks, tangled>>

\* Mutant of ReadDone: the answer to a read given up is taken.
ReadDone_NotDone(n) ==
    /\ reader' = [reader EXCEPT !.state = "DONE", !.result = n]
    /\ reads' = End([reads EXCEPT ![Len(reads)].loads = Append(@, n)])
    /\ UNCHANGED tangled

\* The success callback; onload may call abort, the reader still LOADING
ReadDone(n) ==
    \/ reader.state = "DONE" /\ UNCHANGED <<reader, reads, tangled>>
    \/ /\ reader.state # "DONE"
       /\ reader' = [reader EXCEPT !.state = "DONE", !.result = n]
       /\ reads' = End([reads EXCEPT ![Len(reads)].loads = Append(@, n)])
       /\ UNCHANGED tangled
    \/ /\ reader.state # "DONE"
       /\ reader' = [state |-> "DONE", result |-> None, error |-> "undefined"]
       /\ reads' = End(End([reads EXCEPT ![Len(reads)].loads = Append(@, n)]))
       /\ tangled' = TRUE

\* The error callback
ReadFailed ==
    IF reader.state = "DONE" THEN UNCHANGED <<reader, reads, tangled>>
    ELSE /\ reader' = [reader EXCEPT !.state = "DONE", !.error = "NOT_READABLE_ERR"]
         /\ reads' = End(reads)
         /\ UNCHANGED tangled

AnswerRead(n) ==
    /\ asks' = asks \ {n}
    /\ ReadDone(n) \/ ReadFailed

-----------------------------------------------------------------------------
Init == reader = NewReader /\ asks = {} /\ reads = <<>> /\ tangled = FALSE

Next == Read \/ AbortReader \/ \E n \in asks : AnswerRead(n)

Spec == Init /\ [][Next]_vars

-----------------------------------------------------------------------------
\* Each read that was followed to its end ends once, with its own result if
\* with any, and the reader is DONE just then; for a page that waits for the
\* answers to a read it gave up, and aborts in no handler
ReadsEndOnce ==
    ~tangled =>
        \A n \in DOMAIN reads :
            /\ reads[n].ends <= 1
            /\ reads[n].loads \in {<<>>, <<n>>}
            /\ n = Len(reads) => (reads[n].ends = 1 <=> reader.state = "DONE")

=============================================================================

--------------------------- MODULE PhoneGapDevices ---------------------------
(* Device objects of lib/phonegap.js that keep state: the watches of         *)
(* Accelerometer and Compass, the listeners of Geolocation, and a contact.   *)
(* They share nothing, so a behaviour is of one of them.  What they ask the  *)
(* native side (exec, module PhoneGap) waits in asks and is answered in any  *)
(* order.                                                                    *)
EXTENDS Integers, FiniteSets, FiniteSetsExt

CONSTANTS
    Frequencies,    \* the frequencies of watches; NoFrequency is an option left out
    Margin,         \* the time kept beyond the frequency (10 s in the code)
    FirstTimeout,   \* the native side's timeout at first
    MaxWatches,     \* the watches begun
    MaxAsks         \* the questions asked at a time

VARIABLES
    device,     \* the object of this behaviour
    asks,       \* questions under way
    watches,    \* the watches begun: [frequency, timer, cleared, late]
    timeout,    \* the native timeout of the sensor
    crossed,    \* a timeout was asked for while another question about it was under way
    listeners,  \* of Geolocation: watch ids and "global"
    geo,        \* [refused, failed]: the page was told to wait, a position failed
    contact     \* [state, id, fields]

vars == <<device, asks, watches, timeout, crossed, listeners, geo, contact>>

NoFrequency == 0
Sensors == {"accelerometer", "compass"}

sensorVars == <<watches, timeout, crossed>>
otherVars == <<listeners, geo, contact>>

-----------------------------------------------------------------------------
(* Watches.  late is how many readings of a cleared watch may still come     *)

New(frequency) == [frequency |-> frequency, timer |-> TRUE, cleared |-> FALSE, late |-> 0]

AsksFor(w) == {a \in asks : a.what = "reading" /\ a.watch = w}

AboutTimeout == {a \in asks : a.what \in {"getTimeout", "setTimeout"}}

\* watchAcceleration and watchHeading: the timeout is asked for and the
\* interval starts
Watch(sensor, frequency) ==
    LET w == Cardinality(DOMAIN watches) + 1
    IN  /\ device = sensor
        /\ w <= MaxWatches
        /\ watches' = [i \in 1..w |-> IF i = w THEN New(frequency) ELSE watches[i]]
        /\ asks' = asks \cup {[what |-> "getTimeout", watch |-> w]}
        /\ crossed' = (crossed \/ AboutTimeout # {})
        /\ UNCHANGED <<device, timeout, otherVars>>

WatchAcceleration(frequency) == Watch("accelerometer", frequency)
WatchHeading(frequency) == Watch("compass", frequency)

\* The interval of a watch: another reading is asked for
Tick(w) ==
    /\ watches[w].timer /\ Cardinality(asks) < MaxAsks
    /\ asks' = asks \cup {[what |-> "reading", watch |-> w, n |-> CHOOSE n \in 1..MaxAsks :
                              [what |-> "reading", watch |-> w, n |-> n] \notin asks]}
    /\ UNCHANGED <<device, sensorVars, otherVars>>

\* Mutant of Clear: the interval goes on.
Clear_GoesOn(sensor, w) ==
    /\ device = sensor
    /\ ~watches[w].cleared
    /\ watches' = [watches EXCEPT ![w].cleared = TRUE, ![w].late = Cardinality(AsksFor(w))]
    /\ UNCHANGED <<device, asks, timeout, crossed, otherVars>>

\* clearWatch: readings asked for still come
Clear(sensor, w) ==
    /\ device = sensor
    /\ watches[w].timer
    /\ watches' = [watches EXCEPT ![w].timer = FALSE, ![w].cleared = TRUE,
                                  ![w].late = Cardinality(AsksFor(w))]
    /\ UNCHANGED <<device, asks, timeout, crossed, otherVars>>

ClearAcceleration(w) == Clear("accelerometer", w)
ClearHeading(w) == Clear("compass", w)

\* A reading, or its failure, is told to the page whether the watch is on or not
AnswerReading(a) ==
    /\ a.what = "reading"
    /\ asks' = asks \ {a}
    /\ watches' = IF watches[a.watch].cleared THEN [watches EXCEPT ![a.watch].late = @ - 1] ELSE watches
    /\ UNCHANGED <<device, timeout, crossed, otherVars>>

\* getTimeout answered: too short a timeout is set anew; a missing frequency
\* compares with nothing
AnswerTimeout(a) ==
    /\ a.what = "getTimeout"
    /\ LET frequency == watches[a.watch].frequency
           short     == frequency # NoFrequency /\ timeout < frequency + Margin
       IN  asks' = (asks \ {a}) \cup
                      (IF short THEN {[what |-> "setTimeout", watch |-> a.watch, to |-> frequency + Margin]}
                       ELSE {})
    /\ UNCHANGED <<device, sensorVars, otherVars>>

\* The native side sets the timeout
SetTimeout(a) ==
    /\ a.what = "setTimeout"
    /\ asks' = asks \ {a}
    /\ timeout' = a.to
    /\ UNCHANGED <<device, watches, crossed, otherVars>>

-----------------------------------------------------------------------------
(* Geolocation                                                               *)

geoRest == <<device, sensorVars, contact>>

Ids == 1..MaxWatches

Global == 0    \* "global", the listener of getCurrentPosition

Asked(id) == \E a \in asks : a.what = "position" /\ a.id = id

\* getCurrentPosition: one at a time, else the page is told TIMEOUT
GetCurrentPosition ==
    /\ device = "geolocation"
    /\ IF Global \in listeners
       THEN geo' = [geo EXCEPT !.refused = TRUE] /\ UNCHANGED <<listeners, asks>>
       ELSE /\ listeners' = listeners \cup {Global}
            /\ asks' = asks \cup {[what |-> "position", id |-> Global]}
            /\ UNCHANGED geo
    /\ UNCHANGED geoRest

WatchPosition(id) ==
    /\ device = "geolocation"
    /\ id \notin listeners /\ ~Asked(id)
    /\ listeners' = listeners \cup {id}
    /\ asks' = asks \cup {[what |-> "position", id |-> id]}
    /\ UNCHANGED <<geo, geoRest>>

\* success(id, ...): the listener hears of the position, or that there is none
\* in it; "global" is forgotten after its callback, which is refused another
\* position when it asks for one
Success(a, again) ==
    /\ a.what = "position"
    /\ listeners' = IF a.id = Global THEN listeners \ {Global} ELSE listeners
    /\ asks' = IF a.id = Global THEN asks \ {a} ELSE asks
    /\ geo' = [geo EXCEPT !.refused = @ \/ (again /\ Global \in listeners)]
    /\ UNCHANGED geoRest

\* fail(id, ...): the listener stays, "global" too
GeoFail(a) ==
    /\ a.what = "position"
    /\ asks' = IF a.id = Global THEN asks \ {a} ELSE asks
    /\ geo' = [geo EXCEPT !.failed = @ \/ a.id = Global]
    /\ UNCHANGED <<listeners, geoRest>>

\* clearWatch: the native side is told to stop, and the listener deleted
ClearPosition(id) ==
    /\ device = "geolocation" /\ id \in listeners \cap Ids
    /\ listeners' = listeners \ {id}
    /\ asks' = asks \cup {[what |-> "stop", id |-> id]}
    /\ UNCHANGED <<geo, geoRest>>

Stop(a) ==
    /\ a.what = "stop"
    /\ asks' = {b \in asks : b # a /\ ~(b.what = "position" /\ b.id = a.id)}
    /\ UNCHANGED <<listeners, geo, geoRest>>

-----------------------------------------------------------------------------
(* A contact.  Each of its lists is absent, or its members have ids or none  *)

Fields == {"phoneNumbers", "emails", "addresses", "ims", "organizations", "photos", "urls", "categories"}

\* The lists whose ids clone clears; a contact has no tags, it has categories
Cleared == {"phoneNumbers", "emails", "addresses", "ims", "organizations", "tags", "photos", "urls"}

contactRest == <<device, sensorVars, listeners, geo>>

Clone(c) ==
    [c EXCEPT !.state = "clone", !.id = "null",
              !.fields = [f \in Fields |-> IF @[f] # "absent" /\ f \in Cleared THEN "no ids" ELSE @[f]]]

CloneContact ==
    /\ device = "contact"
    /\ contact' = Clone(contact)
    /\ UNCHANGED <<asks, contactRest>>

\* remove without an id is an error at once; save always asks.  One of each is
\* under way at a time
RemoveContact ==
    /\ device = "contact"
    /\ IF contact.id = "null" THEN contact' = [contact EXCEPT !.state = "UNKNOWN_ERROR"] /\ UNCHANGED asks
       ELSE asks' = asks \cup {[what |-> "remove"]} /\ UNCHANGED contact
    /\ UNCHANGED contactRest

SaveContact ==
    /\ device = "contact"
    /\ asks' = asks \cup {[what |-> "save"]}
    /\ UNCHANGED <<contact, contactRest>>

\* cast and create: a saved contact comes back as a new Contact with its ids
AnswerContact(a) ==
    /\ a.what \in {"save", "remove"}
    /\ asks' = asks \ {a}
    /\ contact' = IF a.what = "remove" THEN contact
                  ELSE [contact EXCEPT !.state = "saved", !.id = "an id",
                           !.fields = [f \in Fields |-> IF @[f] = "absent" THEN "absent" ELSE "ids"]]
    /\ UNCHANGED contactRest

-----------------------------------------------------------------------------
Init ==
    /\ device \in Sensors \cup {"geolocation", "contact"}
    /\ asks = {} /\ watches = [w \in {} |-> New(NoFrequency)]
    /\ timeout = FirstTimeout /\ crossed = FALSE
    /\ listeners = {} /\ geo = [refused |-> FALSE, failed |-> FALSE]
    /\ \E present \in SUBSET Fields :
          /\ device # "contact" => present = {}
          /\ contact = [state |-> "new", id |-> "null",
                        fields |-> [f \in Fields |-> IF f \in present THEN "no ids" ELSE "absent"]]

Next ==
    \/ \E frequency \in Frequencies : WatchAcceleration(frequency) \/ WatchHeading(frequency)
    \/ \E w \in DOMAIN watches : Tick(w) \/ ClearAcceleration(w) \/ ClearHeading(w)
    \/ GetCurrentPosition
    \/ \E id \in Ids : WatchPosition(id) \/ ClearPosition(id)
    \/ CloneContact \/ RemoveContact \/ SaveContact
    \/ \E a \in asks :
          \/ AnswerReading(a) \/ AnswerTimeout(a) \/ SetTimeout(a)
          \/ GeoFail(a) \/ Stop(a) \/ AnswerContact(a)
          \/ \E again \in BOOLEAN : Success(a, again)

Spec == Init /\ [][Next]_vars

-----------------------------------------------------------------------------
(* Properties                                                                *)

\* The native timeout outlasts every watch's interval as soon as nothing is
\* asked about it, unless two watches asked at the same time
TimeoutCovers ==
    ~crossed /\ AboutTimeout = {} =>
        \A w \in DOMAIN watches :
            watches[w].frequency = NoFrequency \/ timeout >= watches[w].frequency + Margin

\* A cleared watch gives no reading but those asked for before
ClearedIsQuiet == \A w \in DOMAIN watches : watches[w].late >= 0

\* A position is waited for only while the native side has to answer, unless
\* one failed: fail() never forgets the listener
PositionFreed == Global \in listeners => Asked(Global) \/ geo.failed

\* A clone has no id, nor have its lists, but for the categories
CloneForgetsIds ==
    contact.state = "clone" =>
        contact.id = "null" /\ \A f \in Fields \ {"categories"} : contact.fields[f] # "ids"

=============================================================================

------------------------------ MODULE PageParts ------------------------------
(* The parts of the page's script libraries whose methods call no function   *)
(* that calls itself, and the app's plugin, side by side: a behaviour is one *)
(* of one part, and the others stay as they began.  PageScripts adds the     *)
(* remaining parts; what is proved of this specification holds there.        *)
EXTENDS Integers, Sequences, FiniteSets

CONSTANTS
    MaxReads,                                               \* PhoneGapReader
    MaxSize, MaxWrites,                                     \* PhoneGapFiles
    Keys, Values, MaxTxs, MaxQueries,                       \* PhoneGapStorage
    Frequencies, Margin, FirstTimeout, MaxWatches, MaxAsks, \* PhoneGapDevices
    MaxRequests, DataTypes, ContentTypes,                   \* JQueryAjax
    Paths, Layouts, Places, MaxGestures,                    \* JQueryMobileTouch
    CallbackIds, MaxBroadcasts                              \* ConnectionPlugin

VARIABLES
    part,                                               \* the part of this behaviour
    asks, tangled,                                      \* PhoneGap's
    reader, reads,
    writer, size, writes, entry, told,
    droid, storage, length, loaded, table, lost, missing,
    device, watches, timeout, crossed, listeners, geo, contact,
    ajax,                                               \* jQuery's
    touch,                                              \* jQuery Mobile's
    plugin                                              \* ConnectionPlugin's

Reader  == INSTANCE PhoneGapReader
Files   == INSTANCE PhoneGapFiles
Storage == INSTANCE PhoneGapStorage
Devices == INSTANCE PhoneGapDevices
Ajax    == INSTANCE JQueryAjax
Touch   == INSTANCE JQueryMobileTouch
Plugin  == INSTANCE ConnectionPlugin

\* A file has a length, times are whole, a table has so many rows, a page has
\* so many elements and events reach only them, and no call of the page has the
\* callback id that says there is none
ASSUME SizeAssumption == MaxSize \in Nat
ASSUME KeysAssumption == IsFiniteSet(Keys)
ASSUME TimesAssumption ==
    /\ Frequencies \subseteq Nat /\ Margin \in Nat /\ FirstTimeout \in Nat
    /\ MaxWatches \in Nat
ASSUME PathsAssumption ==
    /\ IsFiniteSet(Touch!Nodes) /\ \A e \in Touch!Nodes : Paths[e] \subseteq Touch!Nodes
    /\ MaxGestures \in Nat
ASSUME CallbacksAssumption == Plugin!None \notin CallbackIds

readerVars  == <<reader, reads>>
filesVars   == <<writer, size, writes, entry, told>>
storageVars == <<droid, storage, length, loaded, table, lost, missing>>
devicesVars == <<device, watches, timeout, crossed, listeners, geo, contact>>

\* asks and tangled are of the part at hand
waiting == <<asks, tangled>>

phoneGapVars == <<waiting, readerVars, filesVars, storageVars, devicesVars>>

partsVars == <<part, phoneGapVars, ajax, touch, plugin>>

Parts == {"digest", "text", "xml", "bridge", "reader", "files", "storage", "devices",
          "deferred", "ajax", "effects", "events", "mobile", "touch", "plugin"}

PartsInit ==
    /\ part \in Parts
    /\ Reader!Init
    /\ Files!Init /\ (part # "files" => size = 0)
    /\ Storage!Init /\ (part # "storage" => table = storage)
    /\ Devices!Init /\ (part # "devices" => device = "compass")
    /\ Ajax!Init
    /\ Touch!Init /\ (part # "touch" => touch.layout = CHOOSE layout \in Layouts : TRUE)
    /\ Plugin!Init

StepOfPhoneGap ==
    \/ part = "reader" /\ Reader!Next /\ UNCHANGED <<filesVars, storageVars, devicesVars>>
    \/ part = "files" /\ Files!Next /\ UNCHANGED <<readerVars, storageVars, devicesVars>>
    \/ part = "storage" /\ Storage!Next /\ UNCHANGED <<waiting, readerVars, filesVars, devicesVars>>
    \/ part = "devices" /\ Devices!Next /\ UNCHANGED <<tangled, readerVars, filesVars, storageVars>>

PartsNext ==
    /\ UNCHANGED part
    /\ \/ StepOfPhoneGap /\ UNCHANGED <<ajax, touch, plugin>>
       \/ part = "ajax" /\ Ajax!Next /\ UNCHANGED <<phoneGapVars, touch, plugin>>
       \/ part = "touch" /\ Touch!Next /\ UNCHANGED <<phoneGapVars, ajax, plugin>>
       \/ part = "plugin" /\ Plugin!Next /\ UNCHANGED <<phoneGapVars, ajax, touch>>

PartsSpec == PartsInit /\ [][PartsNext]_partsVars

-----------------------------------------------------------------------------
(* Properties: each is stated in the module of its part                      *)

\* A read ends once, and a writer knows the length of its file
FilesRight ==
    /\ part = "reader" => Reader!ReadsEndOnce
    /\ part = "files" => Files!WriterKnowsFile

\* A transaction is told once how it ended, and localStorage's copy is what
\* the table becomes
StorageRight == part = "storage" => Storage!TransactionsSettle /\ Storage!StorageAgrees

\* Watches are in time and end when cleared, a position is waited for only
\* while it may come, and a clone has no ids; the plugin tells one call of
\* each change of connectivity
DevicesRight ==
    /\ part = "devices" =>
          /\ Devices!TimeoutCovers
          /\ Devices!ClearedIsQuiet
          /\ Devices!PositionFreed
          /\ Devices!CloneForgetsIds
    /\ part = "plugin" => Plugin!OneListens /\ Plugin!RefusedHearsNothing

\* A request of ajax ends once, tells so, and is counted while it is under way
AjaxSettles == part = "ajax" => Ajax!AjaxSettles

\* A touch that the browser tells of twice is one click, what it prevented is
\* not followed, and taps end
TouchRight == part = "touch" => Touch!VClickOnce /\ Touch!PreventedIsBlocked /\ Touch!TapsEnd

=============================================================================

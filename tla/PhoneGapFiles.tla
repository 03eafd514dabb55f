---------------------------- MODULE PhoneGapFiles ----------------------------
(* The files of lib/phonegap.js: a FileWriter, the file it writes, and the   *)
(* entries of a file system that the native side's answers are cast to.      *)
(*                                                                           *)
(* The native side is asked through exec (module PhoneGap) and answers each  *)
(* question once, in any order; what is asked waits in asks.                 *)
EXTENDS Integers, FiniteSets, Sequences, FiniteSetsExt

CONSTANTS
    MaxSize,    \* the longest file
    MaxWrites   \* the writes, truncations and writers of the page

VARIABLES
    writer,     \* readyState, position, length and error of the FileWriter
    asks,       \* the questions under way
    size,       \* the length of the file on the device
    writes,     \* how many operations on the writer were begun
    tangled,    \* a write was given up, or a writer replaced in a write
    entry,      \* the last answer of the file system, as the page got it
    told        \* what the callbacks of createWriter and requestFileSystem got

vars == <<writer, asks, size, writes, tangled, entry, told>>

None == "none"
Sizes == 0..MaxSize

writerVars == <<writer, writes, size>>

-----------------------------------------------------------------------------
(* FileWriter                                                                *)

\* FileWriter(file), at the beginning of a file of the given length
NewWriter(length) == [state |-> "INIT", position |-> 0, length |-> length, error |-> None]

Writing == {a \in asks : a.what \in {"write", "truncate"}}

Begin(a) ==
    /\ writes < MaxWrites
    /\ writer.state \notin {None, "WRITING"}        \* else INVALID_STATE_ERR is thrown
    /\ writer' = [writer EXCEPT !.state = "WRITING"]
    /\ asks' = asks \cup {a}
    /\ writes' = writes + 1
    /\ UNCHANGED <<tangled, size, entry, told>>

\* write(text), of so many bytes
Write(bytes) ==
    /\ writer.position + bytes <= MaxSize
    /\ Begin([what |-> "write", at |-> writer.position, bytes |-> bytes, n |-> writes])

Truncate(length) == Begin([what |-> "truncate", length |-> length, n |-> writes])

\* Mutant of Seek: the end of the file is no bound.
Seek_PastEnd(offset) ==
    /\ writer.state \notin {None, "WRITING"} /\ offset # 0
    /\ writer' = [writer EXCEPT !.position = IF offset < 0 THEN Max({offset + writer.length, 0}) ELSE offset]
    /\ UNCHANGED <<asks, size, writes, tangled, entry, told>>

\* seek(offset); seek(0) does nothing
Seek(offset) ==
    /\ writer.state \notin {None, "WRITING"} /\ offset # 0
    /\ writer' = [writer EXCEPT !.position =
                     IF offset < 0 THEN Max({offset + writer.length, 0})
                     ELSE Min({offset, writer.length})]
    /\ UNCHANGED <<asks, size, writes, tangled, entry, told>>

\* abort throws but in a write; the device still carries the write out
AbortWriter ==
    /\ writer.state = "WRITING"
    /\ writer' = [writer EXCEPT !.state = "DONE", !.error = "undefined"]
    /\ tangled' = TRUE
    /\ UNCHANGED <<asks, size, writes, entry, told>>

\* A write ends the file where it ends itself, and truncate only shortens it
Carried(a) ==
    IF a.what = "write" THEN a.at + a.bytes ELSE Min({a.length, size})

\* The success callbacks of write and truncate
Written(a) ==
    IF writer.state = "DONE" THEN UNCHANGED writer
    ELSE writer' = IF a.what = "write"
                   THEN [writer EXCEPT !.state = "DONE", !.position = @ + a.bytes,
                                       !.length = writer.position + a.bytes]
                   ELSE [writer EXCEPT !.state = "DONE", !.length = Carried(a),
                                       !.position = Min({@, Carried(a)})]

\* Their error callbacks
WriteFailed ==
    writer' = IF writer.state = "DONE" THEN writer
              ELSE [writer EXCEPT !.state = "DONE", !.error = "NO_MODIFICATION_ALLOWED_ERR"]

AnswerWrite(a) ==
    /\ a.what \in {"write", "truncate"}
    /\ asks' = asks \ {a}
    /\ \/ Written(a) /\ size' = Carried(a)
       \/ WriteFailed /\ UNCHANGED size
    /\ UNCHANGED <<writes, tangled, entry, told>>

-----------------------------------------------------------------------------
(* Entries and the file system                                               *)

\* The methods that hand their arguments to the plugin File, after fullPath
DirectoryActions == {"readEntries", "copyTo", "getMetadata", "getParent", "moveTo", "remove",
                     "getDirectory", "getFile", "removeRecursively"}

FileActions == {"copyTo", "getMetadata", "getParent", "moveTo", "remove", "getFileMetadata"}

\* FileMgr's, which reader and writer use too
ManagerActions == {"getFileProperties", "testSaveLocationExists", "testFileExists",
                   "testDirectoryExists", "getFreeDiskSpace"}

\* Answers, by how they are cast to the page's objects
Answers == [isDirectory : BOOLEAN, isFile : BOOLEAN, named : BOOLEAN]

\* _createEntry and _castEntry: the kind of object made; a null entry throws
CreateEntry(answer) ==
    IF answer.isDirectory THEN "DirectoryEntry"
    ELSE IF answer.isFile THEN "FileEntry" ELSE "TypeError"

\* _castFS: the root is a directory whatever it says
CastFS(answer) == "DirectoryEntry"

\* _castDate: Metadata with a date, or a File
CastDate(wanted) == IF wanted = "file" THEN "File" ELSE "Metadata"

\* The object the success callback gets, by what was asked for
Cast(wanted, answer) ==
    CASE wanted = "file system" -> CastFS(answer)
      [] wanted = "value" -> "value"
      [] wanted = "entry" -> CreateEntry(answer)
      [] OTHER -> CastDate(wanted)

Wanted(action) ==
    CASE action = "getMetadata" -> "metadata"
      [] action = "getFileMetadata" -> "file"
      [] action = "requestFileSystem" -> "file system"
      [] action \in {"remove", "removeRecursively"} \cup ManagerActions -> "value"
      [] OTHER -> "entry"

\* Any action of the entry at hand, or requestFileSystem with a known type
AskEntry(action) ==
    /\ \/ action = "requestFileSystem"
       \/ entry = "DirectoryEntry" /\ action \in DirectoryActions
       \/ entry = "FileEntry" /\ action \in FileActions
       \/ action \in ManagerActions \cup {"resolveLocalFileSystemURI"}
    /\ asks = {}
    /\ asks' = {[what |-> "entry", wanted |-> Wanted(action)]}
    /\ UNCHANGED <<writerVars, tangled, entry, told>>

\* An error leaves the page what it had
AnswerEntry(a, answer) ==
    /\ a.what = "entry"
    /\ asks' = asks \ {a}
    /\ entry' \in {entry, Cast(a.wanted, answer)}
    /\ UNCHANGED <<writerVars, tangled, told>>

\* requestFileSystem with another type
BadFileSystem ==
    /\ told' = [told EXCEPT !.errors = "SYNTAX_ERR"]
    /\ UNCHANGED <<writerVars, asks, tangled, entry>>

\* createWriter: file(), then a writer for what it told; a nameless file is
\* an error and still makes a writer
CreateWriter ==
    /\ entry = "FileEntry" /\ writes < MaxWrites
    /\ ~\E a \in asks : a.what = "createWriter"
    /\ asks' = asks \cup {[what |-> "createWriter"]}
    /\ writes' = writes + 1
    /\ UNCHANGED <<writer, size, tangled, entry, told>>

AnswerCreate(a, named) ==
    /\ a.what = "createWriter"
    /\ asks' = asks \ {a}
    /\ writer' = NewWriter(size)
    /\ told' = IF named THEN [told EXCEPT !.writers = 1]
               ELSE [errors |-> "INVALID_STATE_ERR", writers |-> 1]
    /\ tangled' = (Writing # {})
    /\ UNCHANGED <<size, writes, entry>>

CreateFailed(a) ==
    /\ a.what = "createWriter"
    /\ asks' = asks \ {a}
    /\ UNCHANGED <<writerVars, tangled, entry, told>>

-----------------------------------------------------------------------------
Init ==
    /\ writer = [state |-> None, position |-> 0, length |-> 0, error |-> None]
    /\ asks = {} /\ writes = 0 /\ tangled = FALSE
    /\ size \in Sizes
    /\ entry = "none" /\ told = [errors |-> None, writers |-> 0]

Next ==
    \/ AbortWriter \/ CreateWriter \/ BadFileSystem
    \/ \E n \in Sizes : Write(n) \/ Truncate(n)
    \/ \E offset \in -MaxSize..MaxSize + 1 : Seek(offset)
    \/ \E action \in DirectoryActions \cup FileActions \cup ManagerActions
                         \cup {"requestFileSystem", "resolveLocalFileSystemURI"} :
          AskEntry(action)
    \/ \E a \in asks :
          \/ AnswerWrite(a) \/ CreateFailed(a)
          \/ \E answer \in Answers : AnswerEntry(a, answer)
          \/ \E named \in BOOLEAN : AnswerCreate(a, named)

Spec == Init /\ [][Next]_vars

-----------------------------------------------------------------------------
(* Properties                                                                *)

\* While nothing is written and no write was given up, the writer's length is
\* the file's, and its position is within
WriterKnowsFile ==
    ~tangled /\ writer.state # None /\ Writing = {} =>
        writer.length = size /\ writer.position <= size

=============================================================================

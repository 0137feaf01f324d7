------------------------------- MODULE Existence -------------------------------
(***************************************************************************)
(* FileExists, DirectoryExists and CreateDirectory of one name d, over     *)
(* od_stat, od_dir_exists (opendal/src/stat.rs) and od_create_dir          *)
(* (mutate.rs), while other programs write and delete d, d/ and what is    *)
(* below.  An object store has keys only, and a directory is a prefix that *)
(* some key has; a file system has real directories.                       *)
(*                                                                         *)
(* d is a name that ParseUrl accepts.  Of a URL that it refuses, which     *)
(* names nothing any service has, FileExists and DirectoryExists answer    *)
(* false and CreateDirectory throws, without a call to a service.          *)
(***************************************************************************)
EXTENDS Naturals

VARIABLES
  flat,     \* whether the service is an object store
  lists,    \* whether it can list
  file,     \* whether the file d exists
  marker,   \* whether the directory d/ exists itself, as a key of its own if flat
  child,    \* whether anything below d/ exists
  call,     \* the call in progress, or the last one
  step,     \* the service call it waits for
  answer,   \* what it has answered
  held      \* history: what has been true at some moment of the call

service == <<flat, lists>>
objects == <<file, marker, child>>
existenceVars == <<service, objects, call, step, answer, held>>

ExistenceCalls == {"FileExists", "DirectoryExists", "CreateDirectory"}
Answers == {"none", "yes", "no", "error"}
Facts == {"file", "no file", "directory", "no directory"}

IsDirectory == marker \/ child
Now == {IF file THEN "file" ELSE "no file", IF IsDirectory THEN "directory" ELSE "no directory"}

\* A file system has either a file or a directory of a name, and directories above its files.
Legal == flat \/ ((file => ~marker) /\ (child => marker))

ExistenceTypeOK ==
  /\ flat \in BOOLEAN /\ lists \in BOOLEAN
  /\ file \in BOOLEAN /\ marker \in BOOLEAN /\ child \in BOOLEAN /\ Legal
  /\ call \in ExistenceCalls /\ step \in {"idle", "stat", "probe", "create"} /\ answer \in Answers
  /\ held \subseteq Facts /\ (step # "idle" => Now \subseteq held)
  /\ step = "idle" <=> answer # "none"

ExistenceInit ==
  /\ flat \in BOOLEAN /\ lists \in BOOLEAN
  /\ file \in BOOLEAN /\ marker \in BOOLEAN /\ child \in BOOLEAN /\ Legal
  /\ call \in ExistenceCalls /\ step = "idle" /\ answer = "error" /\ held = Now

\* Another program creates or deletes something.
Others ==
  /\ \E f, m, c \in BOOLEAN : file' = f /\ marker' = m /\ child' = c
  /\ UNCHANGED <<service, call, step, answer>>
  /\ Legal' /\ held' = IF step = "idle" THEN held ELSE held \cup Now'

Begin(c) ==
  /\ step = "idle"
  /\ call' = c /\ answer' = "none"
  /\ step' = IF c = "CreateDirectory" THEN "create" ELSE "stat"
  /\ held' = Now
  /\ UNCHANGED <<service, objects>>

Answered(a) ==
  /\ step' = "idle" /\ answer' = a
  /\ UNCHANGED <<service, objects, call, held>>

\* An operator or a capability that is refused, or a service call that fails.
Fails == step # "idle" /\ Answered("error")

--------------------------------------------------------------------------------
\* The stat of the service, which on an object store knows only keys.
Stat == IF file THEN "file" ELSE IF marker /\ ~flat THEN "directory" ELSE "NotFound"

FileExists ==
  /\ step = "stat" /\ call = "FileExists"
  /\ Answered(IF Stat = "file" THEN "yes" ELSE "no")

\* Mutant: what stat does not find does not exist.
DirectoryStat_only ==
  /\ step = "stat" /\ call = "DirectoryExists"
  /\ Answered(IF Stat = "directory" THEN "yes" ELSE "no")

\* od_dir_exists: stat answers for what it finds; otherwise a listing of the prefix must.
DirectoryStat ==
  /\ step = "stat" /\ call = "DirectoryExists"
  /\ \/ Stat = "directory" /\ Answered("yes")
     \/ Stat = "file" /\ Answered("no")
     \/ Stat = "NotFound" /\ ~lists /\ Answered("no")
     \/ /\ Stat = "NotFound" /\ lists
        /\ step' = "probe"
        /\ UNCHANGED <<service, objects, call, held, answer>>

DirectoryProbe ==
  /\ step = "probe"
  /\ Answered(IF IsDirectory THEN "yes" ELSE "no")

\* Fails if the answer is lost, and on a file system where a file is in the way.
CreateDirectory ==
  /\ step = "create"
  /\ flat \/ ~file
  /\ marker' = TRUE
  /\ UNCHANGED <<service, file, child, call>>
  /\ held' = held \cup Now'
  /\ step' = "idle" /\ answer' \in {"yes", "error"}

Step == Fails \/ FileExists \/ DirectoryStat \/ DirectoryProbe \/ CreateDirectory

ExistenceNext == Others \/ Step \/ \E c \in ExistenceCalls : Begin(c)

ExistenceSpec == ExistenceInit /\ [][ExistenceNext]_existenceVars

--------------------------------------------------------------------------------
(***************************************************************************)
(* Properties.                                                             *)
(***************************************************************************)
\* A yes was true at some moment of the call, although stat and the listing are two calls between
\* which everything may change: a directory there is, or the file, or what has been created.
YesHasHeld ==
  answer = "yes" => (IF call = "FileExists" THEN "file" ELSE "directory") \in held

\* A no was true at some moment of the call, or, for a directory, a file had the name; only where
\* nothing can be listed a prefix is overlooked.
NoHasHeld ==
  answer = "no" =>
    CASE call = "FileExists" -> "no file" \in held
      [] call = "DirectoryExists" -> ~lists \/ held \cap {"no directory", "file"} # {}

\* Both: no answer is made up of moments that never were together, whatever others do in between.
AnswersHaveHeld == YesHasHeld /\ NoHasHeld
================================================================================

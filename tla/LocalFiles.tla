------------------------------- MODULE LocalFiles -------------------------------
(***************************************************************************)
(* The agent's files under /data/config (agent/local_config.py): the list  *)
(* of cameras, the list of devices, and a file per camera and device with  *)
(* what the cloud configured, besides the dry reference pictures.  They    *)
(* are changed by the requests of the cloud (config_receiver.py), by the   *)
(* agent's own page (web/app.py) and by the registration with the cloud.   *)
(*                                                                         *)
(* A handler does not await between the read of a list and its write, so   *)
(* handlers do not mix; but the process may end and the disk be full at    *)
(* any step, and a file may be damaged.  A file is a set of facts.  The    *)
(* temporary file is never read, so it is not a state of its own; pushes   *)
(* that fail the validation change nothing and are left out.               *)
(***************************************************************************)
EXTENDS Naturals, Sequences, FiniteSets

CONSTANTS
  Cams, Devs,  \* identifiers of cameras and devices, each used once
  Pushed,      \* configurations the cloud may push
  MaxMishaps   \* bound on crashes and full disks

ASSUME LocalFilesAssumption == Cams \cap Devs = {} /\ MaxMishaps \in Nat

VARIABLES
  disk,     \* each file and its .bak
  pictures, \* the dry references of each camera: none, some or all of a set
  plan,     \* what the handler under way has still to do
  at,       \* how far the first of it is
  writing,  \* the content being written
  expected, \* what a read of each file may find
  earlier,  \* what it held before the last write
  added,    \* items ever added
  mishaps, damaged

localFileVars ==
  <<disk, pictures, plan, at, writing, expected, earlier, added, mishaps, damaged>>

Things == Cams \cup Devs
Listing(i) == IF i \in Cams THEN "cameras" ELSE "devices"
Paths == {"cameras", "devices"} \cup Things
Marks == {"here", "linked", "configured", "changed"}
Facts == (Things \X Marks) \cup (Pushed \X {"config", "incident"})
NoFile == [is |-> "none", facts |-> {}]
Torn == [is |-> "torn", facts |-> {}]
Whole(facts) == [is |-> "whole", facts |-> facts]

LocalFilesTypeOK ==
  /\ \A p \in Paths, k \in {"main", "bak"} :
       disk[p][k].is \in {"none", "torn", "whole"} /\ disk[p][k].facts \subseteq Facts
  /\ pictures \in [Cams -> {"none", "some", "all"}]
  /\ at \in {"next", "backup", "copying", "temp"} /\ (plan = <<>> => at = "next")
  /\ writing \subseteq Facts /\ added \subseteq Things
  /\ mishaps \in 0 .. MaxMishaps /\ damaged \in BOOLEAN

LocalFilesInit ==
  /\ disk = [p \in Paths |-> [main |-> NoFile, bak |-> NoFile]]
  /\ pictures = [c \in Cams |-> "none"]
  /\ plan = <<>> /\ at = "next" /\ writing = {}
  /\ expected = [p \in Paths |-> {NoFile}] /\ earlier = [p \in Paths |-> {NoFile}]
  /\ added = {} /\ mishaps = 0 /\ damaged = FALSE

\* _read_json: the file, its backup if it is damaged, else as if it had never been
Found(p) ==
  CASE disk[p].main.is # "torn" -> disk[p].main
    [] disk[p].main.is = "torn" /\ disk[p].bak.is = "whole" -> disk[p].bak
    [] OTHER -> NoFile
Listed(i) == <<i, "here">> \in Found(Listing(i)).facts

-------------------------------------------------------------------------------
(* What the handlers set out to do *)

Put(p, facts) == [do |-> "put", path |-> p, facts |-> facts]
Add(i) == [do |-> "add", path |-> Listing(i), facts |-> {<<i, "here">>}]
Mark(i, fact) == [do |-> "mark", path |-> Listing(i), facts |-> {<<i, fact>>}]
Drop(i) == [do |-> "drop", path |-> Listing(i), facts |-> {i} \X Marks]
Pictures(c, how) == [do |-> how, path |-> c, facts |-> {}]

Handle(steps) ==
  /\ plan = <<>> /\ plan' = steps
  /\ UNCHANGED <<disk, pictures, at, writing, expected, earlier, mishaps, damaged>>
New(i) == i \notin added /\ added' = added \cup {i}
Known(i) == i \in added /\ UNCHANGED added

\* On the page, or at the first start for the cameras of CAMERA_URLS
AddLocalCamera(c) == New(c) /\ Handle(<<Add(c)>>)
AddLocalDevice(d) == New(d) /\ Handle(<<Add(d)>>)
\* Told by the cloud: two writes
AddCameraFromCloud(c) == New(c) /\ Handle(<<Add(c), Mark(c, "linked")>>)
AddDeviceFromCloud(d) == New(d) /\ Handle(<<Add(d), Mark(d, "linked")>>)
\* The registration with the cloud was answered; the item may be gone by then
LinkThing(i) == Known(i) /\ Handle(<<Mark(i, "linked")>>)
\* The camera was tried out; a device was edited on the page or in the cloud
TestCamera(c) == Known(c) /\ Handle(<<Mark(c, "changed")>>)
UpdateDevice(d) == Known(d) /\ Handle(<<Mark(d, "changed")>>)
RemoveLocalCamera(c) == Known(c) /\ Handle(<<Drop(c)>>)
RemoveLocalDevice(d) == Known(d) /\ Handle(<<Drop(d)>>)
\* The pictures first, if there are any; then the configuration, which is written
\* once more with the incident settings; and the camera is marked.  The files have the
\* name of the camera in the cloud: a camera that is removed keeps them.
SavePictures(c) == <<Pictures(c, "clear"), Pictures(c, "begin"), Pictures(c, "end")>>
ReceiveCameraConfig(c, n, withPictures, withIncident) ==
  Known(c) /\
  Handle((IF withPictures THEN SavePictures(c) ELSE <<>>)
         \o <<Put(c, {<<n, "config">>})>>
         \o (IF withIncident THEN <<Put(c, {n} \X {"config", "incident"})>> ELSE <<>>)
         \o <<Mark(c, "configured")>>)
ReceiveDeviceConfig(d, n) ==
  Known(d) /\ Listed(d) /\ Handle(<<Put(d, {<<n, "config">>})>>)

-------------------------------------------------------------------------------
(* _read_json and _write_json *)

Todo == Head(plan)
Path == Todo.path
Proceed == plan' = Tail(plan) /\ at' = "next"
Rewrites == {"add", "mark", "drop"}  \* steps that read the file first
Rewritten == plan # <<>> /\ at = "next" /\ Todo.do \in Rewrites
Restorable(p) == disk[p].main.is = "torn" /\ disk[p].bak.is = "whole"
\* A list is not written when the item is not in it; a configured camera is looked up
\* by its link
Applies ==
  \A f \in Todo.facts :
    CASE Todo.do = "add" -> TRUE
      [] Todo.do = "mark" /\ f[2] = "configured" -> <<f[1], "linked">> \in Found(Path).facts
      [] OTHER -> Listed(f[1])

\* A damaged file is replaced by its backup before it is changed
Restore ==
  /\ Rewritten /\ Restorable(Path)
  /\ disk' = [disk EXCEPT ![Path].main = disk[Path].bak]
  /\ UNCHANGED <<pictures, plan, at, writing, expected, earlier, added, mishaps, damaged>>
NothingToWrite ==
  /\ Rewritten /\ ~Restorable(Path) /\ ~Applies
  /\ Proceed
  /\ UNCHANGED <<disk, pictures, writing, expected, earlier, added, mishaps, damaged>>

Content ==
  CASE Todo.do = "put" -> Todo.facts
    [] Todo.do = "drop" -> Found(Path).facts \ Todo.facts
    [] OTHER -> Found(Path).facts \cup Todo.facts
BeginWrite ==
  /\ \/ plan # <<>> /\ at = "next" /\ Todo.do = "put"
     \/ Rewritten /\ ~Restorable(Path) /\ Applies
  /\ writing' = Content /\ at' = "backup"
  /\ expected' = [expected EXCEPT ![Path] = {Found(Path), Whole(Content)}]
  /\ UNCHANGED <<disk, pictures, plan, earlier, added, mishaps, damaged>>
\* (mutant) the file is moved to its backup
BeginBackup_Moved ==
  /\ at = "backup"
  /\ disk' = [disk EXCEPT ![Path] = [main |-> NoFile, bak |-> disk[Path].main]]
  /\ at' = "temp"
  /\ UNCHANGED <<pictures, plan, writing, expected, earlier, added, mishaps, damaged>>
\* The file is copied to its backup, whatever state it is in
BeginBackup ==
  /\ at = "backup"
  /\ IF disk[Path].main.is = "none"
     THEN at' = "temp" /\ UNCHANGED disk
     ELSE at' = "copying" /\ disk' = [disk EXCEPT ![Path].bak = Torn]
  /\ UNCHANGED <<pictures, plan, writing, expected, earlier, added, mishaps, damaged>>
EndBackup ==
  /\ at = "copying"
  /\ disk' = [disk EXCEPT ![Path].bak = disk[Path].main]
  /\ at' = "temp"
  /\ UNCHANGED <<pictures, plan, writing, expected, earlier, added, mishaps, damaged>>
\* The temporary file is complete and takes the place of the file
Replace ==
  /\ at = "temp"
  /\ disk' = [disk EXCEPT ![Path].main = Whole(writing)]
  /\ earlier' = [earlier EXCEPT ![Path] = expected[Path]]
  /\ expected' = [expected EXCEPT ![Path] = {Whole(writing)}]
  /\ Proceed /\ writing' = {}
  /\ UNCHANGED <<pictures, added, mishaps, damaged>>

ChangePictures ==
  /\ plan # <<>> /\ Todo.do \in {"clear", "begin", "end"}
  /\ pictures' = [pictures EXCEPT ![Path] =
       CASE Todo.do = "clear" -> "none" [] Todo.do = "begin" -> "some" [] OTHER -> "all"]
  /\ Proceed
  /\ UNCHANGED <<disk, writing, expected, earlier, added, mishaps, damaged>>
-------------------------------------------------------------------------------
(* Mishaps *)

\* The agent ends, or the disk is full and the handler ends with an error
HandlerEnds ==
  /\ plan # <<>> /\ mishaps < MaxMishaps
  /\ mishaps' = mishaps + 1
  /\ plan' = <<>> /\ at' = "next" /\ writing' = {}
  /\ UNCHANGED <<disk, pictures, expected, earlier, added, damaged>>
DamageFile(p) ==
  /\ plan = <<>> /\ ~damaged /\ disk[p].main.is = "whole"
  /\ disk' = [disk EXCEPT ![p].main = Torn]
  /\ damaged' = TRUE
  /\ UNCHANGED <<pictures, plan, at, writing, expected, earlier, added, mishaps>>

LocalFilesNext ==
  \/ \E c \in Cams :
       \/ AddLocalCamera(c) \/ AddCameraFromCloud(c) \/ TestCamera(c) \/ RemoveLocalCamera(c)
       \/ \E n \in Pushed, w, i \in BOOLEAN : ReceiveCameraConfig(c, n, w, i)
  \/ \E d \in Devs :
       \/ AddLocalDevice(d) \/ AddDeviceFromCloud(d) \/ UpdateDevice(d) \/ RemoveLocalDevice(d)
       \/ \E n \in Pushed : ReceiveDeviceConfig(d, n)
  \/ \E i \in Things : LinkThing(i)
  \/ Restore \/ NothingToWrite \/ BeginWrite \/ BeginBackup \/ EndBackup \/ Replace
  \/ ChangePictures \/ HandlerEnds
  \/ \E p \in Paths : DamageFile(p)
LocalFilesSpec == LocalFilesInit /\ [][LocalFilesNext]_localFileVars

-------------------------------------------------------------------------------
(* Properties *)

\* "Atomically write JSON data to path with backup recovery." (local_config.py): a
\* handler that ends at any step, for whatever reason, leaves every
\* file as it was or as it was to be; and without such an end the next handler reads a
\* damaged file as it was before its last write at the worst, never as if it had not been.
FilesSurvive ==
  \A p \in Paths :
    /\ ~damaged => Found(p) \in expected[p]
    /\ plan = <<>> /\ mishaps = 0 => Found(p) \in expected[p] \cup earlier[p]
===============================================================================

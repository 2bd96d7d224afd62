------------------------------ MODULE Scanner ------------------------------
(***************************************************************************)
(* The scanner LighterTotal: request threads of app.py save an upload into *)
(* one shared directory, scan it by its path (multi.py), move what is      *)
(* malicious to quarantine and unpack archives, while a shell loop         *)
(* (cleanup_daemon.sh) empties the directory.                              *)
(*                                                                         *)
(* A file is told from the name it has: a thread that has opened a file    *)
(* writes to it wherever it was moved, also when it was removed, while the *)
(* engines open the path anew each time. Every file is created by a        *)
(* request, either as its upload or as the member it unpacks, and is named *)
(* after it. What is in a file is the set of the contents written to it:   *)
(* one, none while it is being saved, or several when two threads wrote.   *)
(***************************************************************************)
EXTENDS Naturals, FiniteSets

CONSTANTS
    Reqs,                  \* uploads
    Names,                 \* file names, of uploads and of members
    Hidden,                \* those that begin with a dot, which no upload has
    Banned,                \* those whose extension is not in ALLOWED_EXTENSIONS
    Tars, Zips,            \* those of archives
    Stuff,                 \* contents
    Big, Odd, Signed,      \* those too large, of a bad MIME type, with a signature
    Tarred, Zipped,        \* those that are a tar or a zip archive
    Uploads,               \* the names and contents that are uploaded
    Inside,                \* the name and content of an archive's member
    None

ASSUME ScannerAssumption ==
    /\ Hidden \cup Banned \cup Tars \cup Zips \subseteq Names
    /\ Tars \cap Zips = {} /\ Banned \cap (Tars \cup Zips) = {}
    /\ Big \cup Odd \cup Signed \cup Tarred \cup Zipped \subseteq Stuff
    /\ Uploads \subseteq (Names \ Hidden) \X Stuff
    /\ Inside \in [Tarred \cup Zipped -> Names \X Stuff]
    /\ \A x \in Zipped : Inside[x][1] \notin Hidden   \* _sanitize_filename
    /\ None \notin Names \cup Reqs

VARIABLES
    at,        \* where each file is
    inside,    \* what is in each file
    dirs,      \* upload/quarantine and upload/temp: there, still root's, or missing
    extract,   \* the zips whose directory temp/extract_<md5> is there
    req,       \* the requests
    daemon,    \* the cleanup loop
    touched,   \* history: requests whose path another actor changed before their verdict
    logged,    \* requests that printed "Failed to quarantine"
    old        \* history: files in sight when the loop's round began, and not moved since

vars == <<at, inside, dirs, extract, req, daemon, touched, logged, old>>

Files == Reqs \X {"upload", "member"}
Subdirs == {"quarantine", "temp"}

\* temp has a directory per zip (of); a file is renamed on its way into quarantine,
\* also from there, and its new name says how often (wraps).
Places == [dir : {"upload"} \cup Subdirs, of : Zips \cup {None}, name : Names, wraps : Nat]
Gone == [dir |-> "gone"]

Uploaded(n) == [dir |-> "upload", of |-> None, name |-> n, wraps |-> 0]
Extracted(z, n) == [dir |-> "temp", of |-> z, name |-> n, wraps |-> 0]
Quarantined(p) == [dir |-> "quarantine", of |-> None, name |-> p.name, wraps |-> p.wraps + 1]

FilesAt(p) == {f \in Files : at[f] = p}
FilesIn(d) == {f \in Files : at[f].dir = d}
PlacesIn(d) == {at[f] : f \in FilesIn(d)}

Statuses == {"CLEAN", "SUSPICIOUS", "MALICIOUS", "ERROR"}

ReqState == [pc     : {"idle", "write", "exists", "SizeGuard", "MimeTypeScanner",
                       "SignatureEngine", "quarantine", "untar", "walk", "mkdir", "unzip",
                       "check", "done"},
             name   : Names, stuff : Stuff,
             fd     : Files,              \* the file that save has open
             positives : 0 .. 2,          \* of the engines so far
             status : Statuses \cup {"none"},
             todo   : SUBSET Places,      \* of the directory being walked
             unseen : SUBSET ({"upload"} \cup Subdirs)]

DaemonState == [pc   : {"sleep", "remove", "temp", "chown"},
                todo : SUBSET (Places \cup {[rm |-> d] : d \in Subdirs} \cup {[rmdir |-> d] : d \in Subdirs})]

Init ==
    /\ at = [f \in Files |-> Gone]
    /\ inside = [f \in Files |-> {}]
    /\ dirs = [d \in Subdirs |-> "ok"]
    /\ extract = {}
    /\ \E u \in [Reqs -> Uploads] :
          req = [r \in Reqs |-> [pc |-> "idle", name |-> u[r][1], stuff |-> u[r][2],
                                 fd |-> <<r, "upload">>, positives |-> 0,
                                 status |-> "none", todo |-> {}, unseen |-> {}]]
    /\ daemon = [pc |-> "sleep", todo |-> {}]
    /\ touched = {}
    /\ logged = {}
    /\ old = {}

-----------------------------------------------------------------------------
(* Files                                                                   *)

Goto(r, label) == req' = [req EXCEPT ![r].pc = label]

\* The requests but r that are between opening the path p and their verdict on it.
Disturbed(r, p) ==
    {s \in Reqs \ {r} : req[s].pc \notin {"idle", "done"} /\ req[s].status = "none"
                        /\ Uploaded(req[s].name) = p}

\* rename(2): whatever has the name p is replaced.
Move(f, p) == at' = [g \in Files |-> IF g = f THEN p ELSE IF at[g] = p THEN Gone ELSE at[g]]

\* Mutated: the file is opened for appending, as submit_report opens a report.
OpenToAppend(f, p) ==
    IF FilesAt(p) = {} THEN /\ at' = [at EXCEPT ![f] = p]
                            /\ UNCHANGED inside
                       ELSE UNCHANGED <<at, inside>>

\* open(p, "wb") by a request that would create f.
Open(f, p) ==
    IF FilesAt(p) = {} THEN /\ at' = [at EXCEPT ![f] = p]
                            /\ UNCHANGED inside
                       ELSE /\ inside' = [g \in Files |-> IF at[g] = p THEN {} ELSE inside[g]]
                            /\ UNCHANGED at

\* A member with content x is written to p in one go.
WriteMember(f, p, x) ==
    /\ at' = IF FilesAt(p) = {} THEN [at EXCEPT ![f] = p] ELSE at
    /\ inside' = [g \in Files |-> IF at'[g] = p THEN {x} ELSE inside[g]]

\* The contents that an engine objects to.
BadFor(e) == CASE e = "SizeGuard" -> Big [] e = "MimeTypeScanner" -> Odd [] e = "SignatureEngine" -> Signed

\* Whether an engine objects to what is in a file: to nothing, only the one for MIME
\* types does, and of a mixture it may say anything.
Says(e, c) ==
    IF c = {} THEN {e = "MimeTypeScanner"}
    ELSE IF Cardinality(c) = 1 THEN {c \subseteq BadFor(e)} ELSE BOOLEAN

\* An engine that finds no file at its path takes it for a bad one.
Flagged(e, p) ==
    IF FilesAt(p) = {} THEN {TRUE} ELSE UNION {Says(e, inside[f]) : f \in FilesAt(p)}

\* The checks of an unpacked member at p, which do not look for signatures.
Refused(p) ==
    {x \/ y \/ p.name \in Banned : x \in Flagged("SizeGuard", p), y \in Flagged("MimeTypeScanner", p)}

\* _quarantine_file, of whatever is at p by now; the errors are swallowed.
Quarantine(r, p) ==
    \/ /\ FilesAt(p) = {}
       /\ UNCHANGED <<at, touched, logged, old>>
    \/ /\ FilesAt(p) # {} /\ dirs["quarantine"] = "ok"
       /\ \E f \in FilesAt(p) : Move(f, Quarantined(p)) /\ old' = old \ {f}
       /\ touched' = touched \cup Disturbed(r, p)
       /\ UNCHANGED logged
    \/ /\ FilesAt(p) # {} /\ dirs["quarantine"] # "ok"
       /\ logged' = logged \cup {r}
       /\ UNCHANGED <<at, touched, old>>

-----------------------------------------------------------------------------
(* POST /scan: saving the upload                                           *)

SaveOpen(r) ==
    LET p == Uploaded(req[r].name) IN
    /\ req[r].pc = "idle"
    /\ Open(<<r, "upload">>, p)
    /\ \E f \in Files : at'[f] = p /\ req' = [req EXCEPT ![r].pc = "write", ![r].fd = f]
    /\ touched' = touched \cup Disturbed(r, p)
    /\ UNCHANGED <<dirs, extract, daemon, logged, old>>

\* A write over a longer one leaves the end of it.
SaveWrite(r) ==
    LET f == req[r].fd IN
    /\ req[r].pc = "write"
    /\ \E c \in {{req[r].stuff}, inside[f] \cup {req[r].stuff}} :
          inside' = IF at[f] = Gone THEN inside ELSE [inside EXCEPT ![f] = c]
    /\ touched' = touched \cup Disturbed(r, at[f])
    /\ Goto(r, "exists")
    /\ UNCHANGED <<at, dirs, extract, daemon, logged, old>>

-----------------------------------------------------------------------------
(* validate_single_file                                                    *)

\* Mutated: the branches of the two bad verdicts are swapped.
OnwardSwapped(n, x) ==
    CASE x = "SUSPICIOUS" -> "quarantine"
      [] x = "CLEAN" /\ n \in Tars -> "untar"
      [] x = "CLEAN" /\ n \in Zips -> "mkdir"
      [] OTHER -> "done"

\* Where an upload of name n goes with status x: process_uploaded_files.
Onward(n, x) ==
    CASE x = "MALICIOUS" -> "quarantine"
      [] x = "CLEAN" /\ n \in Tars -> "untar"
      [] x = "CLEAN" /\ n \in Zips -> "mkdir"
      [] OTHER -> "done"

Judged(r, x) ==
    req' = [req EXCEPT ![r].status = x, ![r].positives = 0, ![r].pc = Onward(req[r].name, x)]

\* os.path.exists, getsize and the first from_file: an ERROR if one of them finds
\* no file.
Exists(r) ==
    /\ req[r].pc = "exists"
    /\ IF FilesAt(Uploaded(req[r].name)) = {} THEN Judged(r, "ERROR") ELSE Goto(r, "SizeGuard")
    /\ UNCHANGED <<at, inside, dirs, extract, daemon, touched, logged, old>>

\* One of the engines that open the file.
Engine(r, e, next) ==
    /\ req[r].pc = e
    /\ \E bad \in Flagged(e, Uploaded(req[r].name)) :
          req' = [req EXCEPT ![r].pc = next, ![r].positives = IF bad THEN @ + 1 ELSE @]
    /\ UNCHANGED <<at, inside, dirs, extract, daemon, touched, logged, old>>

SizeGuard(r) == Engine(r, "SizeGuard", "MimeTypeScanner")
MimeTypeScanner(r) == Engine(r, "MimeTypeScanner", "SignatureEngine")

\* The verdict on n positives.
Verdict(n) == IF n = 0 THEN "CLEAN" ELSE IF n <= 2 THEN "SUSPICIOUS" ELSE "MALICIOUS"

\* The last engine and the verdict. ExtensionCheck looks at the name only, and
\* PathValidator finds nothing wrong with a sanitized name; the search for
\* duplicates adds a warning.
SignatureEngine(r) ==
    /\ req[r].pc = "SignatureEngine"
    /\ \E bad \in Flagged("SignatureEngine", Uploaded(req[r].name)) :
          Judged(r, Verdict(req[r].positives + (IF bad THEN 1 ELSE 0)
                                                     + (IF req[r].name \in Banned THEN 1 ELSE 0)))
    /\ UNCHANGED <<at, inside, dirs, extract, daemon, touched, logged, old>>

QuarantineUpload(r) ==
    /\ req[r].pc = "quarantine"
    /\ Quarantine(r, Uploaded(req[r].name))
    /\ Goto(r, "done")
    /\ UNCHANGED <<inside, dirs, extract, daemon>>

-----------------------------------------------------------------------------
(* _extract_tar                                                            *)

\* What opening the archive at p as one of kind yields: members, or an error.
Members(p, kind) ==
    {Inside[x] : x \in kind \cap UNION {inside[f] : f \in FilesAt(p)}}
Unreadable(p, kind) ==
    \A f \in FilesAt(p) : Cardinality(inside[f]) # 1 \/ inside[f] \cap kind = {}

\* The member goes to upload/; an error ends the extraction quietly.
Untar(r) ==
    LET p == Uploaded(req[r].name) IN
    /\ req[r].pc = "untar"
    /\ \/ \E m \in Members(p, Tarred) :
             LET q == Uploaded(m[1]) IN
             /\ WriteMember(<<r, "member">>, q, m[2])
             /\ touched' = touched \cup Disturbed(r, q)
             /\ req' = [req EXCEPT ![r].pc = "walk", ![r].unseen = {"upload"} \cup Subdirs]
       \/ /\ Unreadable(p, Tarred)
          /\ Goto(r, "done")
          /\ UNCHANGED <<at, inside, touched>>
    /\ UNCHANGED <<dirs, extract, daemon, logged, old>>

\* The walk goes on with the files of todo, then with one of the directories unseen.
WalkOn(r, todo, unseen) ==
    req' = [req EXCEPT ![r].todo = todo, ![r].unseen = unseen,
                       ![r].pc = IF todo = {} /\ unseen = {} THEN "done" ELSE "walk"]

\* os.walk lists upload/, then each directory in it that it can.
WalkList(r) ==
    /\ req[r].pc = "walk" /\ req[r].todo = {}
    /\ \E d \in req[r].unseen :
          /\ "upload" \in req[r].unseen => d = "upload"
          /\ WalkOn(r, PlacesIn(d), req[r].unseen \ {d})
    /\ UNCHANGED <<at, inside, dirs, extract, daemon, touched, logged, old>>

\* Every file of the directory, whoever put it there, is kept or quarantined by
\* its extension, type and size.
WalkCheck(r) ==
    /\ req[r].pc = "walk"
    /\ \E p \in req[r].todo :
          /\ WalkOn(r, req[r].todo \ {p}, req[r].unseen)
          /\ \E bad \in Refused(p) :
                IF bad THEN Quarantine(r, p) ELSE UNCHANGED <<at, touched, logged, old>>
    /\ UNCHANGED <<inside, dirs, extract, daemon>>

-----------------------------------------------------------------------------
(* _extract_zip_safely: an error adds an ERROR result to the CLEAN one     *)

ZipMkdir(r) ==
    /\ req[r].pc = "mkdir"
    /\ IF dirs["temp"] = "ok" THEN /\ extract' = extract \cup {req[r].name}
                                   /\ Goto(r, "unzip")
                              ELSE /\ Goto(r, "done")
                                   /\ UNCHANGED extract
    /\ UNCHANGED <<at, inside, dirs, daemon, touched, logged, old>>

\* The member is written to the directory, if it is still there.
ZipWrite(r) ==
    LET p == Uploaded(req[r].name) IN
    /\ req[r].pc = "unzip"
    /\ \/ \E m \in Members(p, Zipped) :
             /\ req[r].name \in extract
             /\ WriteMember(<<r, "member">>, Extracted(req[r].name, m[1]), m[2])
             /\ req' = [req EXCEPT ![r].pc = "check", ![r].todo = {Extracted(req[r].name, m[1])}]
       \/ /\ Unreadable(p, Zipped) \/ req[r].name \notin extract
          /\ Goto(r, "done")
          /\ UNCHANGED <<at, inside>>
    /\ UNCHANGED <<dirs, extract, daemon, touched, logged, old>>

\* A member that fails its checks is removed again.
ZipCheck(r) ==
    /\ req[r].pc = "check"
    /\ \E p \in req[r].todo :
          \E bad \in Refused(p) :
             at' = IF bad THEN [f \in Files |-> IF at[f] = p THEN Gone ELSE at[f]] ELSE at
    /\ req' = [req EXCEPT ![r].pc = "done", ![r].todo = {}]
    /\ UNCHANGED <<inside, dirs, extract, daemon, touched, logged, old>>

\* scan_file answers by the counts of malicious and of suspicious files.
Answer(r) ==
    IF req[r].pc # "done" THEN "none"
    ELSE IF req[r].status \in {"MALICIOUS", "SUSPICIOUS"} THEN req[r].status ELSE "CLEAN"

-----------------------------------------------------------------------------
(* cleanup_daemon.sh: one round every fifteen seconds                      *)

\* What the pattern upload/* reaches: everything but a hidden member of a tar.
Visible(f) == at[f] # Gone /\ ~(at[f].dir = "upload" /\ at[f].name \in Hidden)

\* Mutated: the pattern takes only names with an extension.
GlobFiles == {p \in PlacesIn("upload") : p.name \notin Hidden}

\* upload/* is expanded before anything is removed; it has no hidden names.
Glob == {p \in PlacesIn("upload") : p.name \notin Hidden}
        \cup {[rm |-> d] : d \in {e \in Subdirs : dirs[e] # "missing"}}

\* The test with ls -A and the expansion.
CleanBegin ==
    /\ daemon.pc = "sleep"
    /\ FilesIn("upload") # {} \/ \E d \in Subdirs : dirs[d] # "missing"
    /\ daemon' = [pc |-> "remove", todo |-> Glob]
    /\ old' = {f \in Files : Visible(f)}
    /\ UNCHANGED <<at, inside, dirs, extract, req, touched, logged>>

\* rm unlinks a file,
RemoveFile ==
    /\ daemon.pc = "remove"
    /\ \E p \in daemon.todo \cap PlacesIn("upload") :
          /\ daemon' = [daemon EXCEPT !.todo = @ \ {p}]
          /\ at' = [f \in Files |-> IF at[f] = p THEN Gone ELSE at[f]]
          /\ touched' = touched \cup Disturbed(None, p)
    /\ UNCHANGED <<inside, dirs, extract, req, logged, old>>

\* passes over one that is gone by now,
RemoveNothing ==
    /\ daemon.pc = "remove"
    /\ \E p \in daemon.todo : p \in Places /\ FilesAt(p) = {} /\ daemon' = [daemon EXCEPT !.todo = @ \ {p}]
    /\ UNCHANGED <<at, inside, dirs, extract, req, touched, logged, old>>

\* empties a directory,
EmptyDir ==
    /\ daemon.pc = "remove"
    /\ \E d \in Subdirs :
          /\ [rm |-> d] \in daemon.todo
          /\ daemon' = [daemon EXCEPT !.todo = (@ \ {[rm |-> d]}) \cup {[rmdir |-> d]}]
          /\ at' = [f \in Files |-> IF at[f].dir = d THEN Gone ELSE at[f]]
          /\ extract' = IF d = "temp" THEN {} ELSE extract
    /\ UNCHANGED <<inside, dirs, req, touched, logged, old>>

\* and removes it, unless something was put there meanwhile.
RemoveDir ==
    /\ daemon.pc = "remove"
    /\ \E d \in Subdirs :
          /\ [rmdir |-> d] \in daemon.todo
          /\ daemon' = [daemon EXCEPT !.todo = @ \ {[rmdir |-> d]}]
          /\ dirs' = IF FilesIn(d) # {} \/ (d = "temp" /\ extract # {}) THEN dirs
                     ELSE [dirs EXCEPT ![d] = "missing"]
    /\ UNCHANGED <<at, inside, extract, req, touched, logged, old>>

\* The directories are made again, as root's, and then given away.
MakeDir(d, here, next) ==
    /\ daemon = [pc |-> here, todo |-> {}]
    /\ daemon' = [daemon EXCEPT !.pc = next]
    /\ dirs' = [dirs EXCEPT ![d] = IF @ = "missing" THEN "root" ELSE @]
    /\ UNCHANGED <<at, inside, extract, req, touched, logged, old>>

MakeQuarantine == MakeDir("quarantine", "remove", "temp")
MakeTemp == MakeDir("temp", "temp", "chown")

Chown ==
    /\ daemon.pc = "chown"
    /\ daemon' = [daemon EXCEPT !.pc = "sleep"]
    /\ dirs' = [d \in Subdirs |-> IF dirs[d] = "root" THEN "ok" ELSE dirs[d]]
    /\ old' = {}
    /\ UNCHANGED <<at, inside, extract, req, touched, logged>>

-----------------------------------------------------------------------------
Scan(r) ==
    \/ SaveOpen(r) \/ SaveWrite(r)
    \/ Exists(r) \/ SizeGuard(r) \/ MimeTypeScanner(r) \/ SignatureEngine(r)
    \/ QuarantineUpload(r)
    \/ Untar(r) \/ WalkList(r) \/ WalkCheck(r)
    \/ ZipMkdir(r) \/ ZipWrite(r) \/ ZipCheck(r)

Clean ==
    \/ CleanBegin \/ RemoveFile \/ RemoveNothing \/ EmptyDir \/ RemoveDir
    \/ MakeQuarantine \/ MakeTemp \/ Chown

Next == (\E r \in Reqs : Scan(r)) \/ Clean

Spec == Init /\ [][Next]_vars

-----------------------------------------------------------------------------
\* Types, and that no two files have one name.
TypeOK ==
    /\ at \in [Files -> Places \cup {Gone}]
    /\ \A f, g \in Files : at[f] = at[g] => f = g \/ at[f] = Gone
    /\ inside \in [Files -> SUBSET Stuff]
    /\ dirs \in [Subdirs -> {"ok", "root", "missing"}]
    /\ extract \subseteq Zips
    /\ req \in [Reqs -> ReqState]
    /\ daemon \in DaemonState
    /\ touched \subseteq Reqs
    /\ logged \subseteq Reqs
    /\ old \subseteq Files

\* How many engines ought to object to content x under the name n.
Objections(n, x) ==
    Cardinality({i \in 1 .. 4 : CASE i = 1 -> x \in Big [] i = 2 -> x \in Odd
                                   [] i = 3 -> x \in Signed [] i = 4 -> n \in Banned})

\* Unless another request or the loop changed its path meanwhile, the verdict on an
\* upload is the one on what was uploaded, although the engines look it up by name
\* one after the other in a directory everybody writes to.
VerdictIsOwn ==
    \A r \in Reqs \ touched :
        LET k == Objections(req[r].name, req[r].stuff)
            s == req[r].status
        IN  s # "none" => s = IF k = 0 THEN "CLEAN" ELSE IF k < 3 THEN "SUSPICIOUS" ELSE "MALICIOUS"

\* Whoever is told that an upload is malicious can rely on it being out of the upload
\* directory, whatever others do to its path, unless the failure to move it was printed.
MaliciousIsAway ==
    \A r \in Reqs \ logged :
        Answer(r) = "MALICIOUS" => at[req[r].fd] # Uploaded(req[r].name)

\* When a round of the loop has ended, whatever was in sight at its beginning is gone,
\* also what the requests had put into the two directories: a file outlives a
\* round only if it is newer than the round, or was moved meanwhile.
RoundTakesAll ==
    daemon.pc = "chown" => \A f \in old : at[f] = Gone

\* "FILE IS SAFE" (app.py) is answered to an upload that was found clean.
SafeMeansScanned ==
    \A r \in Reqs : Answer(r) = "CLEAN" => req[r].status = "CLEAN"
=============================================================================

------------------------- MODULE LighterTotalProofs -------------------------
(***************************************************************************)
(* Proofs about LighterTotal, for any requests, names, contents and        *)
(* images.                                                                 *)
(*                                                                         *)
(* Scanner: a file is created once, by its request (FilesSound), moves     *)
(* only into quarantine and disappears for good; so whoever is told that   *)
(* an upload is malicious never sees it back (AwaySound), and what the     *)
(* loop has in sight when its round begins is in its list or gone          *)
(* (RoundSound). An upload whose path nobody changed holds what was        *)
(* uploaded while the engines look at it one by one (ScanSound).           *)
(*                                                                         *)
(* Images: every operation leaves an image of the same size or a small     *)
(* one, never heals a broken one, and loses the tag only when it strips or *)
(* converts (Leaves); a job without errors still has its file (JobSound),  *)
(* and what is held is counted, or was there before (Counted).             *)
(***************************************************************************)
EXTENDS LighterTotal, FiniteSetTheorems, TLAPS

Pcs == {"idle", "write", "exists", "SizeGuard", "MimeTypeScanner", "SignatureEngine",
        "quarantine", "untar", "walk", "mkdir", "unzip", "check", "done"}
Unjudged == {"idle", "write", "exists", "SizeGuard", "MimeTypeScanner", "SignatureEngine"}

\* A file is there only after its request created it.
Made(f) ==
    /\ f[2] = "upload" => req[f[1]].pc # "idle"
    /\ f[2] = "member" => req[f[1]].pc \in {"walk", "check", "done"}

\* How far a request is, and what that says of its status.
PathSound(r) ==
    /\ req[r].pc \in Unjudged <=> req[r].status = "none"
    /\ req[r].pc \in {"untar", "walk", "mkdir", "unzip", "check"} => req[r].status = "CLEAN"
    /\ req[r].pc = "quarantine" => req[r].status = "MALICIOUS"
    /\ req[r].pc \in {"idle", "write", "exists", "SizeGuard"} => req[r].positives = 0
    /\ req[r].pc = "MimeTypeScanner" => req[r].positives \in {0, 1}
    /\ req[r].pc \in {"mkdir", "unzip", "check"} => req[r].name \in Zips
    /\ req[r].pc = "check" => \A p \in req[r].todo : p.dir = "temp"

FilesSound == \A f \in Files : ~Made(f) => at[f] = Gone /\ inside[f] = {} /\ f \notin old

Typed == TypeOK /\ (\A r \in Reqs : PathSound(r)) /\ FilesSound

-----------------------------------------------------------------------------
(* Files and places                                                        *)

\* The places of uploads, members and quarantined files are places, and none is Gone.
LEMMA PlacesAre ==
    /\ \A n \in Names : Uploaded(n) \in Places /\ Uploaded(n).dir = "upload" /\ Uploaded(n).name = n
    /\ \A z \in Zips, n \in Names : Extracted(z, n) \in Places /\ Extracted(z, n).dir = "temp"
    /\ \A p \in Places : Quarantined(p) \in Places /\ Quarantined(p).dir = "quarantine"
    /\ \A p \in Places : p # Gone /\ p.dir \in {"upload"} \cup Subdirs
    /\ Gone.dir = "gone"
  BY DEF Places, Uploaded, Extracted, Quarantined, Gone, Subdirs

\* A file put where none is: nothing else moves, and names stay unique.
LEMMA Puts ==
    ASSUME TypeOK, NEW f \in Files, NEW p \in Places,
           at' = IF FilesAt(p) = {} THEN [at EXCEPT ![f] = p] ELSE at
    PROVE  /\ at' \in [Files -> Places \cup {Gone}]
           /\ \A g, h \in Files : at'[g] = at'[h] => g = h \/ at'[g] = Gone
           /\ \A g \in Files : at'[g] = at[g] \/ (g = f /\ at'[g] = p)
           /\ \E g \in Files : at'[g] = p
<1>1. CASE FilesAt(p) = {}
  <2>1. /\ at' \in [Files -> Places \cup {Gone}]
        /\ at'[f] = p /\ \A g \in Files \ {f} : at'[g] = at[g]
    BY <1>1 DEF TypeOK
  <2>2. \A g \in Files : at[g] # p
    BY <1>1 DEF FilesAt
  <2> QED
    BY <2>1, <2>2 DEF TypeOK
<1>2. CASE FilesAt(p) # {}
  BY <1>2 DEF TypeOK, FilesAt
<1> QED
  BY <1>1, <1>2

\* Files that disappear leave names unique.
LEMMA Removes ==
    ASSUME TypeOK, at' \in [Files -> Places \cup {Gone}],
           \A g \in Files : at'[g] \in {at[g], Gone}
    PROVE  \A g, h \in Files : at'[g] = at'[h] => g = h \/ at'[g] = Gone
  BY DEF TypeOK

\* What _quarantine_file of the file at p may do.
LEMMA Quarantines ==
    ASSUME Typed, NEW r \in Reqs, NEW p \in Places, Quarantine(r, p)
    PROVE  /\ at' \in [Files -> Places \cup {Gone}]
           /\ \A g, h \in Files : at'[g] = at'[h] => g = h \/ at'[g] = Gone
           /\ \A g \in Files :
                 \/ at'[g] \in {at[g], Gone}
                 \/ at[g] = p /\ at'[g] = Quarantined(p) /\ g \notin old' /\ dirs["quarantine"] = "ok"
           /\ \A g \in Files : at[g] # p /\ at[g].dir = "upload" => at'[g] = at[g]
           /\ p.dir = "upload" => r \in logged' \/ \A g \in Files : at'[g] # p
           /\ at' = at \/ touched' = touched \cup Disturbed(r, p)
           /\ touched \subseteq touched' /\ touched' \subseteq Reqs
           /\ logged \subseteq logged' /\ logged' \subseteq Reqs
           /\ old' \subseteq old
<1>1. CASE FilesAt(p) = {} /\ UNCHANGED <<at, touched, logged, old>>
  BY <1>1 DEF Typed, TypeOK, FilesAt
<1>2. CASE /\ FilesAt(p) # {} /\ dirs["quarantine"] # "ok"
           /\ logged' = logged \cup {r} /\ UNCHANGED <<at, touched, old>>
  BY <1>2 DEF Typed, TypeOK
<1>3. CASE /\ FilesAt(p) # {} /\ dirs["quarantine"] = "ok"
           /\ \E f \in FilesAt(p) : Move(f, Quarantined(p)) /\ old' = old \ {f}
           /\ touched' = touched \cup Disturbed(r, p)
           /\ UNCHANGED logged
  <2>1. PICK f \in FilesAt(p) : Move(f, Quarantined(p)) /\ old' = old \ {f}
    BY <1>3
  <2> DEFINE q == Quarantined(p)
  <2>2. q \in Places /\ q.dir = "quarantine" /\ q # Gone
    BY PlacesAre
  <2>3. at' = [g \in Files |-> IF g = f THEN q ELSE IF at[g] = q THEN Gone ELSE at[g]]
    BY <2>1 DEF Move
  <2> HIDE DEF q
  <2>4. f \in Files /\ at[f] = p
    BY DEF FilesAt
  <2>5. at' \in [Files -> Places \cup {Gone}]
    BY <2>2, <2>3 DEF Typed, TypeOK
  <2>6. \A g, h \in Files : at'[g] = at'[h] => g = h \/ at'[g] = Gone
    BY <2>2, <2>3 DEF Typed, TypeOK
  <2>7. \A g \in Files : \/ at'[g] \in {at[g], Gone}
                         \/ g = f /\ at'[g] = q /\ g \notin old'
    BY <2>1, <2>3
  <2>8. \A g \in Files : at[g] # p /\ at[g].dir = "upload" => at'[g] = at[g]
    BY <2>2, <2>3, <2>4
  <2>9. p.dir = "upload" => \A g \in Files : at'[g] # p
    BY <2>2, <2>3, <2>4, PlacesAre DEF Typed, TypeOK
  <2>10. Disturbed(r, p) \subseteq Reqs
    BY DEF Disturbed
  <2> QED
    BY <1>3, <2>1, <2>4, <2>5, <2>6, <2>7, <2>8, <2>9, <2>10 DEF Typed, TypeOK, q
<1> QED
  BY <1>1, <1>2, <1>3 DEF Quarantine

-----------------------------------------------------------------------------
(* The requests                                                            *)

\* r alone changes, and keeps its name, its content and its file.
Renewed(r) ==
    /\ req' \in [Reqs -> ReqState]
    /\ \A q \in Reqs \ {r} : req'[q] = req[q]
    /\ req'[r].name = req[r].name /\ req'[r].stuff = req[r].stuff
    /\ req[r].pc # "idle" => req'[r].fd = req[r].fd

\* The requests as functions to records: what each way of changing one does.
LEMMA Goes ==
    ASSUME TypeOK, NEW r \in Reqs, NEW l \in Pcs, Goto(r, l)
    PROVE  /\ Renewed(r) /\ req'[r].fd = req[r].fd
           /\ req'[r].pc = l /\ req'[r].positives = req[r].positives
           /\ req'[r].status = req[r].status /\ req'[r].todo = req[r].todo
<1> DEFINE new == [req[r] EXCEPT !.pc = l]
<1>1. req[r] \in ReqState
  BY DEF TypeOK
<1>2. new \in ReqState
  BY <1>1 DEF ReqState, Pcs
<1>3. /\ new.pc = l /\ new.name = req[r].name /\ new.stuff = req[r].stuff /\ new.fd = req[r].fd
      /\ new.positives = req[r].positives /\ new.status = req[r].status /\ new.todo = req[r].todo
  BY <1>1 DEF ReqState
<1>4. req' = [req EXCEPT ![r] = new]
  BY DEF Goto
<1> HIDE DEF new
<1> QED
  BY <1>2, <1>3, <1>4 DEF TypeOK, Renewed

\* Saving begins with a file of its own.
LEMMA Opens ==
    ASSUME TypeOK, NEW r \in Reqs, NEW f \in Files, req[r].pc = "idle",
           req' = [req EXCEPT ![r].pc = "write", ![r].fd = f]
    PROVE  /\ Renewed(r)
           /\ req'[r].pc = "write" /\ req'[r].positives = req[r].positives
           /\ req'[r].status = req[r].status /\ req'[r].fd = f
<1> DEFINE new == [req[r] EXCEPT !.pc = "write", !.fd = f]
<1>1. req[r] \in ReqState
  BY DEF TypeOK
<1>2. new \in ReqState
  BY <1>1 DEF ReqState
<1>3. /\ new.pc = "write" /\ new.name = req[r].name /\ new.stuff = req[r].stuff /\ new.fd = f
      /\ new.positives = req[r].positives /\ new.status = req[r].status
  BY <1>1 DEF ReqState
<1>4. req' = [req EXCEPT ![r] = new]
  OBVIOUS
<1> HIDE DEF new
<1> QED
  BY <1>2, <1>3, <1>4 DEF TypeOK, Renewed

\* A verdict sends the request on, or ends it.
LEMMA Judges ==
    ASSUME TypeOK, NEW r \in Reqs, NEW x \in Statuses, Judged(r, x)
    PROVE  /\ Renewed(r) /\ req'[r].fd = req[r].fd
           /\ req'[r].positives = 0 /\ req'[r].status = x
           /\ req'[r].pc \in {"quarantine", "untar", "mkdir", "done"}
           /\ req'[r].pc = "quarantine" <=> x = "MALICIOUS"
           /\ req'[r].pc \in {"untar", "mkdir"} => x = "CLEAN"
           /\ req'[r].pc = "mkdir" => req[r].name \in Zips
<1> DEFINE l == Onward(req[r].name, x)
           new == [req[r] EXCEPT !.status = x, !.positives = 0, !.pc = l]
<1>1. req[r] \in ReqState
  BY DEF TypeOK
<1>2. /\ l \in {"quarantine", "untar", "mkdir", "done"}
      /\ l = "quarantine" <=> x = "MALICIOUS"
      /\ l \in {"untar", "mkdir"} => x = "CLEAN"
      /\ l = "mkdir" => req[r].name \in Zips
  BY DEF Statuses, Onward
<1>3. req' = [req EXCEPT ![r] = new]
  BY DEF Judged
<1> HIDE DEF l
<1>4. new \in ReqState
  <2>1. l \in Pcs /\ 0 \in 0 .. 2 /\ x \in Statuses \cup {"none"}
    BY <1>2 DEF Pcs
  <2> QED
    BY <1>1, <2>1 DEF ReqState, Pcs
<1>5. /\ new.pc = l /\ new.name = req[r].name /\ new.stuff = req[r].stuff /\ new.fd = req[r].fd
      /\ new.positives = 0 /\ new.status = x
  BY <1>1 DEF ReqState
<1> HIDE DEF new
<1> QED
  BY <1>2, <1>3, <1>4, <1>5 DEF TypeOK, Renewed

\* An engine counts what it objects to.
LEMMA Looked ==
    ASSUME Typed, NEW r \in Reqs, NEW e \in Pcs, NEW next \in Pcs,
           req[r].positives \in {0, 1}, Engine(r, e, next)
    PROVE  /\ Renewed(r) /\ req'[r].fd = req[r].fd
           /\ req[r].pc = e /\ req'[r].pc = next /\ req'[r].status = req[r].status
           /\ \E bad \in Flagged(e, Uploaded(req[r].name)) :
                 req'[r].positives = IF bad THEN req[r].positives + 1 ELSE req[r].positives
<1>1. PICK bad \in Flagged(e, Uploaded(req[r].name)) :
         req' = [req EXCEPT ![r].pc = next, ![r].positives = IF bad THEN @ + 1 ELSE @]
  BY DEF Engine
<1> DEFINE n == IF bad THEN req[r].positives + 1 ELSE req[r].positives
           new == [req[r] EXCEPT !.pc = next, !.positives = n]
<1>2. req[r] \in ReqState
  BY DEF Typed, TypeOK
<1>3. n \in 0 .. 2
  OBVIOUS
<1>4. req' = [req EXCEPT ![r] = new]
  BY <1>1
<1> HIDE DEF n
<1>5. new \in ReqState
  BY <1>2, <1>3 DEF ReqState, Pcs
<1>6. /\ new.pc = next /\ new.name = req[r].name /\ new.stuff = req[r].stuff /\ new.fd = req[r].fd
      /\ new.positives = n /\ new.status = req[r].status
  BY <1>2 DEF ReqState
<1> HIDE DEF new
<1>7. /\ Renewed(r) /\ req'[r].fd = req[r].fd /\ req'[r].pc = next
      /\ req'[r].status = req[r].status /\ req'[r].positives = n
  BY <1>4, <1>5, <1>6 DEF Typed, TypeOK, Renewed
<1>8. \E b \in Flagged(e, Uploaded(req[r].name)) :
         req'[r].positives = IF b THEN req[r].positives + 1 ELSE req[r].positives
  BY <1>7 DEF n
<1> QED
  BY <1>7, <1>8 DEF Engine

\* The walk goes on or ends.
LEMMA Walks ==
    ASSUME TypeOK, NEW r \in Reqs, NEW t \in SUBSET Places,
           NEW u \in SUBSET ({"upload"} \cup Subdirs), WalkOn(r, t, u)
    PROVE  /\ Renewed(r) /\ req'[r].fd = req[r].fd
           /\ req'[r].pc \in {"walk", "done"}
           /\ req'[r].positives = req[r].positives /\ req'[r].status = req[r].status
<1> DEFINE l == IF t = {} /\ u = {} THEN "done" ELSE "walk"
           new == [req[r] EXCEPT !.todo = t, !.unseen = u, !.pc = l]
<1>1. req[r] \in ReqState
  BY DEF TypeOK
<1>2. l \in {"walk", "done"}
  OBVIOUS
<1>3. req' = [req EXCEPT ![r] = new]
  BY DEF WalkOn
<1> HIDE DEF l
<1>4. new \in ReqState
  BY <1>1, <1>2 DEF ReqState
<1>5. /\ new.pc = l /\ new.name = req[r].name /\ new.stuff = req[r].stuff /\ new.fd = req[r].fd
      /\ new.positives = req[r].positives /\ new.status = req[r].status
  BY <1>1 DEF ReqState
<1> HIDE DEF new
<1> QED
  BY <1>2, <1>3, <1>4, <1>5 DEF TypeOK, Renewed

\* A member of a tar is there: the walk begins.
LEMMA Lists ==
    ASSUME TypeOK, NEW r \in Reqs,
           req' = [req EXCEPT ![r].pc = "walk", ![r].unseen = {"upload"} \cup Subdirs]
    PROVE  /\ Renewed(r) /\ req'[r].fd = req[r].fd
           /\ req'[r].pc = "walk"
           /\ req'[r].positives = req[r].positives /\ req'[r].status = req[r].status
<1> DEFINE all == {"upload"} \cup Subdirs
           new == [req[r] EXCEPT !.pc = "walk", !.unseen = all]
<1>1. req[r] \in ReqState
  BY DEF TypeOK
<1>2. new \in ReqState
  BY <1>1 DEF ReqState
<1>3. /\ new.pc = "walk" /\ new.name = req[r].name /\ new.stuff = req[r].stuff
      /\ new.fd = req[r].fd /\ new.positives = req[r].positives /\ new.status = req[r].status
  BY <1>1 DEF ReqState
<1>4. req' = [req EXCEPT ![r] = new]
  OBVIOUS
<1> HIDE DEF new
<1> QED
  BY <1>2, <1>3, <1>4 DEF TypeOK, Renewed

\* A member of a zip is there, or was checked.
LEMMA Unpacks ==
    ASSUME TypeOK, NEW r \in Reqs, NEW l \in Pcs, NEW t \in SUBSET Places,
           req' = [req EXCEPT ![r].pc = l, ![r].todo = t]
    PROVE  /\ Renewed(r) /\ req'[r].fd = req[r].fd
           /\ req'[r].pc = l /\ req'[r].todo = t
           /\ req'[r].positives = req[r].positives /\ req'[r].status = req[r].status
<1> DEFINE new == [req[r] EXCEPT !.pc = l, !.todo = t]
<1>1. req[r] \in ReqState
  BY DEF TypeOK
<1>2. new \in ReqState
  BY <1>1 DEF ReqState, Pcs
<1>3. /\ new.pc = l /\ new.name = req[r].name /\ new.stuff = req[r].stuff /\ new.fd = req[r].fd
      /\ new.positives = req[r].positives /\ new.status = req[r].status /\ new.todo = t
  BY <1>1 DEF ReqState
<1>4. req' = [req EXCEPT ![r] = new]
  OBVIOUS
<1> HIDE DEF new
<1> QED
  BY <1>2, <1>3, <1>4 DEF TypeOK, Renewed

\* The members of an archive have a name and a content.
LEMMA MembersAre ==
    ASSUME TypeOK, NEW p, NEW kind \in {Tarred, Zipped}, NEW m \in Members(p, kind)
    PROVE  m[1] \in Names /\ m[2] \in Stuff
<1>1. PICK x \in kind : m = Inside[x]
  BY DEF Members
<1>2. m \in Names \X Stuff
  BY <1>1, ScannerAssumption DEF ScannerAssumption
<1> QED
  BY <1>2

\* What a step of r does to the requests: r goes on, and keeps a verdict it has.
RequestStep(r) ==
    /\ Renewed(r) /\ PathSound(r)'
    /\ req[r].pc # "done" /\ req'[r].pc # "idle"
    /\ req[r].pc \in {"walk", "check"} => req'[r].pc \in {"walk", "done"}
    /\ req[r].status # "none" => req'[r].status = req[r].status
    /\ req'[r].pc = "done" /\ req'[r].status = "MALICIOUS" => req[r].pc = "quarantine"

\* A step of r leaves every request sound.
LEMMA RequestsStep ==
    ASSUME Typed, NEW r \in Reqs, Scan(r)
    PROVE  RequestStep(r)
<1> USE DEF RequestStep, PathSound, Unjudged
<1>1. TypeOK /\ PathSound(r)
  BY DEF Typed
<1>2. CASE SaveOpen(r)
  <2>1. PICK f \in Files : req' = [req EXCEPT ![r].pc = "write", ![r].fd = f]
    BY <1>2 DEF SaveOpen
  <2>2. req[r].pc = "idle"
    BY <1>2 DEF SaveOpen
  <2> QED
    BY <1>1, <2>1, <2>2, Opens
<1>3. CASE SaveWrite(r)
  <2>1. req[r].pc = "write" /\ Goto(r, "exists")
    BY <1>3 DEF SaveWrite
  <2> QED
    BY <1>1, <2>1, Goes DEF Pcs
<1>4. CASE Exists(r)
  <2>1. req[r].pc = "exists" /\ (Judged(r, "ERROR") \/ Goto(r, "SizeGuard"))
    BY <1>4 DEF Exists
  <2>2. "ERROR" \in Statuses
    BY DEF Statuses
  <2>3. CASE Judged(r, "ERROR")
    BY <1>1, <2>1, <2>2, <2>3, Judges
  <2>4. CASE Goto(r, "SizeGuard")
    BY <1>1, <2>1, <2>4, Goes DEF Pcs
  <2> QED
    BY <2>1, <2>3, <2>4
<1>5. CASE SizeGuard(r)
  <2>1. req[r].pc = "SizeGuard" /\ Engine(r, "SizeGuard", "MimeTypeScanner")
    BY <1>5 DEF SizeGuard, Engine
  <2>2. "SizeGuard" \in Pcs /\ "MimeTypeScanner" \in Pcs
    BY DEF Pcs
  <2>3. req[r].positives = 0
    BY <1>1, <2>1
  <2> QED
    BY <1>1, <2>1, <2>2, <2>3, Looked
<1>6. CASE MimeTypeScanner(r)
  <2>1. req[r].pc = "MimeTypeScanner" /\ Engine(r, "MimeTypeScanner", "SignatureEngine")
    BY <1>6 DEF MimeTypeScanner, Engine
  <2>2. "MimeTypeScanner" \in Pcs /\ "SignatureEngine" \in Pcs
    BY DEF Pcs
  <2>3. req[r].positives \in {0, 1}
    BY <1>1, <2>1
  <2> QED
    BY <1>1, <2>1, <2>2, <2>3, Looked
<1>7. CASE SignatureEngine(r)
  <2>1. PICK x \in Statuses : Judged(r, x)
    BY <1>7 DEF SignatureEngine, Verdict, Statuses
  <2>2. req[r].pc = "SignatureEngine"
    BY <1>7 DEF SignatureEngine
  <2>3. x # "none"
    BY DEF Statuses
  <2> QED
    BY <1>1, <2>1, <2>2, <2>3, Judges DEF Renewed
<1>8. CASE QuarantineUpload(r)
  <2>1. req[r].pc = "quarantine" /\ Goto(r, "done")
    BY <1>8 DEF QuarantineUpload
  <2> QED
    BY <1>1, <2>1, Goes DEF Pcs
<1>9. CASE Untar(r)
  <2>1. CASE Goto(r, "done")
    BY <1>1, <1>9, <2>1, Goes DEF Pcs, Untar
  <2>2. CASE req' = [req EXCEPT ![r].pc = "walk", ![r].unseen = {"upload"} \cup Subdirs]
    BY <1>1, <1>9, <2>2, Lists DEF Untar
  <2> QED
    BY <1>9, <2>1, <2>2 DEF Untar
<1>10. CASE WalkList(r)
  <2>1. PICK d : WalkOn(r, PlacesIn(d), req[r].unseen \ {d}) /\ d \in req[r].unseen
    BY <1>10 DEF WalkList
  <2>2. req[r].pc = "walk"
    BY <1>10 DEF WalkList
  <2>3. /\ PlacesIn(d) \in SUBSET Places
        /\ req[r].unseen \ {d} \in SUBSET ({"upload"} \cup Subdirs)
    BY <1>1, <2>1, PlacesAre DEF TypeOK, ReqState, PlacesIn, FilesIn, Subdirs
  <2> QED
    BY <1>1, <2>1, <2>2, <2>3, Walks
<1>11. CASE WalkCheck(r)
  <2>1. PICK p : WalkOn(r, req[r].todo \ {p}, req[r].unseen)
    BY <1>11 DEF WalkCheck
  <2>2. req[r].pc = "walk"
    BY <1>11 DEF WalkCheck
  <2>3. req[r].todo \ {p} \in SUBSET Places /\ req[r].unseen \in SUBSET ({"upload"} \cup Subdirs)
    BY <1>1 DEF TypeOK, ReqState
  <2> QED
    BY <1>1, <2>1, <2>2, <2>3, Walks
<1>12. CASE ZipMkdir(r)
  <2>1. req[r].pc = "mkdir" /\ (Goto(r, "unzip") \/ Goto(r, "done"))
    BY <1>12 DEF ZipMkdir
  <2> QED
    BY <1>1, <2>1, Goes DEF Pcs, Renewed
<1>13. CASE ZipWrite(r)
  <2>1. CASE Goto(r, "done")
    BY <1>1, <1>13, <2>1, Goes DEF Pcs, ZipWrite
  <2>2. ASSUME NEW m \in Members(Uploaded(req[r].name), Zipped),
               req' = [req EXCEPT ![r].pc = "check", ![r].todo = {Extracted(req[r].name, m[1])}]
        PROVE  RequestStep(r)
    <3>1. req[r].pc = "unzip" /\ req[r].name \in Zips
      BY <1>1, <1>13 DEF ZipWrite
    <3> DEFINE t == {Extracted(req[r].name, m[1])}
    <3>2. t \in SUBSET Places /\ \A p \in t : p.dir = "temp"
      BY <1>1, <3>1, MembersAre, PlacesAre
    <3>3. req' = [req EXCEPT ![r].pc = "check", ![r].todo = t]
      BY <2>2
    <3> HIDE DEF t
    <3>4. /\ Renewed(r) /\ req'[r].pc = "check" /\ req'[r].todo = t
          /\ req'[r].status = req[r].status
      BY <1>1, <3>2, <3>3, Unpacks DEF Pcs
    <3> QED
      BY <1>1, <3>1, <3>2, <3>4 DEF Renewed
  <2> QED
    BY <1>13, <2>1, <2>2 DEF ZipWrite
<1>14. CASE ZipCheck(r)
  <2>1. req[r].pc = "check" /\ req' = [req EXCEPT ![r].pc = "done", ![r].todo = {}]
    BY <1>14 DEF ZipCheck
  <2>2. "done" \in Pcs /\ {} \in SUBSET Places
    BY DEF Pcs
  <2>3. Renewed(r) /\ req'[r].pc = "done" /\ req'[r].status = req[r].status
    BY <1>1, <2>1, <2>2, Unpacks
  <2> QED
    BY <1>1, <2>1, <2>3 DEF Renewed
<1> QED
  BY <1>2, <1>3, <1>4, <1>5, <1>6, <1>7, <1>8, <1>9, <1>10, <1>11, <1>12, <1>13, <1>14 DEF Scan

-----------------------------------------------------------------------------
(* What the requests do to the files                                       *)

\* The file g is created by r: as its upload, or as the member it unpacks.
Created(r, g) ==
    \/ g = <<r, "upload">> /\ req[r].pc = "idle" /\ at'[g].dir = "upload"
    \/ g = <<r, "member">> /\ req[r].pc = "untar" /\ req'[r].pc = "walk" /\ at'[g].dir = "upload"
    \/ g = <<r, "member">> /\ req[r].pc = "unzip" /\ req'[r].pc = "check"
       /\ at'[g].dir = "temp" /\ extract # {}

\* The file g goes to quarantine.
MovedAway(g) == at[g] # Gone /\ at'[g].dir = "quarantine" /\ g \notin old' /\ dirs["quarantine"] = "ok"

\* Requests but r that are not marked as touched find their files as they were.
Spared(r) ==
    \A q \in Reqs \ {r}, g \in Files :
        /\ q \notin touched' /\ req[q].pc \notin {"idle", "done"} /\ req[q].status = "none"
        /\ at[g] = Uploaded(req[q].name)
        => at'[g] = at[g] /\ inside'[g] = inside[g]

\* What a step of r does to the files, and to what it does not own.
FileStep(r) ==
    /\ at' \in [Files -> Places \cup {Gone}]
    /\ \A g, h \in Files : at'[g] = at'[h] => g = h \/ at'[g] = Gone
    /\ inside' \in [Files -> SUBSET Stuff]
    /\ \A g \in Files : at'[g] \in {at[g], Gone} \/ MovedAway(g) \/ Created(r, g)
    /\ \A g \in Files : inside'[g] = inside[g] \/ at'[g] # Gone
    /\ extract \subseteq extract' /\ extract' \subseteq Zips
    /\ extract' # extract => dirs["temp"] = "ok"
    /\ dirs' = dirs /\ daemon' = daemon /\ old' \subseteq old
    /\ touched \subseteq touched' /\ touched' \subseteq Reqs
    /\ logged \subseteq logged' /\ logged' \subseteq Reqs
    /\ req[r].pc = "quarantine" => r \in logged' \/ at'[req[r].fd] # Uploaded(req[r].name)
    /\ Spared(r)

\* A step that touches no file.
LEMMA StillFiles ==
    ASSUME Typed, NEW r \in Reqs, req[r].pc # "quarantine",
           UNCHANGED <<at, inside, dirs, daemon, touched, logged, old>>,
           extract \subseteq extract', extract' \subseteq Zips,
           extract' # extract => dirs["temp"] = "ok"
    PROVE  FileStep(r)
  BY DEF Typed, TypeOK, FileStep, Spared

\* The members that r writes, at p.
LEMMA MemberFiles ==
    ASSUME Typed, NEW r \in Reqs, NEW p \in Places, NEW x \in Stuff,
           at[<<r, "member">>] = Gone, WriteMember(<<r, "member">>, p, x)
    PROVE  /\ at' \in [Files -> Places \cup {Gone}]
           /\ \A g, h \in Files : at'[g] = at'[h] => g = h \/ at'[g] = Gone
           /\ inside' \in [Files -> SUBSET Stuff]
           /\ \A g \in Files : at'[g] = at[g] \/ (g = <<r, "member">> /\ at'[g] = p)
           /\ \A g \in Files : inside'[g] = inside[g] \/ at'[g] = p
           /\ \A g \in Files : at[g] \in Places /\ at[g] # p => at'[g] = at[g] /\ inside'[g] = inside[g]
<1>1. TypeOK /\ <<r, "member">> \in Files
  BY DEF Typed, Files
<1>2. at' = IF FilesAt(p) = {} THEN [at EXCEPT ![<<r, "member">>] = p] ELSE at
  BY DEF WriteMember
<1>3. /\ at' \in [Files -> Places \cup {Gone}]
      /\ \A g, h \in Files : at'[g] = at'[h] => g = h \/ at'[g] = Gone
      /\ \A g \in Files : at'[g] = at[g] \/ (g = <<r, "member">> /\ at'[g] = p)
  BY <1>1, <1>2, Puts
<1>4. inside' = [g \in Files |-> IF at'[g] = p THEN {x} ELSE inside[g]]
  BY DEF WriteMember
<1> QED
  BY <1>1, <1>3, <1>4, PlacesAre DEF TypeOK

\* Step by step: the upload is created or emptied,
LEMMA SaveOpenFiles ==
    ASSUME Typed, NEW r \in Reqs, SaveOpen(r)
    PROVE  FileStep(r)
<1> DEFINE p == Uploaded(req[r].name)
           f == <<r, "upload">>
<1>1. /\ TypeOK /\ f \in Files /\ req[r].pc = "idle"
      /\ p \in Places /\ p.dir = "upload" /\ p # Gone
  BY PlacesAre DEF Typed, TypeOK, ReqState, Files, SaveOpen
<1>2. at[f] = Gone
  BY <1>1 DEF Typed, FilesSound, Made
<1>3. /\ Open(f, p) /\ touched' = touched \cup Disturbed(r, p)
      /\ UNCHANGED <<dirs, extract, daemon, logged, old>>
  BY DEF SaveOpen
<1> HIDE DEF p, f
<1>4. at' = IF FilesAt(p) = {} THEN [at EXCEPT ![f] = p] ELSE at
  BY <1>3 DEF Open
<1>5. /\ at' \in [Files -> Places \cup {Gone}]
      /\ \A g, h \in Files : at'[g] = at'[h] => g = h \/ at'[g] = Gone
      /\ \A g \in Files : at'[g] = at[g] \/ (g = f /\ at'[g] = p)
  BY <1>1, <1>4, Puts
<1>6. \A g \in Files : inside'[g] = inside[g] \/ (at[g] = p /\ inside'[g] = {} /\ at' = at)
  BY <1>1, <1>3 DEF Open, TypeOK
<1>7. inside' \in [Files -> SUBSET Stuff]
  BY <1>1, <1>3 DEF Open, TypeOK
<1>8. Spared(r)
  BY <1>1, <1>2, <1>3, <1>5, <1>6, PlacesAre DEF Spared, Disturbed, TypeOK, ReqState
<1>9. \A g \in Files : at'[g] \in {at[g], Gone} \/ Created(r, g)
  BY <1>1, <1>5 DEF Created, f
<1> QED
  BY <1>1, <1>3, <1>5, <1>6, <1>7, <1>8, <1>9 DEF FileStep, TypeOK, Disturbed

\* written where it is, if it is anywhere,
LEMMA SaveWriteFiles ==
    ASSUME Typed, NEW r \in Reqs, SaveWrite(r)
    PROVE  FileStep(r)
<1> DEFINE f == req[r].fd
<1>1. TypeOK /\ f \in Files /\ req[r].stuff \in Stuff /\ req[r].pc = "write"
  BY DEF Typed, TypeOK, ReqState, SaveWrite
<1>2. /\ touched' = touched \cup Disturbed(r, at[f])
      /\ UNCHANGED <<at, dirs, extract, daemon, logged, old>>
  BY DEF SaveWrite
<1>3. PICK c \in {{req[r].stuff}, inside[f] \cup {req[r].stuff}} :
         inside' = IF at[f] = Gone THEN inside ELSE [inside EXCEPT ![f] = c]
  BY DEF SaveWrite
<1>4. c \in SUBSET Stuff
  BY <1>1 DEF TypeOK
<1> HIDE DEF f
<1>5. inside' \in [Files -> SUBSET Stuff]
  BY <1>1, <1>3, <1>4 DEF TypeOK
<1>6. \A g \in Files : inside'[g] = inside[g] \/ (g = f /\ at[g] # Gone)
  BY <1>1, <1>3 DEF TypeOK
<1>7. Spared(r)
  BY <1>2, <1>6 DEF Spared, Disturbed
<1> QED
  BY <1>1, <1>2, <1>5, <1>6, <1>7 DEF FileStep, TypeOK, Disturbed

\* moved away, whichever request finds it at its path;
LEMMA QuarantineFiles ==
    ASSUME Typed, NEW r \in Reqs, NEW p \in Places, Quarantine(r, p),
           req[r].pc = "quarantine" => p = Uploaded(req[r].name),
           UNCHANGED <<inside, dirs, extract, daemon>>
    PROVE  FileStep(r)
<1>1. TypeOK /\ req[r].fd \in Files /\ req[r].name \in Names
  BY DEF Typed, TypeOK, ReqState
<1>2. Spared(r)
  <2> SUFFICES ASSUME NEW q \in Reqs \ {r}, NEW g \in Files, q \notin touched',
                      req[q].pc \notin {"idle", "done"}, req[q].status = "none",
                      at[g] = Uploaded(req[q].name)
               PROVE  at'[g] = at[g]
    BY DEF Spared
  <2>1. req[q].name \in Names
    BY <1>1 DEF TypeOK, ReqState
  <2>2. at' = at \/ at[g] # p
    BY Quarantines DEF Disturbed
  <2> QED
    BY <2>1, <2>2, PlacesAre, Quarantines
<1>3. \A g \in Files : at'[g] \in {at[g], Gone} \/ MovedAway(g)
  BY <1>1, Quarantines, PlacesAre DEF MovedAway
<1>4. req[r].pc = "quarantine" => r \in logged' \/ at'[req[r].fd] # Uploaded(req[r].name)
  BY <1>1, Quarantines, PlacesAre
<1> QED
  BY <1>1, <1>2, <1>3, <1>4, Quarantines DEF FileStep, TypeOK

\* a member is written over what has its name in upload/,
LEMMA UntarFiles ==
    ASSUME Typed, NEW r \in Reqs, Untar(r)
    PROVE  FileStep(r)
<1>1. TypeOK /\ req[r].pc = "untar" /\ UNCHANGED <<dirs, extract, daemon, logged, old>>
  BY DEF Typed, Untar
<1>2. CASE UNCHANGED <<at, inside, touched>>
  BY <1>1, <1>2, StillFiles DEF TypeOK
<1>3. ASSUME NEW m \in Members(Uploaded(req[r].name), Tarred),
             WriteMember(<<r, "member">>, Uploaded(m[1]), m[2]),
             touched' = touched \cup Disturbed(r, Uploaded(m[1])),
             req' = [req EXCEPT ![r].pc = "walk", ![r].unseen = {"upload"} \cup Subdirs]
      PROVE  FileStep(r)
  <2> DEFINE p == Uploaded(m[1])
             f == <<r, "member">>
  <2>1. m[1] \in Names /\ m[2] \in Stuff
    BY <1>1, MembersAre
  <2>2. p \in Places /\ p.dir = "upload"
    BY <2>1, PlacesAre
  <2>3. f \in Files /\ at[f] = Gone
    BY <1>1 DEF Typed, FilesSound, Made, Files
  <2>4. req'[r].pc = "walk"
    BY <1>1, <1>3, Lists
  <2> HIDE DEF p
  <2>5. /\ at' \in [Files -> Places \cup {Gone}]
        /\ \A g, h \in Files : at'[g] = at'[h] => g = h \/ at'[g] = Gone
        /\ inside' \in [Files -> SUBSET Stuff]
        /\ \A g \in Files : at'[g] = at[g] \/ (g = f /\ at'[g] = p)
        /\ \A g \in Files : inside'[g] = inside[g] \/ at'[g] = p
        /\ \A g \in Files : at[g] \in Places /\ at[g] # p => at'[g] = at[g] /\ inside'[g] = inside[g]
    BY <1>3, <2>1, <2>2, <2>3, MemberFiles DEF p
  <2>6. Spared(r)
    <3>1. touched' = touched \cup Disturbed(r, p)
      BY <1>3 DEF p
    <3>2. \A q \in Reqs : Uploaded(req[q].name) \in Places
      BY <1>1, PlacesAre DEF TypeOK, ReqState
    <3> QED
      BY <2>5, <3>1, <3>2 DEF Spared, Disturbed
  <2>7. \A g \in Files : at'[g] = at[g] \/ Created(r, g)
    BY <1>1, <2>2, <2>4, <2>5 DEF Created
  <2>8. p # Gone
    BY <2>2, PlacesAre
  <2> QED
    BY <1>1, <1>3, <2>5, <2>6, <2>7, <2>8 DEF FileStep, TypeOK, Disturbed
<1> QED
  BY <1>2, <1>3 DEF Untar

\* or below temp/, where no upload is,
LEMMA ZipWriteFiles ==
    ASSUME Typed, NEW r \in Reqs, ZipWrite(r)
    PROVE  FileStep(r)
<1>1. /\ TypeOK /\ req[r].pc = "unzip" /\ req[r].name \in Zips
      /\ UNCHANGED <<dirs, extract, daemon, touched, logged, old>>
  BY DEF Typed, ZipWrite, PathSound
<1>2. CASE UNCHANGED <<at, inside>>
  BY <1>1, <1>2, StillFiles DEF TypeOK
<1>3. ASSUME NEW m \in Members(Uploaded(req[r].name), Zipped), req[r].name \in extract,
             WriteMember(<<r, "member">>, Extracted(req[r].name, m[1]), m[2]),
             req' = [req EXCEPT ![r].pc = "check", ![r].todo = {Extracted(req[r].name, m[1])}]
      PROVE  FileStep(r)
  <2> DEFINE p == Extracted(req[r].name, m[1])
             f == <<r, "member">>
  <2>1. m[1] \in Names /\ m[2] \in Stuff
    BY <1>1, MembersAre
  <2>2. p \in Places /\ p.dir = "temp"
    BY <1>1, <2>1, PlacesAre
  <2>3. f \in Files /\ at[f] = Gone
    BY <1>1 DEF Typed, FilesSound, Made, Files
  <2>4. req'[r].pc = "check"
    <3>1. {p} \in SUBSET Places /\ "check" \in Pcs
      BY <2>2 DEF Pcs
    <3> QED
      BY <1>1, <1>3, <3>1, Unpacks
  <2> HIDE DEF p
  <2>5. /\ at' \in [Files -> Places \cup {Gone}]
        /\ \A g, h \in Files : at'[g] = at'[h] => g = h \/ at'[g] = Gone
        /\ inside' \in [Files -> SUBSET Stuff]
        /\ \A g \in Files : at'[g] = at[g] \/ (g = f /\ at'[g] = p)
        /\ \A g \in Files : inside'[g] = inside[g] \/ at'[g] = p
        /\ \A g \in Files : at[g] \in Places /\ at[g] # p => at'[g] = at[g] /\ inside'[g] = inside[g]
    BY <1>3, <2>1, <2>2, <2>3, MemberFiles DEF p
  <2>6. Spared(r)
    <3>1. \A q \in Reqs : Uploaded(req[q].name) \in Places /\ Uploaded(req[q].name) # p
      BY <1>1, <2>2, PlacesAre DEF TypeOK, ReqState
    <3> QED
      BY <2>5, <3>1 DEF Spared
  <2>7. \A g \in Files : at'[g] = at[g] \/ Created(r, g)
    BY <1>1, <1>3, <2>2, <2>4, <2>5 DEF Created
  <2>8. p # Gone
    BY <2>2, PlacesAre
  <2> QED
    BY <1>1, <2>5, <2>6, <2>7, <2>8 DEF FileStep, TypeOK
<1> QED
  BY <1>2, <1>3 DEF ZipWrite

\* and removed from there.
LEMMA ZipCheckFiles ==
    ASSUME Typed, NEW r \in Reqs, ZipCheck(r)
    PROVE  FileStep(r)
<1>1. /\ TypeOK /\ req[r].pc = "check"
      /\ UNCHANGED <<inside, dirs, extract, daemon, touched, logged, old>>
  BY DEF Typed, ZipCheck
<1>2. PICK p \in req[r].todo :
         at' \in {at, [f \in Files |-> IF at[f] = p THEN Gone ELSE at[f]]}
  BY DEF ZipCheck
<1>3. p \in Places /\ p.dir = "temp"
  BY <1>1 DEF Typed, TypeOK, ReqState, PathSound
<1> DEFINE cleared == [f \in Files |-> IF at[f] = p THEN Gone ELSE at[f]]
<1>4. at' = at \/ at' = cleared
  BY <1>2
<1>5. /\ at' \in [Files -> Places \cup {Gone}]
      /\ \A g \in Files : at'[g] = at[g] \/ (at'[g] = Gone /\ at[g] = p)
  <2>1. CASE at' = at
    BY <1>1, <2>1 DEF TypeOK
  <2>2. CASE at' = cleared
    BY <1>1, <2>2 DEF TypeOK
  <2> QED
    BY <1>4, <2>1, <2>2
<1>6. \A q \in Reqs : Uploaded(req[q].name) # p
  BY <1>1, <1>3, PlacesAre DEF TypeOK, ReqState
<1>7. Spared(r)
  BY <1>1, <1>5, <1>6 DEF Spared
<1> QED
  BY <1>1, <1>5, <1>7, Removes DEF FileStep, TypeOK

\* So each step of a request does to the files what FileStep says.
LEMMA FilesStep ==
    ASSUME Typed, NEW r \in Reqs, Scan(r)
    PROVE  FileStep(r)
<1>1. TypeOK /\ req[r].name \in Names /\ req[r].todo \subseteq Places
  BY DEF Typed, TypeOK, ReqState
<1>2. CASE Exists(r) \/ SizeGuard(r) \/ MimeTypeScanner(r) \/ SignatureEngine(r) \/ WalkList(r)
  <2>1. req[r].pc # "quarantine"
    BY <1>2 DEF Exists, SizeGuard, MimeTypeScanner, Engine, SignatureEngine, WalkList
  <2>2. UNCHANGED <<at, inside, dirs, extract, daemon, touched, logged, old>>
    BY <1>2 DEF Exists, SizeGuard, MimeTypeScanner, Engine, SignatureEngine, WalkList
  <2> QED
    BY <1>1, <2>1, <2>2, StillFiles DEF TypeOK
<1>3. CASE ZipMkdir(r)
  <2>1. req[r].pc = "mkdir" /\ req[r].name \in Zips
    BY <1>3 DEF ZipMkdir, Typed, PathSound
  <2>2. /\ (extract' = extract \cup {req[r].name} /\ dirs["temp"] = "ok") \/ extract' = extract
        /\ UNCHANGED <<at, inside, dirs, daemon, touched, logged, old>>
    BY <1>3 DEF ZipMkdir
  <2> QED
    BY <1>1, <2>1, <2>2, StillFiles DEF TypeOK
<1>4. CASE QuarantineUpload(r)
  BY <1>1, <1>4, QuarantineFiles, PlacesAre DEF QuarantineUpload
<1>5. CASE WalkCheck(r)
  <2>1. PICK p \in req[r].todo : Quarantine(r, p) \/ UNCHANGED <<at, touched, logged, old>>
    BY <1>5 DEF WalkCheck
  <2>2. req[r].pc = "walk" /\ UNCHANGED <<inside, dirs, extract, daemon>>
    BY <1>5 DEF WalkCheck
  <2> QED
    BY <1>1, <2>1, <2>2, QuarantineFiles, StillFiles DEF TypeOK
<1> QED
  BY <1>2, <1>3, <1>4, <1>5, SaveOpenFiles, SaveWriteFiles, UntarFiles, ZipWriteFiles, ZipCheckFiles
     DEF Scan

-----------------------------------------------------------------------------
(* The loop                                                                *)

\* A directory with something in it is there.
DirsSound ==
    /\ \A f \in Files, d \in Subdirs : at[f].dir = d => dirs[d] # "missing"
    /\ extract # {} => dirs["temp"] # "missing"

\* What the loop had in sight is gone, or it has still to come to it.
RoundSound ==
    \A f \in old :
        /\ daemon.pc = "remove" => \/ at[f] = Gone
                                   \/ at[f].dir = "upload" /\ at[f] \in daemon.todo
                                   \/ \E d \in Subdirs : at[f].dir = d /\ [rm |-> d] \in daemon.todo
        /\ daemon.pc \in {"temp", "chown"} => at[f] = Gone

\* What a step of the loop does to the rest.
LoopStep ==
    /\ at' \in [Files -> Places \cup {Gone}]
    /\ \A g \in Files : at'[g] \in {at[g], Gone}
    /\ inside' = inside /\ req' = req /\ logged' = logged
    /\ extract' \subseteq extract
    /\ touched \subseteq touched' /\ touched' \subseteq Reqs
    /\ old' \subseteq Files /\ \A f \in old' : f \in old \/ at[f] # Gone
    /\ Spared(None)

\* What the loop has to remove: no file has the name of an order to empty a directory.
LEMMA Orders ==
    /\ \A p \in Places, d \in Subdirs : p # [rm |-> d] /\ p # [rmdir |-> d]
    /\ \A d, e \in Subdirs : [rm |-> d] # [rmdir |-> e] /\ ([rm |-> d] = [rm |-> e] => d = e)
<1>1. \A p \in Places : DOMAIN p = {"dir", "of", "name", "wraps"}
  BY DEF Places
<1>2. \A d : DOMAIN [rm |-> d] = {"rm"} /\ [rm |-> d].rm = d
  OBVIOUS
<1>3. \A d : DOMAIN [rmdir |-> d] = {"rmdir"}
  OBVIOUS
<1>4. "dir" \notin {"rm"} /\ "dir" \notin {"rmdir"} /\ "rm" \notin {"rmdir"}
  OBVIOUS
<1>5. ASSUME NEW p \in Places, NEW d \in Subdirs
      PROVE  p # [rm |-> d] /\ p # [rmdir |-> d]
  BY <1>1, <1>2, <1>3, <1>4
<1>6. ASSUME NEW d \in Subdirs, NEW e \in Subdirs
      PROVE  [rm |-> d] # [rmdir |-> e] /\ ([rm |-> d] = [rm |-> e] => d = e)
  BY <1>2, <1>3, <1>4
<1> QED
  BY <1>5, <1>6

\* The loop's list and the two directories keep their types.
LEMMA LoopTypes ==
    ASSUME Typed, Clean
    PROVE  daemon' \in DaemonState /\ dirs' \in [Subdirs -> {"ok", "root", "missing"}]
<1> DEFINE Todos == SUBSET (Places \cup {[rm |-> d] : d \in Subdirs} \cup {[rmdir |-> d] : d \in Subdirs})
           Labels == {"sleep", "remove", "temp", "chown"}
<1>1. /\ TypeOK /\ DaemonState = [pc : Labels, todo : Todos]
      /\ daemon.pc \in Labels /\ daemon.todo \in Todos
  BY DEF Typed, TypeOK, DaemonState
<1>2. CASE CleanBegin
  <2>1. Glob \in Todos
    BY <1>1, PlacesAre DEF Glob, PlacesIn, FilesIn, TypeOK
  <2> HIDE DEF Todos
  <2> QED
    BY <1>1, <1>2, <2>1 DEF CleanBegin, TypeOK
<1>3. CASE RemoveFile \/ RemoveNothing \/ EmptyDir
  <2>1. PICK t \in Todos : daemon' = [daemon EXCEPT !.todo = t]
    BY <1>1, <1>3 DEF RemoveFile, RemoveNothing, EmptyDir
  <2> HIDE DEF Todos
  <2>2. daemon' \in DaemonState
    BY <1>1, <2>1 DEF TypeOK
  <2> QED
    BY <1>1, <1>3, <2>2 DEF RemoveFile, RemoveNothing, EmptyDir, TypeOK
<1>4. CASE RemoveDir
  <2>1. PICK t \in Todos : daemon' = [daemon EXCEPT !.todo = t]
    BY <1>1, <1>4 DEF RemoveDir
  <2> HIDE DEF Todos
  <2>2. daemon' \in DaemonState
    BY <1>1, <2>1 DEF TypeOK
  <2>3. PICK d \in Subdirs : dirs' = dirs \/ dirs' = [dirs EXCEPT ![d] = "missing"]
    BY <1>4 DEF RemoveDir
  <2> QED
    BY <1>1, <2>2, <2>3 DEF TypeOK
<1>5. CASE MakeQuarantine \/ MakeTemp \/ Chown
  <2>1. PICK l \in Labels : daemon' = [daemon EXCEPT !.pc = l]
    BY <1>5 DEF MakeQuarantine, MakeTemp, MakeDir, Chown
  <2> HIDE DEF Todos
  <2>2. daemon' \in DaemonState
    BY <1>1, <2>1 DEF TypeOK
  <2>3. dirs' \in [Subdirs -> {"ok", "root", "missing"}]
    BY <1>1, <1>5 DEF TypeOK, MakeQuarantine, MakeTemp, MakeDir, Chown
  <2> QED
    BY <2>2, <2>3
<1> QED
  BY <1>2, <1>3, <1>4, <1>5 DEF Clean

\* A step of the loop removes files, of all that is old, and no directory in use.
LEMMA LoopSteps ==
    ASSUME Typed, DirsSound, RoundSound, Clean
    PROVE  LoopStep /\ DirsSound' /\ RoundSound'
<1>1. TypeOK /\ None \notin Reqs
  BY ScannerAssumption DEF Typed, ScannerAssumption
<1>2. \A f \in Files : at[f] \in Places \cup {Gone}
  BY <1>1 DEF TypeOK
<1>3. ASSUME UNCHANGED <<at, inside>>
      PROVE  Spared(None)
  BY <1>3 DEF Spared
<1>4. CASE CleanBegin
  <2>1. UNCHANGED <<at, inside, dirs, extract, req, touched, logged>>
    BY <1>4 DEF CleanBegin
  <2>2. daemon'.pc = "remove" /\ daemon'.todo = Glob /\ old' = {f \in Files : Visible(f)}
    BY <1>4 DEF CleanBegin
  <2>3. LoopStep
    BY <1>1, <1>3, <2>1, <2>2 DEF LoopStep, TypeOK, Visible
  <2>4. DirsSound'
    BY <2>1 DEF DirsSound
  <2>5. ASSUME NEW f \in old'
        PROVE  \/ at[f].dir = "upload" /\ at[f] \in Glob
               \/ \E d \in Subdirs : at[f].dir = d /\ [rm |-> d] \in Glob
    <3>1. f \in Files /\ at[f] \in Places /\ ~(at[f].dir = "upload" /\ at[f].name \in Hidden)
      BY <1>2, <2>2, <2>5 DEF Visible
    <3>2. CASE at[f].dir = "upload"
      BY <3>1, <3>2 DEF Glob, PlacesIn, FilesIn
    <3>3. CASE at[f].dir \in Subdirs
      BY <3>1, <3>3 DEF Glob, DirsSound
    <3> QED
      BY <3>1, <3>2, <3>3, PlacesAre
  <2> QED
    BY <2>1, <2>2, <2>3, <2>4, <2>5 DEF RoundSound
<1>5. CASE RemoveFile
  <2>1. PICK p \in daemon.todo \cap PlacesIn("upload") :
           /\ daemon' = [daemon EXCEPT !.todo = @ \ {p}]
           /\ at' = [f \in Files |-> IF at[f] = p THEN Gone ELSE at[f]]
           /\ touched' = touched \cup Disturbed(None, p)
    BY <1>5 DEF RemoveFile
  <2>2. daemon.pc = "remove" /\ UNCHANGED <<inside, dirs, extract, req, logged, old>>
    BY <1>5 DEF RemoveFile
  <2>3. p \in Places
    BY <1>2, <2>1, PlacesAre DEF PlacesIn, FilesIn
  <2>4. at' \in [Files -> Places \cup {Gone}]
    BY <1>1, <2>1 DEF TypeOK
  <2>5. \A g \in Files : at'[g] = IF at[g] = p THEN Gone ELSE at[g]
    BY <2>1
  <2>6. daemon'.pc = "remove" /\ daemon'.todo = daemon.todo \ {p}
    BY <1>1, <2>1, <2>2 DEF TypeOK, DaemonState
  <2>7. Spared(None)
    BY <2>1, <2>2, <2>5 DEF Spared, Disturbed
  <2>8. LoopStep
    BY <1>1, <2>1, <2>2, <2>4, <2>5, <2>7 DEF LoopStep, TypeOK, Disturbed
  <2>9. DirsSound'
    BY <2>2, <2>5, PlacesAre DEF DirsSound, Subdirs
  <2>10. RoundSound'
    BY <1>1, <2>2, <2>3, <2>5, <2>6, Orders DEF RoundSound, TypeOK
  <2> QED
    BY <2>8, <2>9, <2>10
<1>6. CASE RemoveNothing
  <2>1. PICK p \in daemon.todo : /\ p \in Places /\ FilesAt(p) = {}
                                 /\ daemon' = [daemon EXCEPT !.todo = @ \ {p}]
    BY <1>6 DEF RemoveNothing
  <2>2. daemon.pc = "remove" /\ UNCHANGED <<at, inside, dirs, extract, req, touched, logged, old>>
    BY <1>6 DEF RemoveNothing
  <2>3. daemon'.pc = "remove" /\ daemon'.todo = daemon.todo \ {p}
    BY <1>1, <2>1, <2>2 DEF TypeOK, DaemonState
  <2>4. LoopStep
    BY <1>1, <1>3, <2>2 DEF LoopStep, TypeOK
  <2>5. DirsSound'
    BY <2>2 DEF DirsSound
  <2>6. \A g \in Files : at[g] # p
    BY <2>1 DEF FilesAt
  <2>7. RoundSound'
    BY <1>1, <2>1, <2>2, <2>3, <2>6, Orders DEF RoundSound, TypeOK
  <2> QED
    BY <2>4, <2>5, <2>7
<1>7. CASE EmptyDir
  <2>1. PICK d \in Subdirs :
           /\ [rm |-> d] \in daemon.todo
           /\ daemon' = [daemon EXCEPT !.todo = (@ \ {[rm |-> d]}) \cup {[rmdir |-> d]}]
           /\ at' = [f \in Files |-> IF at[f].dir = d THEN Gone ELSE at[f]]
           /\ extract' = IF d = "temp" THEN {} ELSE extract
    BY <1>7 DEF EmptyDir
  <2>2. daemon.pc = "remove" /\ UNCHANGED <<inside, dirs, req, touched, logged, old>>
    BY <1>7 DEF EmptyDir
  <2>3. at' \in [Files -> Places \cup {Gone}]
    BY <1>1, <2>1 DEF TypeOK
  <2>4. \A g \in Files : at'[g] = IF at[g].dir = d THEN Gone ELSE at[g]
    BY <2>1
  <2>5. /\ daemon'.pc = "remove"
        /\ \A x : x \in daemon.todo /\ x # [rm |-> d] => x \in daemon'.todo
    BY <1>1, <2>1, <2>2 DEF TypeOK, DaemonState
  <2>6. \A q \in Reqs : Uploaded(req[q].name).dir = "upload"
    BY <1>1, PlacesAre DEF TypeOK, ReqState
  <2>7. Spared(None)
    BY <2>2, <2>4, <2>6 DEF Spared, Subdirs
  <2>8. LoopStep
    BY <1>1, <2>1, <2>2, <2>3, <2>4, <2>7 DEF LoopStep, TypeOK
  <2>9. DirsSound'
    BY <2>1, <2>2, <2>4, PlacesAre DEF DirsSound, Subdirs
  <2>10. ASSUME NEW f \in old', at'[f] # Gone
         PROVE  \/ at'[f].dir = "upload" /\ at'[f] \in daemon'.todo
                \/ \E e \in Subdirs : at'[f].dir = e /\ [rm |-> e] \in daemon'.todo
    <3>1. f \in old /\ f \in Files /\ at'[f] = at[f] /\ at[f].dir # d /\ at[f] \in Places
      BY <1>1, <1>2, <2>2, <2>4, <2>10 DEF TypeOK
    <3>2. CASE at[f].dir = "upload" /\ at[f] \in daemon.todo
      BY <2>5, <3>1, <3>2, Orders
    <3>3. ASSUME NEW e \in Subdirs, at[f].dir = e, [rm |-> e] \in daemon.todo
          PROVE  [rm |-> e] \in daemon'.todo
      BY <2>5, <3>1, <3>3, Orders
    <3> QED
      BY <2>2, <3>1, <3>2, <3>3, PlacesAre DEF RoundSound
  <2> QED
    BY <2>5, <2>8, <2>9, <2>10 DEF RoundSound
<1>8. CASE RemoveDir
  <2>1. PICK d \in Subdirs :
           /\ [rmdir |-> d] \in daemon.todo
           /\ daemon' = [daemon EXCEPT !.todo = @ \ {[rmdir |-> d]}]
           /\ dirs' = IF FilesIn(d) # {} \/ (d = "temp" /\ extract # {}) THEN dirs
                      ELSE [dirs EXCEPT ![d] = "missing"]
    BY <1>8 DEF RemoveDir
  <2>2. daemon.pc = "remove" /\ UNCHANGED <<at, inside, extract, req, touched, logged, old>>
    BY <1>8 DEF RemoveDir
  <2>3. /\ daemon'.pc = "remove"
        /\ \A x : x \in daemon.todo /\ x # [rmdir |-> d] => x \in daemon'.todo
    BY <1>1, <2>1, <2>2 DEF TypeOK, DaemonState
  <2>4. LoopStep
    BY <1>1, <1>3, <2>2 DEF LoopStep, TypeOK
  <2>5. DirsSound'
    BY <1>1, <2>1, <2>2 DEF DirsSound, TypeOK, FilesIn
  <2>6. ASSUME NEW f \in old, at[f] # Gone
        PROVE  \/ at[f].dir = "upload" /\ at[f] \in daemon'.todo
               \/ \E e \in Subdirs : at[f].dir = e /\ [rm |-> e] \in daemon'.todo
    <3>1. at[f] \in Places
      BY <1>1, <1>2, <2>6 DEF TypeOK
    <3>2. CASE at[f].dir = "upload" /\ at[f] \in daemon.todo
      BY <2>3, <3>1, <3>2, Orders
    <3>3. ASSUME NEW e \in Subdirs, at[f].dir = e, [rm |-> e] \in daemon.todo
          PROVE  [rm |-> e] \in daemon'.todo
      BY <2>3, <3>3, Orders
    <3> QED
      BY <2>2, <2>6, <3>2, <3>3 DEF RoundSound
  <2>7. RoundSound'
    BY <2>2, <2>3, <2>6 DEF RoundSound
  <2> QED
    BY <2>4, <2>5, <2>7
<1>9. CASE MakeQuarantine \/ MakeTemp
  <2>1. UNCHANGED <<at, inside, extract, req, touched, logged, old>>
    BY <1>9 DEF MakeQuarantine, MakeTemp, MakeDir
  <2>2. /\ daemon.pc \in {"remove", "temp"} /\ daemon.todo = {}
        /\ daemon'.pc \in {"temp", "chown"}
    BY <1>9 DEF MakeQuarantine, MakeTemp, MakeDir
  <2>3. \A d \in Subdirs : dirs[d] # "missing" => dirs'[d] # "missing"
    BY <1>1, <1>9 DEF MakeQuarantine, MakeTemp, MakeDir, TypeOK
  <2>4. LoopStep
    BY <1>1, <1>3, <2>1 DEF LoopStep, TypeOK
  <2>5. DirsSound'
    BY <2>1, <2>3 DEF DirsSound, Subdirs
  <2>6. RoundSound'
    BY <2>1, <2>2 DEF RoundSound
  <2> QED
    BY <2>4, <2>5, <2>6
<1>10. CASE Chown
  <2>1. old' = {} /\ UNCHANGED <<at, inside, extract, req, touched, logged>>
    BY <1>10 DEF Chown
  <2>2. \A d \in Subdirs : dirs[d] # "missing" => dirs'[d] # "missing"
    BY <1>10 DEF Chown
  <2>3. LoopStep
    BY <1>1, <1>3, <2>1 DEF LoopStep, TypeOK
  <2>4. DirsSound'
    BY <2>1, <2>2 DEF DirsSound, Subdirs
  <2> QED
    BY <2>1, <2>3, <2>4 DEF RoundSound
<1> QED
  BY <1>4, <1>5, <1>6, <1>7, <1>8, <1>9, <1>10 DEF Clean

-----------------------------------------------------------------------------
(* Type correctness, and what the loop has taken                           *)

SInv == Typed /\ DirsSound /\ RoundSound

\* The invariant of types, directories and rounds holds at first,
LEMMA SInvInit == Init => SInv
<1> SUFFICES ASSUME Init PROVE SInv
  OBVIOUS
<1>1. PICK u \in [Reqs -> Uploads] :
         req = [r \in Reqs |-> [pc |-> "idle", name |-> u[r][1], stuff |-> u[r][2],
                                fd |-> <<r, "upload">>, positives |-> 0,
                                status |-> "none", todo |-> {}, unseen |-> {}]]
  BY DEF Init
<1>2. \A r \in Reqs : u[r][1] \in Names /\ u[r][2] \in Stuff
  BY ScannerAssumption DEF ScannerAssumption
<1>3. req \in [Reqs -> ReqState]
  <2> SUFFICES ASSUME NEW r \in Reqs PROVE req[r] \in ReqState
    BY <1>1
  <2>1. <<r, "upload">> \in Files
    BY DEF Files
  <2> QED
    BY <1>1, <1>2, <2>1 DEF ReqState
<1>4. \A r \in Reqs : req[r].pc = "idle" /\ req[r].positives = 0 /\ req[r].status = "none"
  BY <1>1
<1>5. daemon \in DaemonState
  BY DEF Init, DaemonState
<1>6. TypeOK
  BY <1>3, <1>5 DEF Init, TypeOK
<1>7. \A r \in Reqs : PathSound(r)
  BY <1>4 DEF PathSound, Unjudged
<1>8. FilesSound
  BY DEF Init, FilesSound
<1>9. DirsSound
  BY PlacesAre DEF Init, DirsSound, Subdirs
<1>10. RoundSound
  BY DEF Init, RoundSound
<1> QED
  BY <1>6, <1>7, <1>8, <1>9, <1>10 DEF SInv, Typed

\* A file that was made stays made.
LEMMA MadeStays ==
    ASSUME Typed, NEW r \in Reqs, RequestStep(r), NEW f \in Files, Made(f)
    PROVE  Made(f)'
<1>1. PICK q \in Reqs, k \in {"upload", "member"} : f = <<q, k>>
  BY DEF Files
<1> QED
  BY <1>1 DEF Made, RequestStep, Renewed

\* after each step of a request,
LEMMA ScanStep ==
    ASSUME SInv, NEW r \in Reqs, RequestStep(r), FileStep(r)
    PROVE  SInv'
<1>1. TypeOK /\ FilesSound
  BY DEF SInv, Typed
<1>2. TypeOK'
  BY <1>1 DEF TypeOK, RequestStep, Renewed, FileStep
<1>3. ASSUME NEW q \in Reqs PROVE PathSound(q)'
  <2>1. CASE q = r
    BY <2>1 DEF RequestStep
  <2>2. CASE q # r
    <3>1. req'[q] = req[q] /\ PathSound(q)
      BY <2>2 DEF RequestStep, Renewed, SInv, Typed
    <3> QED
      BY <3>1 DEF PathSound
  <2> QED
    BY <2>1, <2>2
<1>4. ASSUME NEW f \in Files, ~Made(f)'
      PROVE  at'[f] = Gone /\ inside'[f] = {} /\ f \notin old'
  <2>1. at[f] = Gone /\ inside[f] = {} /\ f \notin old
    BY <1>1, <1>4, MadeStays DEF FilesSound, SInv
  <2>2. ~Created(r, f)
    BY <1>4 DEF Created, Made, RequestStep
  <2> QED
    BY <2>1, <2>2 DEF FileStep, MovedAway
<1>5. FilesSound'
  BY <1>4 DEF FilesSound
<1>6. DirsSound'
  BY <1>1 DEF SInv, DirsSound, FileStep, MovedAway, Created, Subdirs, Gone
<1>7. RoundSound'
  <2> SUFFICES ASSUME NEW f \in old' PROVE at'[f] \in {at[f], Gone} /\ f \in old /\ daemon' = daemon
    BY <1>1 DEF SInv, RoundSound, TypeOK
  <2>1. f \in old /\ f \in Files /\ daemon' = daemon
    BY <1>1 DEF FileStep, TypeOK
  <2>2. Made(f)
    BY <1>1, <2>1 DEF FilesSound
  <2>3. ~Created(r, f)
    BY <2>2 DEF Created, Made
  <2> QED
    BY <2>1, <2>3 DEF FileStep, MovedAway
<1> QED
  BY <1>2, <1>3, <1>5, <1>6, <1>7 DEF SInv, Typed

\* and after each step of the loop.
LEMMA CleanStep ==
    ASSUME SInv, Clean
    PROVE  SInv'
<1>1. LoopStep /\ DirsSound' /\ RoundSound' /\ TypeOK
  BY LoopSteps DEF SInv, Typed
<1>2. TypeOK'
  <2>1. \A g, h \in Files : at'[g] = at'[h] => g = h \/ at'[g] = Gone
    BY <1>1, Removes DEF LoopStep
  <2>2. daemon' \in DaemonState /\ dirs' \in [Subdirs -> {"ok", "root", "missing"}]
    BY LoopTypes DEF SInv
  <2> QED
    BY <1>1, <2>1, <2>2 DEF TypeOK, LoopStep
<1>3. \A q \in Reqs : PathSound(q)'
  BY <1>1 DEF LoopStep, SInv, Typed, PathSound
<1>4. FilesSound'
  BY <1>1 DEF LoopStep, SInv, Typed, FilesSound, Made
<1> QED
  BY <1>1, <1>2, <1>3, <1>4 DEF SInv, Typed

\* So it is inductive.
LEMMA SInvStep == SInv /\ [Next]_vars => SInv'
<1> SUFFICES ASSUME SInv, [Next]_vars PROVE SInv'
  OBVIOUS
<1>1. ASSUME NEW r \in Reqs, Scan(r) PROVE SInv'
  BY <1>1, RequestsStep, FilesStep, ScanStep DEF SInv
<1>2. CASE Clean
  BY <1>2, CleanStep
<1>3. CASE UNCHANGED vars
  BY <1>3 DEF vars, SInv, Typed, TypeOK, PathSound, FilesSound, Made, DirsSound, RoundSound
<1> QED
  BY <1>1, <1>2, <1>3 DEF Next

\* The scanner never leaves its types, and no two files have one name, whatever threads
\* and loop do to the directory.
THEOREM ScannerTypeCorrect == Spec => []TypeOK
<1>1. SInv => TypeOK
  BY DEF SInv, Typed
<1> QED
  BY <1>1, SInvInit, SInvStep, PTL DEF Spec

\* A round of the loop takes whatever was in sight when it began, whatever the requests
\* do meanwhile: it is gone when the round has ended, unless a request moved it.
THEOREM RoundsTakeAll == Spec => []RoundTakesAll
<1>1. SInv => RoundTakesAll
  BY DEF SInv, RoundSound, RoundTakesAll
<1> QED
  BY <1>1, SInvInit, SInvStep, PTL DEF Spec

-----------------------------------------------------------------------------
(* What is malicious is away                                               *)

\* A request's file was made, and is away once the request is told that it is malicious.
FdSound(r) == req[r].pc # "idle" => Made(req[r].fd)

AwaySound(r) ==
    r \notin logged /\ req[r].pc = "done" /\ req[r].status = "MALICIOUS" =>
        at[req[r].fd] # Uploaded(req[r].name)

AwayInv == SInv /\ \A r \in Reqs : FdSound(r) /\ AwaySound(r)

\* With the files of the requests, at first,
LEMMA AwayInvInit == Init => AwayInv
<1> SUFFICES ASSUME Init PROVE AwayInv
  OBVIOUS
<1>1. \A r \in Reqs : req[r].pc = "idle"
  BY DEF Init
<1> QED
  BY <1>1, SInvInit DEF AwayInv, FdSound, AwaySound

\* The file that save opens is there.
LEMMA Opened ==
    ASSUME Typed, NEW r \in Reqs, SaveOpen(r)
    PROVE  /\ req'[r].fd \in Files /\ at'[req'[r].fd] = Uploaded(req[r].name)
           /\ req'[r].pc = "write"
<1>1. PICK f \in Files : /\ at'[f] = Uploaded(req[r].name)
                         /\ req' = [req EXCEPT ![r].pc = "write", ![r].fd = f]
  BY DEF SaveOpen
<1>2. TypeOK /\ req[r].pc = "idle"
  BY DEF Typed, SaveOpen
<1>3. req'[r].fd = f /\ req'[r].pc = "write"
  BY <1>1, <1>2, Opens
<1> QED
  BY <1>1, <1>3

\* after each step of a request: no step brings a file back to upload/ that was made,
LEMMA AwayScan ==
    ASSUME AwayInv, NEW r \in Reqs, Scan(r)
    PROVE  AwayInv'
<1>1. RequestStep(r) /\ FileStep(r) /\ TypeOK
  BY RequestsStep, FilesStep DEF AwayInv, SInv, Typed
<1>2. SInv'
  BY <1>1, ScanStep DEF AwayInv
<1>3. \A q \in Reqs \ {r} : req'[q] = req[q] /\ req[q].fd \in Files
  BY <1>1 DEF RequestStep, Renewed, TypeOK, ReqState
<1>4. ASSUME NEW q \in Reqs PROVE FdSound(q)'
  <2>1. CASE q # r
    BY <1>1, <1>3, <2>1, MadeStays DEF AwayInv, SInv, FdSound
  <2>2. CASE q = r /\ req[r].pc # "idle"
    <3>1. req'[r].fd = req[r].fd /\ req[r].fd \in Files /\ Made(req[r].fd)
      BY <1>1, <2>2 DEF AwayInv, FdSound, RequestStep, Renewed, TypeOK, ReqState
    <3> QED
      BY <1>1, <2>2, <3>1, MadeStays DEF AwayInv, SInv, FdSound, Made
  <2>3. CASE q = r /\ req[r].pc = "idle"
    <3>1. SaveOpen(r)
      BY <2>3 DEF Scan, SaveWrite, Exists, SizeGuard, MimeTypeScanner, Engine, SignatureEngine,
                  QuarantineUpload, Untar, WalkList, WalkCheck, ZipMkdir, ZipWrite, ZipCheck
    <3>2. req'[r].fd \in Files /\ at'[req'[r].fd] = Uploaded(req[r].name) /\ req[r].name \in Names
      BY <1>1, <3>1, Opened DEF AwayInv, SInv, TypeOK, ReqState
    <3>3. at'[req'[r].fd] # Gone
      BY <3>2, PlacesAre
    <3> QED
      BY <1>2, <2>3, <3>2, <3>3 DEF SInv, Typed, FilesSound, FdSound, Made
  <2> QED
    BY <2>1, <2>2, <2>3
<1>5. ASSUME NEW q \in Reqs PROVE AwaySound(q)'
  <2>1. CASE q # r
    <3> SUFFICES ASSUME q \notin logged', req[q].pc = "done", req[q].status = "MALICIOUS"
                 PROVE  at'[req[q].fd] # Uploaded(req[q].name)
      BY <1>3, <2>1 DEF AwaySound
    <3> DEFINE f == req[q].fd
    <3>1. at[f] # Uploaded(req[q].name) /\ Made(f) /\ f \in Files
      BY <1>1, <1>3, <2>1 DEF AwayInv, AwaySound, FdSound, FileStep
    <3>2. ~Created(r, f)
      BY <3>1 DEF Created, Made
    <3>3. req[q].name \in Names
      BY <1>1 DEF TypeOK, ReqState
    <3>4. Uploaded(req[q].name).dir = "upload" /\ Uploaded(req[q].name) # Gone
      BY <3>3, PlacesAre
    <3> HIDE DEF f
    <3>5. at'[f] \in {at[f], Gone} \/ at'[f].dir = "quarantine"
      BY <1>1, <3>1, <3>2 DEF FileStep, MovedAway
    <3> QED
      BY <3>1, <3>4, <3>5 DEF f
  <2>2. CASE q = r
    BY <1>1, <2>2 DEF AwaySound, RequestStep, Renewed, FileStep
  <2> QED
    BY <2>1, <2>2
<1> QED
  BY <1>2, <1>4, <1>5 DEF AwayInv

\* and after any step.
LEMMA AwayInvStep == AwayInv /\ [Next]_vars => AwayInv'
<1> SUFFICES ASSUME AwayInv, [Next]_vars PROVE AwayInv'
  OBVIOUS
<1>1. ASSUME NEW r \in Reqs, Scan(r) PROVE AwayInv'
  BY <1>1, AwayScan
<1>2. CASE Clean
  <2>1. LoopStep /\ SInv' /\ TypeOK
    BY <1>2, LoopSteps, CleanStep DEF AwayInv, SInv, Typed
  <2>2. \A q \in Reqs : FdSound(q)'
    BY <2>1 DEF LoopStep, AwayInv, FdSound, Made
  <2>3. \A q \in Reqs : req[q].fd \in Files /\ Uploaded(req[q].name) # Gone
    BY <2>1, PlacesAre DEF TypeOK, ReqState
  <2>4. \A q \in Reqs : AwaySound(q)'
    BY <2>1, <2>3 DEF LoopStep, AwayInv, AwaySound
  <2> QED
    BY <2>1, <2>2, <2>4 DEF AwayInv
<1>3. CASE UNCHANGED vars
  <2>1. SInv'
    BY SInvStep DEF AwayInv
  <2> QED
    BY <1>3, <2>1 DEF vars, AwayInv, FdSound, AwaySound, Made
<1> QED
  BY <1>1, <1>2, <1>3 DEF Next

\* An upload whose client is told that it is malicious is out of the upload directory and
\* stays out, unless the log says that it could not be moved: whatever becomes of its path.
THEOREM MaliciousStaysAway == Spec => []MaliciousIsAway
<1>1. AwayInv => MaliciousIsAway
  BY DEF AwayInv, AwaySound, MaliciousIsAway, Answer
<1> QED
  BY <1>1, AwayInvInit, AwayInvStep, PTL DEF Spec

-----------------------------------------------------------------------------
(* The verdict is on what was uploaded                                     *)

One(b) == IF b THEN 1 ELSE 0

\* The engines that object to content x under the name n, one by one.
Found(n, x) == One(x \in Big) + One(x \in Odd) + One(x \in Signed) + One(n \in Banned)

\* An upload whose path nobody changed is what the engines have seen so far.
ScanSound(r) ==
    r \notin touched =>
        /\ req[r].pc \in Unjudged \ {"idle"} =>
              /\ at[req[r].fd] = Uploaded(req[r].name)
              /\ inside[req[r].fd] = IF req[r].pc = "write" THEN {} ELSE {req[r].stuff}
        /\ req[r].pc = "MimeTypeScanner" => req[r].positives = One(req[r].stuff \in Big)
        /\ req[r].pc = "SignatureEngine" =>
              req[r].positives = One(req[r].stuff \in Big) + One(req[r].stuff \in Odd)
        /\ req[r].status # "none" => req[r].status = Verdict(Found(req[r].name, req[r].stuff))

VerdictInv == AwayInv /\ \A r \in Reqs : ScanSound(r)

\* Of a file alone at its path with one content in it, an engine says what it must.
LEMMA SeesOne ==
    ASSUME TypeOK, NEW f \in Files, NEW x \in Stuff, at[f] # Gone, inside[f] = {x},
           NEW e \in {"SizeGuard", "MimeTypeScanner", "SignatureEngine"},
           NEW bad \in Flagged(e, at[f])
    PROVE  bad = IF x \in BadFor(e) THEN TRUE ELSE FALSE
<1>1. FilesAt(at[f]) = {f}
  BY DEF FilesAt, TypeOK
<1>2. {x} # {} /\ Cardinality({x}) = 1
  BY FS_Singleton
<1>3. Says(e, {x}) = {{x} \subseteq BadFor(e)}
  BY <1>2 DEF Says
<1>4. Flagged(e, at[f]) = Says(e, inside[f])
  BY <1>1 DEF Flagged
<1>5. CASE x \in BadFor(e)
  <2>1. ({x} \subseteq BadFor(e)) = TRUE
    BY <1>5
  <2> QED
    BY <1>3, <1>4, <1>5, <2>1
<1>6. CASE x \notin BadFor(e)
  <2>1. ({x} \subseteq BadFor(e)) = FALSE
    BY <1>6
  <2> QED
    BY <1>3, <1>4, <1>6, <2>1
<1> QED
  BY <1>5, <1>6

\* The number of objections is the sum over the engines.
LEMMA ObjectionsAre == \A n, x : Objections(n, x) = Found(n, x)
<1> SUFFICES ASSUME NEW n, NEW x PROVE Objections(n, x) = Found(n, x)
  OBVIOUS
<1> DEFINE Bad(i) == CASE i = 1 -> x \in Big [] i = 2 -> x \in Odd
                       [] i = 3 -> x \in Signed [] i = 4 -> n \in Banned
           A1 == IF x \in Big THEN {1} ELSE {}
           A2 == IF x \in Odd THEN A1 \cup {2} ELSE A1
           A3 == IF x \in Signed THEN A2 \cup {3} ELSE A2
           A4 == IF n \in Banned THEN A3 \cup {4} ELSE A3
<1>1. /\ Bad(1) <=> x \in Big
      /\ Bad(2) <=> x \in Odd
      /\ Bad(3) <=> x \in Signed
      /\ Bad(4) <=> n \in Banned
  OBVIOUS
<1>2. Objections(n, x) = Cardinality({i \in 1 .. 4 : Bad(i)})
  BY DEF Objections
<1> HIDE DEF Bad
<1>3. A4 = {i \in 1 .. 4 : Bad(i)}
  <2>1. 1 .. 4 = {1, 2, 3, 4}
    OBVIOUS
  <2>2. \A i : i \in A4 <=> i \in {1, 2, 3, 4} /\ Bad(i)
    BY <1>1
  <2> QED
    BY <2>1, <2>2
<1>4. 2 \notin A1 /\ 3 \notin A2 /\ 4 \notin A3
  OBVIOUS
<1>5. IsFiniteSet(A1)
  BY FS_EmptySet, FS_Singleton
<1>9. Cardinality(A1) = One(x \in Big)
  BY FS_EmptySet, FS_Singleton DEF One
<1> HIDE DEF A1
<1>6. IsFiniteSet(A2) /\ Cardinality(A2) = Cardinality(A1) + One(x \in Odd)
  BY <1>4, <1>5, FS_AddElement, FS_CardinalityType DEF One
<1> HIDE DEF A2
<1>7. IsFiniteSet(A3) /\ Cardinality(A3) = Cardinality(A2) + One(x \in Signed)
  BY <1>4, <1>6, FS_AddElement, FS_CardinalityType DEF One
<1> HIDE DEF A3
<1>8. Cardinality(A4) = Cardinality(A3) + One(n \in Banned)
  BY <1>4, <1>7, FS_AddElement, FS_CardinalityType DEF One
<1> HIDE DEF A4
<1> QED
  BY <1>2, <1>3, <1>6, <1>7, <1>8, <1>9 DEF Found

\* The step of r itself.
LEMMA OwnScan ==
    ASSUME VerdictInv, NEW r \in Reqs, Scan(r), RequestStep(r), FileStep(r)
    PROVE  ScanSound(r)'
<1>1. /\ TypeOK /\ TypeOK' /\ PathSound(r) /\ ScanSound(r) /\ req[r] \in ReqState
      /\ req[r].name \in Names /\ req[r].stuff \in Stuff /\ req[r].fd \in Files
  BY ScanStep DEF VerdictInv, AwayInv, SInv, Typed, TypeOK, ReqState
<1> DEFINE p == Uploaded(req[r].name)
           f == req[r].fd
<1>2. p \in Places /\ p # Gone
  BY <1>1, PlacesAre
<1> SUFFICES ASSUME r \notin touched' PROVE ScanSound(r)'
  BY DEF ScanSound
<1>3. /\ r \notin touched
      /\ req'[r].name = req[r].name /\ req'[r].stuff = req[r].stuff
      /\ req[r].pc # "idle" => req'[r].fd = f
  BY DEF FileStep, RequestStep, Renewed
<1>4. CASE req[r].status # "none"
  <2>1. req'[r].status = req[r].status /\ req'[r].pc \notin Unjudged
    BY <1>4 DEF RequestStep, PathSound
  <2>2. req[r].status = Verdict(Found(req[r].name, req[r].stuff))
    BY <1>1, <1>3, <1>4 DEF ScanSound
  <2> QED
    BY <1>3, <2>1, <2>2 DEF ScanSound, Unjudged
<1>5. CASE SaveOpen(r)
  <2>1. /\ req'[r].fd \in Files /\ at'[req'[r].fd] = p /\ req'[r].pc = "write"
        /\ PathSound(r)'
    BY <1>5, Opened DEF VerdictInv, AwayInv, SInv, RequestStep
  <2>2. inside'[req'[r].fd] = {}
    <3>1. CASE FilesAt(p) = {}
      <4>1. req[r].pc = "idle" /\ <<r, "upload">> \in Files /\ at' = [at EXCEPT ![<<r, "upload">>] = p]
            /\ inside' = inside
        BY <1>5, <3>1 DEF SaveOpen, Open, Files
      <4>2. inside[<<r, "upload">>] = {}
        BY <4>1 DEF VerdictInv, AwayInv, SInv, Typed, FilesSound, Made
      <4>3. req'[r].fd = <<r, "upload">>
        BY <1>1, <1>2, <2>1, <4>1 DEF TypeOK
      <4> QED
        BY <4>1, <4>2, <4>3
    <3>2. CASE FilesAt(p) # {}
      BY <1>1, <1>5, <2>1, <3>2 DEF SaveOpen, Open
    <3> QED
      BY <3>1, <3>2
  <2> QED
    BY <1>3, <2>1, <2>2 DEF ScanSound, PathSound, Unjudged
<1>6. CASE SaveWrite(r)
  <2>1. req[r].pc = "write" /\ at' = at /\ req'[r].pc = "exists" /\ PathSound(r)'
    BY <1>1, <1>6, Goes DEF SaveWrite, Pcs, RequestStep
  <2>2. at[f] = p /\ inside[f] = {}
    BY <1>1, <1>3, <2>1 DEF ScanSound, Unjudged
  <2>3. inside' = [inside EXCEPT ![f] = {req[r].stuff}]
    BY <1>2, <1>6, <2>2 DEF SaveWrite
  <2>4. inside'[f] = {req[r].stuff}
    BY <1>1, <2>3 DEF TypeOK
  <2> QED
    BY <1>3, <2>1, <2>2, <2>4 DEF ScanSound, PathSound, Unjudged
<1>7. ASSUME Exists(r) \/ SizeGuard(r) \/ MimeTypeScanner(r) \/ SignatureEngine(r)
      PROVE  /\ req[r].pc \in Unjudged \ {"idle"}
             /\ at[f] = p /\ inside[f] = {req[r].stuff} /\ at' = at /\ inside' = inside
             /\ req'[r].fd = f
             /\ \A e \in {"SizeGuard", "MimeTypeScanner", "SignatureEngine"} : \A bad \in Flagged(e, p) :
                   bad = IF req[r].stuff \in BadFor(e) THEN TRUE ELSE FALSE
  <2>1. /\ req[r].pc \in {"exists", "SizeGuard", "MimeTypeScanner", "SignatureEngine"}
        /\ at' = at /\ inside' = inside
    BY <1>7 DEF Exists, SizeGuard, MimeTypeScanner, Engine, SignatureEngine
  <2>2. at[f] = p /\ inside[f] = {req[r].stuff}
    BY <1>1, <1>3, <2>1 DEF ScanSound, Unjudged
  <2>3. at[f] # Gone
    BY <1>2, <2>2
  <2>4. \A e \in {"SizeGuard", "MimeTypeScanner", "SignatureEngine"} : \A bad \in Flagged(e, at[f]) :
           bad = IF req[r].stuff \in BadFor(e) THEN TRUE ELSE FALSE
    BY <1>1, <2>2, <2>3, SeesOne
  <2> QED
    BY <1>3, <2>1, <2>2, <2>4 DEF Unjudged
<1>8. CASE Exists(r)
  <2>1. FilesAt(p) # {}
    BY <1>1, <1>7, <1>8 DEF FilesAt
  <2>2. req'[r].pc = "SizeGuard" /\ PathSound(r)'
    BY <1>1, <1>8, <2>1, Goes DEF Exists, Pcs, RequestStep
  <2> QED
    BY <1>3, <1>7, <1>8, <2>2 DEF ScanSound, PathSound, Unjudged
<1>9. CASE SizeGuard(r)
  <2>1. req[r].pc = "SizeGuard" /\ req[r].positives = 0 /\ PathSound(r)'
    BY <1>1, <1>9 DEF SizeGuard, Engine, PathSound, RequestStep
  <2>2. PICK bad \in Flagged("SizeGuard", p) :
           /\ req'[r].pc = "MimeTypeScanner"
           /\ req'[r].positives = IF bad THEN req[r].positives + 1 ELSE req[r].positives
    BY <1>9, <2>1, Looked DEF SizeGuard, Pcs, VerdictInv, AwayInv, SInv
  <2>3. bad = IF req[r].stuff \in Big THEN TRUE ELSE FALSE
    BY <1>7, <1>9, <2>2 DEF BadFor
  <2>4. req'[r].positives = One(req[r].stuff \in Big)
    <3>1. (req[r].stuff \in Big /\ bad = TRUE) \/ (req[r].stuff \notin Big /\ bad = FALSE)
      BY <2>3
    <3>2. One(req[r].stuff \in Big) = IF bad THEN 1 ELSE 0
      BY <3>1 DEF One
    <3>3. req'[r].positives = req[r].positives + IF bad THEN 1 ELSE 0
      BY <2>1, <2>2, <3>1
    <3> QED
      BY <2>1, <3>2, <3>3
  <2> QED
    BY <1>3, <1>7, <1>9, <2>1, <2>2, <2>4 DEF ScanSound, PathSound, Unjudged
<1>10. CASE MimeTypeScanner(r)
  <2>1. /\ req[r].pc = "MimeTypeScanner" /\ req[r].positives \in {0, 1} /\ PathSound(r)'
        /\ req[r].positives = One(req[r].stuff \in Big)
    BY <1>1, <1>3, <1>10 DEF MimeTypeScanner, Engine, PathSound, ScanSound, RequestStep
  <2>2. PICK bad \in Flagged("MimeTypeScanner", p) :
           /\ req'[r].pc = "SignatureEngine"
           /\ req'[r].positives = IF bad THEN req[r].positives + 1 ELSE req[r].positives
    BY <1>10, <2>1, Looked DEF MimeTypeScanner, Pcs, VerdictInv, AwayInv, SInv
  <2>3. bad = IF req[r].stuff \in Odd THEN TRUE ELSE FALSE
    BY <1>7, <1>10, <2>2 DEF BadFor
  <2>4. req'[r].positives = req[r].positives + One(req[r].stuff \in Odd)
    <3>1. (req[r].stuff \in Odd /\ bad = TRUE) \/ (req[r].stuff \notin Odd /\ bad = FALSE)
      BY <2>3
    <3>2. One(req[r].stuff \in Odd) = IF bad THEN 1 ELSE 0
      BY <3>1 DEF One
    <3>3. req'[r].positives = req[r].positives + IF bad THEN 1 ELSE 0
      BY <2>1, <2>2, <3>1
    <3> QED
      BY <2>1, <3>2, <3>3
  <2> QED
    BY <1>3, <1>7, <1>10, <2>1, <2>2, <2>4 DEF ScanSound, PathSound, Unjudged
<1>11. CASE SignatureEngine(r)
  <2>1. PICK bad \in Flagged("SignatureEngine", p) :
           Judged(r, Verdict(req[r].positives + (IF bad THEN 1 ELSE 0)
                                              + (IF req[r].name \in Banned THEN 1 ELSE 0)))
    BY <1>11 DEF SignatureEngine
  <2>2. bad = IF req[r].stuff \in Signed THEN TRUE ELSE FALSE
    BY <1>7, <1>11, <2>1 DEF BadFor
  <2>3. req[r].positives = One(req[r].stuff \in Big) + One(req[r].stuff \in Odd)
    BY <1>1, <1>3, <1>11 DEF SignatureEngine, ScanSound
  <2>4. Found(req[r].name, req[r].stuff)
           = req[r].positives + (IF bad THEN 1 ELSE 0) + (IF req[r].name \in Banned THEN 1 ELSE 0)
    BY <2>2, <2>3 DEF Found, One
  <2> DEFINE k == Found(req[r].name, req[r].stuff)
  <2>5. Judged(r, Verdict(k))
    BY <2>1, <2>4
  <2>6. Verdict(k) \in Statuses /\ Verdict(k) # "none"
    BY DEF Verdict, Statuses
  <2> HIDE DEF k
  <2>7. req'[r].status = Verdict(k)
    BY <1>1, <2>5, <2>6, Judges
  <2>8. req'[r].pc \notin Unjudged
    BY <2>6, <2>7 DEF RequestStep, PathSound
  <2> QED
    BY <1>3, <2>6, <2>7, <2>8 DEF ScanSound, Unjudged, k
<1>12. req[r].status = "none" => req[r].pc \in Unjudged
  BY <1>1 DEF PathSound
<1> QED
  BY <1>4, <1>5, <1>6, <1>8, <1>9, <1>10, <1>11, <1>12
     DEF Scan, QuarantineUpload, Untar, WalkList, WalkCheck, ZipMkdir, ZipWrite, ZipCheck, Unjudged

\* With what the engines have seen, at first
LEMMA VerdictInvInit == Init => VerdictInv
<1> SUFFICES ASSUME Init PROVE VerdictInv
  OBVIOUS
<1>1. \A r \in Reqs : req[r].pc = "idle" /\ req[r].status = "none"
  BY DEF Init
<1> QED
  BY <1>1, AwayInvInit DEF VerdictInv, ScanSound

\* and after any step: whoever changes a path marks the requests that have it.
LEMMA VerdictInvStep == VerdictInv /\ [Next]_vars => VerdictInv'
<1> SUFFICES ASSUME VerdictInv, [Next]_vars PROVE VerdictInv'
  OBVIOUS
<1>1. AwayInv' /\ TypeOK /\ None \notin Reqs
  BY AwayInvStep, ScannerAssumption DEF VerdictInv, AwayInv, SInv, Typed, ScannerAssumption
<1>2. ASSUME NEW r \in Reqs \cup {None}, NEW q \in Reqs \ {r}, q \notin touched', req'[q] = req[q],
             touched \subseteq touched', Spared(r)
      PROVE  ScanSound(q)'
  <2>1. ScanSound(q) /\ PathSound(q) /\ req[q].fd \in Files
    BY <1>1 DEF VerdictInv, AwayInv, SInv, Typed, TypeOK, ReqState
  <2>2. req[q].pc \in Unjudged \ {"idle"} =>
           at'[req[q].fd] = at[req[q].fd] /\ inside'[req[q].fd] = inside[req[q].fd]
    BY <1>2, <2>1 DEF ScanSound, PathSound, Spared, Unjudged
  <2> QED
    BY <1>2, <2>1, <2>2 DEF ScanSound
<1>3. ASSUME NEW r \in Reqs, Scan(r), NEW q \in Reqs PROVE ScanSound(q)'
  <2>1. RequestStep(r) /\ FileStep(r)
    BY <1>3, RequestsStep, FilesStep DEF VerdictInv, AwayInv, SInv
  <2>2. CASE q = r
    BY <1>3, <2>1, <2>2, OwnScan
  <2>3. CASE q # r /\ q \notin touched'
    BY <1>2, <2>1, <2>3 DEF RequestStep, Renewed, FileStep
  <2> QED
    BY <2>2, <2>3 DEF ScanSound
<1>4. ASSUME Clean, NEW q \in Reqs PROVE ScanSound(q)'
  <2>1. LoopStep
    BY <1>4, LoopSteps DEF VerdictInv, AwayInv, SInv
  <2>2. CASE q \notin touched'
    BY <1>1, <1>2, <2>1, <2>2 DEF LoopStep
  <2> QED
    BY <2>2 DEF ScanSound
<1>5. CASE UNCHANGED vars
  BY <1>1, <1>5 DEF vars, VerdictInv, ScanSound
<1> QED
  BY <1>1, <1>3, <1>4, <1>5 DEF Next, VerdictInv

\* The verdict on an upload is the one on what was uploaded, if its path was left alone:
\* what the engines find at the path, one after the other, is then the upload all along.
THEOREM VerdictsAreOwn == Spec => []VerdictIsOwn
<1>1. VerdictInv => VerdictIsOwn
  <2> SUFFICES ASSUME VerdictInv, NEW r \in Reqs \ touched, req[r].status # "none"
               PROVE  LET k == Objections(req[r].name, req[r].stuff)
                      IN  req[r].status = IF k = 0 THEN "CLEAN"
                                          ELSE IF k < 3 THEN "SUSPICIOUS" ELSE "MALICIOUS"
    BY DEF VerdictIsOwn
  <2>1. req[r].status = Verdict(Objections(req[r].name, req[r].stuff))
    BY ObjectionsAre DEF VerdictInv, ScanSound
  <2>2. Objections(req[r].name, req[r].stuff) \in Nat
    BY ObjectionsAre DEF Found, One
  <2> QED
    BY <2>1, <2>2 DEF Verdict
<1> QED
  BY <1>1, VerdictInvInit, VerdictInvStep, PTL DEF Spec

-----------------------------------------------------------------------------
(* The images: one operation                                               *)

Ops == {"strip", "orient", "resize", "optimize", "thumb", "convert"}

\* What an operation on i can leave: a broken image never heals; a size changes only to
\* small, or by turning; the tag is lost to stripping, to conversion, and, where no EXIF
\* is in the way, to resizing and optimizing; none comes into being.
Leaves(op, i, j) ==
    /\ j \in Img!Image
    /\ j.size \in {i.size, "small"} \/ (op = "orient" /\ i.tilt = "tagged")
    /\ j.sound => i.sound
    /\ j.tilt = "lost" => \/ i.tilt = "lost" \/ op \in {"strip", "convert"}
                          \/ op \in {"resize", "optimize"} /\ i.tilt = "tagged" /\ ~i.exif
    /\ j.tilt = "tagged" => i.tilt = "tagged"

\* Stripped of its metadata, an image has the same size.
LEMMA Bares ==
    ASSUME NEW i \in Img!Image
    PROVE  /\ Img!Bare(i) \in Img!Image /\ Img!Bare(i).size = i.size
           /\ Img!Bare(i).exif = FALSE /\ Img!Bare(i).sound = i.sound
           /\ Img!Bare(i).tilt = IF i.tilt = "tagged" THEN "lost" ELSE i.tilt
<1> DEFINE t == IF i.tilt = "tagged" THEN "lost" ELSE i.tilt
<1>1. t \in {"upright", "tagged", "lost"}
  BY DEF Img!Image
<1>2. Img!Bare(i) = [i EXCEPT !.exif = FALSE, !.tilt = t]
  BY DEF Img!Bare
<1> HIDE DEF t
<1>3. /\ Img!Bare(i) \in Img!Image /\ Img!Bare(i).size = i.size
      /\ Img!Bare(i).exif = FALSE /\ Img!Bare(i).sound = i.sound
      /\ Img!Bare(i).tilt = t
  BY <1>1, <1>2 DEF Img!Image
<1> QED
  BY <1>3 DEF t

\* Turned, it has no tag any more, and the same size if it had none.
LEMMA Turns ==
    ASSUME NEW i \in Img!Image, NEW j \in Img!Turned(i)
    PROVE  /\ j \in Img!Image /\ j.sound = i.sound /\ j.tilt # "tagged"
           /\ j.tilt = "lost" => i.tilt = "lost"
           /\ i.tilt # "tagged" => j.size = i.size
<1> DEFINE t == IF i.tilt = "tagged" THEN "upright" ELSE i.tilt
<1>1. t \in {"upright", "lost"} /\ (t = "lost" => i.tilt = "lost")
  BY DEF Img!Image
<1> DEFINE new(n) == [i EXCEPT !.size = n.size, !.exif = n.exif, !.tilt = t]
<1>2. Img!Turned(i) = {new(n) : n \in [size : Img!Sides(i), exif : {FALSE, i.exif}]}
  BY DEF Img!Turned
<1> HIDE DEF t, new
<1>3. PICK n \in [size : Img!Sides(i), exif : {FALSE, i.exif}] : j = new(n)
  BY <1>2
<1>4. n.size \in Img!Sizes /\ (i.tilt # "tagged" => n.size = i.size)
  BY DEF Img!Sides, Img!Image, Img!Sizes
<1>5. n.exif \in BOOLEAN
  BY DEF Img!Image
<1> QED
  BY <1>1, <1>3, <1>4, <1>5 DEF Img!Image, new

\* What a save in place may leave: the old image, the new one or a broken one.
LEMMA SavesAre ==
    ASSUME NEW i \in Img!Image, NEW new \in Img!Image, NEW o \in Img!Saves(i, new)
    PROVE  /\ o.ok \in BOOLEAN /\ o.image \in Img!Image
           /\ o.ok => o.image = new
           /\ ~o.ok => o.image \in {i, Img!Broken}
<1>1. Img!Broken \in Img!Image
  BY DEF Img!Image, Img!Broken, Img!Sizes
<1>2. o \in {[ok |-> TRUE, image |-> new], [ok |-> FALSE, image |-> i], [ok |-> FALSE, image |-> Img!Broken]}
  BY DEF Img!Saves
<1>3. \/ o.ok = TRUE /\ o.image = new
      \/ o.ok = FALSE /\ o.image \in {i, Img!Broken}
  BY <1>2
<1> QED
  BY <1>1, <1>3

\* A broken image, and one left alone, are what any operation may leave.
LEMMA Left ==
    ASSUME NEW op, NEW i \in Img!Image, NEW j \in {i, Img!Broken}
    PROVE  Leaves(op, i, j)
<1>1. CASE j = i
  BY <1>1 DEF Leaves
<1>2. CASE j = Img!Broken
  <2>1. j \in Img!Image /\ j.size = "small" /\ j.sound = FALSE /\ j.tilt = "upright"
    BY <1>2 DEF Img!Image, Img!Broken, Img!Sizes
  <2> QED
    BY <2>1 DEF Leaves
<1> QED
  BY <1>1, <1>2

\* An image without warnings opens and has no metadata.
LEMMA NoWarnings ==
    ASSUME NEW i \in Img!Image, Img!Warnings(i) = {}
    PROVE  i.sound /\ ~i.exif /\ i.size \notin {"heavy", "bomb", "wide"}
<1>1. i.size # "heavy" /\ i.sound /\ i.size # "bomb"
  BY DEF Img!Warnings
<1>2. {w \in {"dimensions", "mismatch", "exif"} :
             \/ w = "dimensions" /\ i.size = "wide"
             \/ w = "mismatch" /\ i.odd
             \/ w = "exif" /\ i.exif} = {}
  BY <1>1 DEF Img!Warnings
<1> QED
  BY <1>1, <1>2

\* Each operation leaves what Leaves says, and answers ok or not.
LEMMA Operations ==
    ASSUME NEW op \in Ops, NEW i \in Img!Image, NEW o \in Img!Outcomes(op, i)
    PROVE  /\ o.ok \in BOOLEAN /\ Leaves(op, i, o.image)
           /\ op = "resize" /\ o.ok => o.image.size = "small"
           /\ op \in {"strip", "orient"} /\ o.ok => o.image.tilt # "tagged"
           /\ op = "thumb" /\ o.ok => Img!Warnings(i) = {} /\ o.image = i
<1>1. ASSUME o \in Img!Fails(i) PROVE o.ok = FALSE /\ Leaves(op, i, o.image)
  <2>1. o.ok = FALSE /\ o.image = i
    BY <1>1 DEF Img!Fails
  <2> QED
    BY <2>1, Left
<1>2. /\ Img!Bare(i) \in Img!Image /\ Img!Bare(i).size = i.size
      /\ Img!Bare(i).exif = FALSE /\ Img!Bare(i).sound = i.sound
      /\ Img!Bare(i).tilt = IF i.tilt = "tagged" THEN "lost" ELSE i.tilt
  BY Bares
<1>3. CASE op \in {"strip", "convert"}
  <2>1. \/ o \in Img!Fails(i) \/ o \in Img!Saves(i, Img!Bare(i))
        \/ op = "convert" /\ o \in Img!Saves(i, i)
    BY <1>3 DEF Img!Outcomes, Img!Strip, Img!Convert
  <2>2. CASE o \in Img!Saves(i, Img!Bare(i))
    <3>1. o.ok \in BOOLEAN /\ (o.ok => o.image = Img!Bare(i)) /\ (~o.ok => Leaves(op, i, o.image))
      BY <1>2, <2>2, SavesAre, Left
    <3>2. Leaves(op, i, Img!Bare(i)) /\ Img!Bare(i).tilt # "tagged"
      BY <1>2, <1>3 DEF Leaves
    <3> QED
      BY <1>3, <3>1, <3>2
  <2>3. CASE op = "convert" /\ o \in Img!Saves(i, i)
    BY <2>3, SavesAre, Left
  <2> QED
    BY <1>1, <1>3, <2>1, <2>2, <2>3
<1>4. CASE op = "orient"
  <2>1. \/ o \in Img!Fails(i)
        \/ \E j \in Img!Turned(i) : o \in Img!Saves(i, j)
        \/ o = [ok |-> TRUE, image |-> i] /\ i.tilt # "tagged"
    BY <1>4 DEF Img!Outcomes, Img!Orient
  <2>2. ASSUME NEW j \in Img!Turned(i), o \in Img!Saves(i, j)
        PROVE  o.ok \in BOOLEAN /\ Leaves(op, i, o.image) /\ (o.ok => o.image.tilt # "tagged")
    <3>1. /\ j \in Img!Image /\ j.sound = i.sound /\ j.tilt # "tagged"
          /\ j.tilt = "lost" => i.tilt = "lost"
          /\ i.tilt # "tagged" => j.size = i.size
      BY Turns
    <3>2. Leaves(op, i, j)
      BY <1>4, <3>1 DEF Leaves
    <3> QED
      BY <2>2, <3>1, <3>2, SavesAre, Left
  <2>3. CASE o = [ok |-> TRUE, image |-> i] /\ i.tilt # "tagged"
    <3>1. o.ok = TRUE /\ o.image = i /\ i.tilt # "tagged"
      BY <2>3
    <3> QED
      BY <1>4, <3>1, Left
  <2> QED
    BY <1>1, <1>4, <2>1, <2>2, <2>3
<1>5. ASSUME NEW new \in Img!Image, o \in Img!SavesAndStrips(i, new), Img!Warnings(i) = {},
             op \in {"resize", "optimize"},
             new.size \in {i.size, "small"}, new.sound = i.sound,
             new.tilt = IF i.tilt = "tagged" THEN "lost" ELSE i.tilt
      PROVE  /\ o.ok \in BOOLEAN /\ Leaves(op, i, o.image)
             /\ o.ok => o.image.size \in {new.size, "small"}
  <2>1. ~i.exif /\ new.tilt # "tagged"
    BY <1>5, NoWarnings
  <2>2. Leaves(op, i, new)
    BY <1>5, <2>1 DEF Leaves
  <2>3. CASE o \in Img!Saves(i, new)
    BY <2>2, <2>3, SavesAre, Left
  <2>4. CASE \E k \in Img!Strip(new) : o = [ok |-> TRUE, image |-> k.image]
    <3>1. PICK k \in Img!Strip(new) : o = [ok |-> TRUE, image |-> k.image]
      BY <2>4
    <3>2. k \in Img!Saves(new, Img!Bare(new)) \/ k = [ok |-> FALSE, image |-> new]
      BY DEF Img!Strip, Img!Fails
    <3>3. /\ Img!Bare(new) \in Img!Image /\ Img!Bare(new).size = new.size
          /\ Img!Bare(new).tilt = new.tilt /\ Img!Bare(new).sound = new.sound
      BY <2>1, Bares
    <3>4. k.image \in {new, Img!Bare(new), Img!Broken}
      <4>1. CASE k \in Img!Saves(new, Img!Bare(new))
        BY <3>3, <4>1, SavesAre
      <4>2. CASE k = [ok |-> FALSE, image |-> new]
        BY <4>2
      <4> QED
        BY <3>2, <4>1, <4>2
    <3>5. Leaves(op, i, Img!Bare(new))
      BY <1>5, <2>1, <3>3 DEF Leaves
    <3>6. o.ok = TRUE /\ o.image = k.image /\ Img!Broken.size = "small"
      BY <3>1 DEF Img!Broken
    <3>7. Leaves(op, i, Img!Broken)
      BY Left
    <3> QED
      BY <2>2, <3>3, <3>4, <3>5, <3>6, <3>7
  <2> QED
    BY <1>5, <2>3, <2>4 DEF Img!SavesAndStrips
<1>6. CASE op = "resize"
  <2> DEFINE new == [Img!Bare(i) EXCEPT !.size = "small"]
  <2>1. /\ new \in Img!Image /\ new.size = "small" /\ new.sound = i.sound
        /\ new.tilt = IF i.tilt = "tagged" THEN "lost" ELSE i.tilt
    <3>1. "small" \in Img!Sizes
      BY DEF Img!Sizes
    <3> DEFINE b == Img!Bare(i)
    <3>2. b \in Img!Image /\ b.sound = i.sound /\ b.tilt = IF i.tilt = "tagged" THEN "lost" ELSE i.tilt
      BY <1>2
    <3> HIDE DEF b
    <3>3. LET n == [b EXCEPT !.size = "small"]
          IN  n \in Img!Image /\ n.size = "small" /\ n.sound = b.sound /\ n.tilt = b.tilt
      BY <3>1, <3>2 DEF Img!Image
    <3> QED
      BY <3>2, <3>3 DEF b
  <2>2. o \in Img!Fails(i) \/ (Img!Warnings(i) = {} /\ o \in Img!SavesAndStrips(i, new))
    BY <1>6 DEF Img!Outcomes, Img!Resize
  <2> HIDE DEF new
  <2> QED
    BY <1>1, <1>5, <1>6, <2>1, <2>2
<1>7. CASE op = "optimize"
  <2>1. o \in Img!Fails(i) \/ (Img!Warnings(i) = {} /\ o \in Img!SavesAndStrips(i, Img!Bare(i)))
    BY <1>7 DEF Img!Outcomes, Img!Optimize
  <2> QED
    BY <1>1, <1>2, <1>5, <1>7, <2>1
<1>8. CASE op = "thumb"
  <2>1. \/ o \in Img!Fails(i)
        \/ Img!Warnings(i) = {} /\ \E b \in BOOLEAN : o = [ok |-> b, image |-> i]
    BY <1>8 DEF Img!Outcomes, Img!Thumb
  <2>2. CASE Img!Warnings(i) = {} /\ \E b \in BOOLEAN : o = [ok |-> b, image |-> i]
    <3>1. o.ok \in BOOLEAN /\ o.image = i
      BY <2>2
    <3> QED
      BY <1>8, <2>2, <3>1, Left
  <2> QED
    BY <1>1, <1>8, <2>1, <2>2
<1> QED
  BY <1>3, <1>4, <1>6, <1>7, <1>8 DEF Ops

-----------------------------------------------------------------------------
(* The images: files and calls                                             *)

\* An instance counts as its user does.
LEMMA SameCount ==
    /\ \A S : Img!IsFiniteSet(S) <=> IsFiniteSet(S)
    /\ \A S : Img!Cardinality(S) = Cardinality(S)
<1>1. \A S : Img!IsFiniteSet(S) <=> IsFiniteSet(S)
  BY DEF Img!IsFiniteSet, IsFiniteSet
<1>2. \A S : Img!Cardinality(S) = Cardinality(S)
  BY Zenon, <1>1 DEF Img!Cardinality, Cardinality
<1> QED
  BY <1>1, <1>2

\* Each file is somewhere and looks like something.
Filed == file \in [Images -> [dir : Img!Dirs, look : Img!Image]]

\* An image that is gone looks like one that may be uploaded.
LEMMA GoneLooks ==
    ASSUME Img!ImagesAssumption
    PROVE  /\ Img!Gone \in [dir : Img!Dirs, look : Img!Image] /\ Img!Gone.dir = "gone"
           /\ Img!Gone.look.tilt # "lost"
<1> DEFINE look == CHOOSE i \in Looks : TRUE
<1>1. look \in Looks /\ Looks \subseteq Img!Image /\ look.tilt # "lost"
  BY DEF Img!ImagesAssumption
<1>2. Img!Gone = [dir |-> "gone", look |-> look]
  BY DEF Img!Gone
<1> HIDE DEF look
<1> QED
  BY <1>1, <1>2 DEF Img!Dirs

\* A rename: the file keeps its look, and what had its name is gone.
LEMMA Renames ==
    ASSUME Img!ImagesAssumption, Filed, NEW f \in Images, NEW d \in Img!Dirs, Img!Move(f, d)
    PROVE  /\ Filed'
           /\ file'[f].dir = d /\ file'[f].look = file[f].look
           /\ \A g \in Images \ {f} : IF file[g].dir = d THEN file'[g] = Img!Gone
                                                         ELSE file'[g] = file[g]
<1> DEFINE new == [file[f] EXCEPT !.dir = d]
<1>1. file[f] \in [dir : Img!Dirs, look : Img!Image]
  BY DEF Filed
<1>2. /\ new \in [dir : Img!Dirs, look : Img!Image]
      /\ new.dir = d /\ new.look = file[f].look
  BY <1>1
<1>3. file' = [g \in Images |-> IF g = f THEN new ELSE IF file[g].dir = d THEN Img!Gone ELSE file[g]]
  BY DEF Img!Move
<1> HIDE DEF new
<1>4. /\ file'[f] = new
      /\ \A g \in Images \ {f} : IF file[g].dir = d THEN file'[g] = Img!Gone
                                                    ELSE file'[g] = file[g]
  BY <1>3
<1>5. Filed'
  BY <1>2, <1>3, GoneLooks DEF Filed
<1> QED
  BY <1>2, <1>4, <1>5

\* A file that is saved anew where it is.
LEMMA Resaves ==
    ASSUME Filed, NEW f \in Images, NEW i \in Img!Image, file' = [file EXCEPT ![f].look = i]
    PROVE  /\ Filed'
           /\ file'[f].dir = file[f].dir /\ file'[f].look = i
           /\ \A g \in Images \ {f} : file'[g] = file[g]
<1> DEFINE new == [file[f] EXCEPT !.look = i]
<1>1. file[f] \in [dir : Img!Dirs, look : Img!Image]
  BY DEF Filed
<1>2. /\ new \in [dir : Img!Dirs, look : Img!Image]
      /\ new.dir = file[f].dir /\ new.look = i
  BY <1>1
<1>3. file' = [file EXCEPT ![f] = new]
  OBVIOUS
<1> HIDE DEF new
<1>4. file'[f] = new /\ \A g \in Images \ {f} : file'[g] = file[g]
  BY <1>3 DEF Filed
<1> QED
  BY <1>2, <1>3, <1>4 DEF Filed

\* To the quarantine and its counter, a step does nothing,
Rests == UNCHANGED <<counted, owed>> /\ Img!Held' = Img!Held

\* or it leaves f there alone, which w has yet to count.
Adds(w, f) ==
    /\ counted + Cardinality(Img!Owing(1)) < MaxCount
    /\ counted' = counted /\ owed' = [owed EXCEPT ![w] = 1]
    /\ Img!Held' \subseteq {f}

\* What an operation on the path of f does, wherever f is.
RunStep(op, f, ok) ==
    /\ Filed' /\ Leaves(op, file[f].look, file'[f].look)
    /\ \A g \in Images \ {f} : file'[g] \in {file[g], Img!Gone}
    /\ ok => Img!There(f) /\ file'[f].dir = file[f].dir
    /\ op = "resize" /\ ok => file'[f].look.size = "small"
    /\ op \in {"strip", "orient"} /\ ok => file'[f].look.tilt # "tagged"
    /\ op = "thumb" /\ ok => Img!Warnings(file[f].look) = {} /\ file'[f].look = file[f].look
    /\ Rests \/ Adds(Caller, f)

\* Quarantined, an image is held alone, or stays where it is.
LEMMA QuarantinesImage ==
    ASSUME Img!ImagesAssumption, Filed, NEW w, NEW f \in Images, Img!Quarantine(w, f)
    PROVE  /\ Filed' /\ file'[f].look = file[f].look
           /\ \A g \in Images \ {f} : \/ file'[g] = file[g]
                                      \/ file[g].dir = "quarantine" /\ file'[g] = Img!Gone
           /\ Rests \/ Adds(w, f)
<1>1. CASE /\ counted + Img!Cardinality(Img!Owing(1)) < MaxCount
           /\ Img!Move(f, "quarantine") /\ owed' = [owed EXCEPT ![w] = 1]
  <2>1. "quarantine" \in Img!Dirs
    BY DEF Img!Dirs
  <2>2. /\ Filed' /\ file'[f].look = file[f].look
        /\ \A g \in Images \ {f} : IF file[g].dir = "quarantine" THEN file'[g] = Img!Gone
                                                                 ELSE file'[g] = file[g]
    BY <1>1, <2>1, Renames
  <2>3. Img!Held' \subseteq {f}
    BY <2>2, GoneLooks DEF Img!Held
  <2>4. counted' = counted /\ counted + Cardinality(Img!Owing(1)) < MaxCount
    BY <1>1, SameCount DEF Img!Quarantine
  <2> QED
    BY <1>1, <2>2, <2>3, <2>4 DEF Adds
<1>2. CASE UNCHANGED <<file, owed>>
  BY <1>2 DEF Filed, Img!Held, Img!Quarantine, Rests
<1> QED
  BY <1>1, <1>2 DEF Img!Quarantine

\* Whatever the operation, and wherever the file is.
LEMMA Runs ==
    ASSUME Img!ImagesAssumption, Filed, NEW op \in Ops, NEW f \in Images, NEW ok \in BOOLEAN,
           Img!Run(op, f, ok)
    PROVE  RunStep(op, f, ok)
<1> DEFINE i == file[f].look
<1>1. i \in Img!Image
  BY DEF Filed
<1>2. CASE op = "resize" /\ Img!There(f) /\ Img!Warnings(i) # {}
  <2>1. ~ok /\ Img!Quarantine(Caller, f)
    BY <1>2 DEF Img!Run
  <2>2. Leaves(op, i, i)
    BY <1>1, Left
  <2>3. /\ Filed' /\ file'[f].look = file[f].look
        /\ \A g \in Images \ {f} : file'[g] \in {file[g], Img!Gone}
        /\ Rests \/ Adds(Caller, f)
    BY <2>1, QuarantinesImage
  <2> QED
    BY <1>2, <2>1, <2>2, <2>3 DEF RunStep
<1>3. CASE ~(op = "resize" /\ Img!There(f) /\ Img!Warnings(i) # {})
  <2>1. PICK o \in IF Img!There(f) THEN Img!Outcomes(op, i) ELSE Img!Fails(i) :
           o.ok = ok /\ file' = [file EXCEPT ![f].look = o.image]
    BY <1>3 DEF Img!Run
  <2>2. UNCHANGED <<counted, owed>>
    BY <1>3 DEF Img!Run
  <2>3. /\ Leaves(op, i, o.image)
        /\ ok => Img!There(f)
        /\ op = "resize" /\ ok => o.image.size = "small"
        /\ op \in {"strip", "orient"} /\ ok => o.image.tilt # "tagged"
        /\ op = "thumb" /\ ok => Img!Warnings(i) = {} /\ o.image = i
    <3>1. CASE Img!There(f)
      BY <1>1, <2>1, <3>1, Operations
    <3>2. CASE ~Img!There(f)
      <4>1. o = [ok |-> FALSE, image |-> i]
        BY <2>1, <3>2 DEF Img!Fails
      <4>2. o.ok = FALSE /\ o.image = i
        BY <4>1
      <4> QED
        BY <1>1, <2>1, <4>2, Left
    <3> QED
      BY <3>1, <3>2
  <2>4. o.image \in Img!Image
    BY <2>3 DEF Leaves
  <2>5. /\ Filed' /\ file'[f].dir = file[f].dir /\ file'[f].look = o.image
        /\ \A g \in Images \ {f} : file'[g] = file[g]
    BY <2>1, <2>4, Resaves
  <2>6. Rests
    BY <2>2, <2>5 DEF Img!Held, Rests
  <2> HIDE DEF i
  <2> QED
    BY <2>3, <2>5, <2>6 DEF RunStep, i
<1> QED
  BY <1>2, <1>3

-----------------------------------------------------------------------------
(* The images: the invariant                                               *)

JobState == [pc : 0 .. 6, of : Images \cup {None}, opts : SUBSET Img!Options,
             big : BOOLEAN, tagged : BOOLEAN, errors : BOOLEAN]

\* What a job without errors knows of its image i: within the limits if it was found so,
\* unless it broke or was turned, or made so; a tag is the one of the first look, and
\* gone after turning.
OnCourse(i) ==
    /\ job.pc > 1 /\ ~job.big =>
          i.size = "small" \/ ~i.sound \/ (job.pc > 3 /\ Img!MayOutgrow(job))
    /\ job.pc \in {2, 3} /\ i.tilt = "tagged" => job.tagged
    /\ job.pc = 3 /\ i.tilt = "tagged" => "strip" \notin job.opts
    /\ job.pc > 3 => i.tilt # "tagged"
    /\ job.pc > 4 /\ "resize" \in job.opts /\ job.big => i.size = "small"

\* A job without errors has its file.
JobSound ==
    job.pc # 0 =>
        /\ job.of \in Images
        /\ ~job.errors => Img!There(job.of) /\ OnCourse(file[job.of].look)

Counted ==
    /\ counted \in Int /\ counted + Cardinality(Img!Owing(1)) <= MaxCount
    /\ inherited \in Nat /\ inherited <= Cardinality(Images)
    /\ owed \in [Img!Workers -> -1 .. 1]
    /\ Img!CounterCovers

ImgInv == Filed /\ job \in JobState /\ JobSound /\ Counted

\* The tag is lost to stripping and conversion, or, without EXIF, outside of a job
\* without errors.
Heeded ==
    \A f \in Images : file'[f].look.tilt = "lost" /\ file[f].look.tilt # "lost" =>
        \/ job.pc = 2 \/ Img!Reformat(f)
        \/ ~file[f].look.exif /\ (job.pc = 0 \/ job.errors)

\* An answer tells the truth.
Truthful ==
    Img!Ends =>
        /\ Img!Away(job.of) => job'.errors
        /\ ~job'.errors /\ "thumb" \in job.opts =>
              /\ ~Img!Away(job.of) /\ Img!After(job.of).sound
              /\ "strip" \in job.opts => ~Img!After(job.of).exif
              /\ "resize" \in job.opts => Img!After(job.of).size = "small" \/ Img!MayOutgrow(job)

Good == ImgInv' /\ Heeded /\ Truthful

\* The steps of a job, by their numbers.
LEMMA StepsAre ==
    /\ Len(Img!Steps) = 6
    /\ Img!Steps[2] = "strip" /\ Img!Steps[3] = "orient" /\ Img!Steps[4] = "resize"
    /\ Img!Steps[5] = "optimize" /\ Img!Steps[6] = "thumb"
  BY DEF Img!Steps

\* No job is a job without a step, with errors.
LEMMA IdleIs == Img!Idle \in JobState /\ Img!Idle.pc = 0 /\ Img!Idle.errors = TRUE
  BY DEF Img!Idle, JobState

\* The files in quarantine can be counted.
LEMMA HeldIs ==
    ASSUME Img!ImagesAssumption
    PROVE  /\ IsFiniteSet(Images) /\ Cardinality(Images) \in Nat
           /\ \A S \in SUBSET Images : /\ IsFiniteSet(S) /\ Cardinality(S) \in Nat
                                       /\ Cardinality(S) <= Cardinality(Images)
           /\ Img!Held \subseteq Images
  BY FS_Subset, FS_CardinalityType, SameCount DEF Img!ImagesAssumption, Img!Held

\* So can the workers that have yet to count.
LEMMA WorkersAre ==
    ASSUME Img!ImagesAssumption
    PROVE  /\ Caller \in Img!Workers /\ Threads \subseteq Img!Workers
           /\ \A S \in SUBSET Img!Workers : IsFiniteSet(S) /\ Cardinality(S) \in Nat
<1>1. IsFiniteSet(Threads)
  BY SameCount DEF Img!ImagesAssumption
<1>2. IsFiniteSet(Img!Workers)
  BY <1>1, FS_AddElement DEF Img!Workers
<1> QED
  BY <1>2, FS_Subset, FS_CardinalityType DEF Img!Workers

\* Those that owe n, of debts o.
Owe(o, n) == {x \in Img!Workers : o[x] = n}

\* One worker's debt changes: it leaves the ones that owe what it owed, and joins those
\* that owe what it owes.
LEMMA Settles ==
    ASSUME Img!ImagesAssumption, owed \in [Img!Workers -> -1 .. 1],
           owed' \in [Img!Workers -> -1 .. 1], NEW w \in Img!Workers,
           owed'[w] # owed[w], \A x \in Img!Workers \ {w} : owed'[x] = owed[x]
    PROVE  /\ Cardinality(Img!Owing(1)) \in Nat /\ Cardinality(Img!Owing(-1)) \in Nat
           /\ Cardinality(Img!Owing(1)') =
                 Cardinality(Img!Owing(1))
                     + (IF owed'[w] = 1 THEN 1 ELSE IF owed[w] = 1 THEN -1 ELSE 0)
           /\ Cardinality(Img!Owing(-1)') =
                 Cardinality(Img!Owing(-1))
                     + (IF owed'[w] = -1 THEN 1 ELSE IF owed[w] = -1 THEN -1 ELSE 0)
<1>1. /\ Img!Owing(1) = Owe(owed, 1) /\ Img!Owing(-1) = Owe(owed, -1)
      /\ Img!Owing(1)' = Owe(owed', 1) /\ Img!Owing(-1)' = Owe(owed', -1)
  BY DEF Img!Owing, Owe
<1>2. ASSUME NEW n \in Int
      PROVE  /\ Cardinality(Owe(owed, n)) \in Nat
             /\ Cardinality(Owe(owed', n)) =
                   Cardinality(Owe(owed, n))
                       + (IF owed'[w] = n THEN 1 ELSE IF owed[w] = n THEN -1 ELSE 0)
  <2>1. Owe(owed, n) \in SUBSET Img!Workers /\ Owe(owed', n) \in SUBSET Img!Workers
    BY DEF Owe
  <2>2. /\ IsFiniteSet(Owe(owed, n)) /\ Cardinality(Owe(owed, n)) \in Nat
        /\ Cardinality(Owe(owed', n)) \in Nat
    BY <2>1, WorkersAre
  <2>3. CASE owed'[w] = n
    <3>1. Owe(owed', n) = Owe(owed, n) \cup {w} /\ w \notin Owe(owed, n)
      BY <2>3 DEF Owe
    <3> QED
      BY <2>2, <2>3, <3>1, FS_AddElement
  <2>4. CASE owed[w] = n
    <3>1. Owe(owed', n) = Owe(owed, n) \ {w} /\ w \in Owe(owed, n)
      BY <2>4 DEF Owe
    <3> QED
      BY <2>2, <2>4, <3>1, FS_RemoveElement
  <2>5. CASE owed'[w] # n /\ owed[w] # n
    <3>1. Owe(owed', n) = Owe(owed, n)
      BY <2>5 DEF Owe
    <3> QED
      BY <2>2, <2>5, <3>1
  <2> QED
    BY <2>3, <2>4, <2>5
<1>3. 1 \in Int /\ -1 \in Int
  OBVIOUS
<1>4. /\ Cardinality(Owe(owed, 1)) \in Nat
      /\ Cardinality(Owe(owed', 1)) =
            Cardinality(Owe(owed, 1))
                + (IF owed'[w] = 1 THEN 1 ELSE IF owed[w] = 1 THEN -1 ELSE 0)
  BY <1>2, <1>3
<1>5. /\ Cardinality(Owe(owed, -1)) \in Nat
      /\ Cardinality(Owe(owed', -1)) =
            Cardinality(Owe(owed, -1))
                + (IF owed'[w] = -1 THEN 1 ELSE IF owed[w] = -1 THEN -1 ELSE 0)
  BY <1>2, <1>3
<1> QED
  BY <1>1, <1>4, <1>5

\* Counting: the quarantine rests, or holds one file that w has yet to count.
LEMMA Counting ==
    ASSUME Img!ImagesAssumption, Counted, NEW f \in Images, NEW w \in Img!Workers, owed[w] = 0,
           inherited' = inherited, Rests \/ Adds(w, f)
    PROVE  Counted'
<1>1. CASE Rests
  BY <1>1 DEF Rests, Counted, Img!CounterCovers, Img!Owing
<1>2. CASE Adds(w, f)
  <2>1. counted' = counted /\ owed' = [owed EXCEPT ![w] = 1] /\ Img!Held' \subseteq {f}
    BY <1>2 DEF Adds
  <2>2. /\ owed' \in [Img!Workers -> -1 .. 1]
        /\ Cardinality(Img!Owing(1)) \in Nat /\ Cardinality(Img!Owing(-1)) \in Nat
        /\ Cardinality(Img!Owing(1)') = Cardinality(Img!Owing(1)) + 1
        /\ Cardinality(Img!Owing(-1)') = Cardinality(Img!Owing(-1))
    <3>1. /\ owed' \in [Img!Workers -> -1 .. 1] /\ owed'[w] = 1
          /\ \A x \in Img!Workers \ {w} : owed'[x] = owed[x]
      BY <2>1 DEF Counted
    <3> QED
      BY <3>1, Settles DEF Counted
  <2>3. Cardinality(Img!Held) \in Nat
    BY HeldIs
  <2>4. IsFiniteSet({f}) /\ Cardinality({f}) = 1
    BY FS_Singleton
  <2>5. Cardinality(Img!Held') \in Nat /\ Cardinality(Img!Held') <= 1
    BY <2>1, <2>4, FS_Subset, FS_CardinalityType
  <2>6. MaxCount \in Nat /\ counted + Cardinality(Img!Owing(1)) < MaxCount
    BY <1>2 DEF Img!ImagesAssumption, Adds
  <2>7. Cardinality(Img!Held) + Cardinality(Img!Owing(-1))
           <= counted + inherited + Cardinality(Img!Owing(1))
    BY SameCount DEF Counted, Img!CounterCovers
  <2>8. Cardinality(Img!Held') + Cardinality(Img!Owing(-1)')
           <= counted + inherited + Cardinality(Img!Owing(1)')
    BY <2>2, <2>3, <2>5, <2>7 DEF Counted
  <2>9. Img!CounterCovers'
    BY <2>1, <2>8, SameCount DEF Img!CounterCovers
  <2> QED
    BY <2>1, <2>2, <2>6, <2>9 DEF Counted
<1> QED
  BY <1>1, <1>2

\* The invariant of the images holds at first.
LEMMA ImgInvInit ==
    ASSUME Img!ImagesAssumption
    PROVE  Img!Init => ImgInv
<1> SUFFICES ASSUME Img!Init PROVE ImgInv
  OBVIOUS
<1>1. /\ file = [f \in Images |-> Img!Gone] /\ job = Img!Idle /\ counted = 0 /\ inherited = 0
      /\ owed = [w \in Img!Workers |-> 0]
  BY DEF Img!Init
<1>2. Filed
  BY <1>1, GoneLooks DEF Filed
<1>3. job \in JobState /\ JobSound
  BY <1>1, IdleIs DEF JobSound
<1>4. Img!Held = {} /\ Img!Owing(1) = {} /\ Img!Owing(-1) = {}
  BY <1>1, GoneLooks DEF Img!Held, Img!Owing
<1>5. Cardinality({}) = 0 /\ Cardinality(Images) \in Nat /\ MaxCount \in Nat
  BY HeldIs, FS_EmptySet DEF Img!ImagesAssumption
<1>6. Img!CounterCovers
  BY <1>1, <1>4, <1>5, SameCount DEF Img!CounterCovers
<1>7. owed \in [Img!Workers -> -1 .. 1]
  BY <1>1
<1>8. Counted
  BY <1>1, <1>4, <1>5, <1>6, <1>7 DEF Counted
<1> QED
  BY <1>2, <1>3, <1>8 DEF ImgInv

\* Between jobs.
LEMMA UploadGood ==
    ASSUME Img!ImagesAssumption, ImgInv, NEW f \in Images, NEW d \in {"upload", "temp"}, Img!Upload(f, d)
    PROVE  Good
<1>1. job.pc = 0 /\ file[f] = Img!Gone /\ UNCHANGED <<job, counted, owed, inherited>>
  BY DEF Img!Upload
<1>2. PICK i \in Looks : file' = [file EXCEPT ![f] = [dir |-> d, look |-> i]]
  BY DEF Img!Upload
<1>3. i \in Img!Image /\ i.tilt # "lost"
  BY DEF Img!ImagesAssumption
<1> DEFINE new == [dir |-> d, look |-> i]
<1>4. new \in [dir : Img!Dirs, look : Img!Image] /\ new.dir = d /\ new.look = i
  BY <1>3 DEF Img!Dirs
<1>5. file' = [file EXCEPT ![f] = new]
  BY <1>2
<1> HIDE DEF new
<1>6. Filed' /\ file'[f] = new /\ \A g \in Images \ {f} : file'[g] = file[g]
  BY <1>3, <1>4, <1>5 DEF ImgInv, Filed
<1>7. Img!Held' = Img!Held
  BY <1>1, <1>4, <1>6, GoneLooks DEF Img!Held
<1>8. Counted'
  BY <1>1, <1>7 DEF ImgInv, Counted, Img!CounterCovers, Img!Owing
<1>9. Heeded
  BY <1>3, <1>4, <1>6 DEF Heeded
<1> QED
  BY <1>1, <1>6, <1>8, <1>9 DEF Good, ImgInv, JobSound, Truthful, Img!Ends

\* A file restored leaves the quarantine, and the caller has yet to count it out,
LEMMA RestoreGood ==
    ASSUME Img!ImagesAssumption, ImgInv, NEW f \in Images, Img!Restore(f)
    PROVE  Good
<1>1. job.pc = 0 /\ f \in Img!Held /\ owed[Caller] = 0 /\ UNCHANGED <<job, counted, inherited>>
  BY DEF Img!Restore, Img!Ready
<1>2. CASE Img!Move(f, "upload") /\ owed' = [owed EXCEPT ![Caller] = -1]
  <2>1. "upload" \in Img!Dirs
    BY DEF Img!Dirs
  <2>2. /\ Filed' /\ file'[f].dir = "upload" /\ file'[f].look = file[f].look
        /\ \A g \in Images \ {f} : IF file[g].dir = "upload" THEN file'[g] = Img!Gone
                                                             ELSE file'[g] = file[g]
    BY <1>2, <2>1, Renames DEF ImgInv
  <2>3. Img!Held' = Img!Held \ {f}
    BY <2>2, GoneLooks DEF Img!Held
  <2>4. Cardinality(Img!Held') = Cardinality(Img!Held) - 1 /\ Cardinality(Img!Held) \in Nat
    BY <1>1, <2>3, HeldIs, FS_RemoveElement
  <2>5. Caller \in Img!Workers /\ -1 \in -1 .. 1
    BY WorkersAre
  <2>6. /\ owed' \in [Img!Workers -> -1 .. 1]
        /\ Cardinality(Img!Owing(1)) \in Nat /\ Cardinality(Img!Owing(-1)) \in Nat
        /\ Cardinality(Img!Owing(1)') = Cardinality(Img!Owing(1))
        /\ Cardinality(Img!Owing(-1)') = Cardinality(Img!Owing(-1)) + 1
    <3>1. /\ owed' \in [Img!Workers -> -1 .. 1] /\ owed'[Caller] = -1
          /\ \A x \in Img!Workers \ {Caller} : owed'[x] = owed[x]
      BY <1>2, <2>5 DEF ImgInv, Counted
    <3> QED
      BY <1>1, <2>5, <3>1, Settles DEF ImgInv, Counted
  <2>7. Cardinality(Img!Held) + Cardinality(Img!Owing(-1))
           <= counted + inherited + Cardinality(Img!Owing(1))
    BY SameCount DEF ImgInv, Counted, Img!CounterCovers
  <2>8. Cardinality(Img!Held') + Cardinality(Img!Owing(-1)')
           <= counted + inherited + Cardinality(Img!Owing(1)')
    BY <2>4, <2>6, <2>7 DEF ImgInv, Counted
  <2>9. Counted'
    BY <1>1, <2>6, <2>8, SameCount DEF ImgInv, Counted, Img!CounterCovers
  <2>10. Heeded
    BY <2>2, GoneLooks DEF Heeded
  <2> QED
    BY <1>1, <2>2, <2>9, <2>10 DEF Good, ImgInv, JobSound, Truthful, Img!Ends
<1>3. CASE UNCHANGED <<file, owed>>
  BY <1>1, <1>3 DEF Good, ImgInv, Filed, JobSound, Counted, Img!CounterCovers, Img!Held, Img!Owing,
                   Heeded, Truthful, Img!Ends
<1> QED
  BY <1>2, <1>3 DEF Img!Restore

\* an operation by itself loses the tag if it converts, or where no EXIF is,
LEMMA CallGood ==
    ASSUME Img!ImagesAssumption, ImgInv, NEW f \in Images, Img!Call(f) \/ Img!Reformat(f)
    PROVE  Good
<1>1. job.pc = 0 /\ owed[Caller] = 0 /\ UNCHANGED <<job, inherited>>
  BY DEF Img!Call, Img!Reformat, Img!Ready
<1>2. PICK op \in Ops, ok \in BOOLEAN :
         Img!Run(op, f, ok) /\ op # "strip" /\ (op = "convert" => Img!Reformat(f))
  BY DEF Img!Call, Img!Reformat, Ops
<1>3. RunStep(op, f, ok)
  BY <1>2, Runs DEF ImgInv
<1>4. Filed' /\ Counted'
  BY <1>1, <1>3, Counting, WorkersAre DEF RunStep, ImgInv
<1>5. Heeded
  BY <1>1, <1>2, <1>3, GoneLooks DEF RunStep, Leaves, Heeded
<1> QED
  BY <1>1, <1>4, <1>5 DEF Good, ImgInv, JobSound, Truthful, Img!Ends

\* a job begins with its file there,
LEMMA ProcessGood ==
    ASSUME Img!ImagesAssumption, ImgInv, NEW f \in Images, Img!Process(f)
    PROVE  Good
<1>1. PICK opts \in SUBSET Img!Options :
         job' = [pc |-> 1, of |-> f, opts |-> opts, big |-> FALSE, tagged |-> FALSE, errors |-> FALSE]
  BY DEF Img!Process
<1>2. job.pc = 0 /\ Img!There(f) /\ UNCHANGED <<file, counted, owed, inherited>>
  BY DEF Img!Process, Img!Ready
<1>3. job' \in JobState
  BY <1>1 DEF JobState, Img!Options
<1>4. job'.pc = 1 /\ job'.of = f
  BY <1>1
<1>5. JobSound'
  BY <1>2, <1>4 DEF JobSound, OnCourse, Img!There
<1>6. Filed' /\ Counted'
  BY <1>2 DEF ImgInv, Filed, Counted, Img!CounterCovers, Img!Held, Img!Owing
<1>7. Heeded /\ Truthful
  BY <1>2 DEF Heeded, Truthful, Img!Ends
<1> QED
  BY <1>3, <1>5, <1>6, <1>7 DEF Good, ImgInv

\* a cleanup takes nothing that is held,
LEMMA CleanupGood ==
    ASSUME Img!ImagesAssumption, ImgInv, Img!Cleanup
    PROVE  Good
<1>1. job.pc = 0 /\ UNCHANGED <<job, counted, owed, inherited>>
  BY DEF Img!Cleanup, Img!Ready
<1>2. PICK S \in SUBSET {f \in Images : file[f].dir = "temp"} :
         file' = [f \in Images |-> IF f \in S THEN Img!Gone ELSE file[f]]
  BY DEF Img!Cleanup
<1>3. Filed'
  BY <1>2, GoneLooks DEF ImgInv, Filed
<1>4. \A f \in Images : file'[f] = file[f] \/ (file'[f] = Img!Gone /\ file[f].dir = "temp")
  BY <1>2
<1>5. Img!Held' = Img!Held
  BY <1>4, GoneLooks DEF Img!Held
<1>6. Counted'
  BY <1>1, <1>5 DEF ImgInv, Counted, Img!CounterCovers, Img!Owing
<1>7. Heeded
  BY <1>4, GoneLooks DEF Heeded
<1> QED
  BY <1>1, <1>3, <1>6, <1>7 DEF Good, ImgInv, JobSound, Truthful, Img!Ends

\* and a restart inherits what is held.
LEMMA RestartGood ==
    ASSUME Img!ImagesAssumption, ImgInv, Img!Restart
    PROVE  Good
<1>1. /\ file' = file /\ job' = Img!Idle /\ counted' = 0 /\ inherited' = Cardinality(Img!Held)
      /\ owed' = [w \in Img!Workers |-> 0]
  BY SameCount DEF Img!Restart
<1>2. Img!Held' = Img!Held /\ Img!Owing(1)' = {} /\ Img!Owing(-1)' = {}
  BY <1>1 DEF Img!Held, Img!Owing
<1>3. /\ Cardinality(Img!Held) \in Nat /\ MaxCount \in Nat /\ Cardinality({}) = 0
      /\ Cardinality(Img!Held) <= Cardinality(Images)
  BY HeldIs, FS_EmptySet DEF Img!ImagesAssumption
<1>4. owed' \in [Img!Workers -> -1 .. 1]
  BY <1>1
<1>5. Counted'
  BY <1>1, <1>2, <1>3, <1>4, SameCount DEF Counted, Img!CounterCovers
<1> QED
  BY <1>1, <1>5, IdleIs DEF Good, ImgInv, Filed, JobSound, Heeded, Truthful

\* A thread of /scan leaves the file of a job alone, and so what the job knows of it.
LEMMA ScanGood ==
    ASSUME Img!ImagesAssumption, ImgInv, NEW t \in Threads, NEW f \in Images, Img!Scan(t, f)
    PROVE  Good
<1>1. /\ owed[t] = 0 /\ f # job.of /\ Img!Quarantine(t, f)
      /\ job' = job /\ inherited' = inherited /\ t \in Img!Workers
  BY WorkersAre DEF Img!Scan
<1>2. /\ Filed' /\ file'[f].look = file[f].look
      /\ \A g \in Images \ {f} : \/ file'[g] = file[g]
                                 \/ file[g].dir = "quarantine" /\ file'[g] = Img!Gone
      /\ Rests \/ Adds(t, f)
  BY <1>1, QuarantinesImage DEF ImgInv
<1>3. Counted'
  BY <1>1, <1>2, Counting DEF ImgInv
<1>4. Heeded
  BY <1>2, GoneLooks DEF Heeded
<1>5. JobSound'
  <2> SUFFICES ASSUME job.pc # 0, ~job.errors PROVE Img!There(job.of)' /\ OnCourse(file[job.of].look)'
    BY <1>1 DEF ImgInv, JobSound
  <2>1. job.of \in Images \ {f} /\ Img!There(job.of) /\ OnCourse(file[job.of].look)
    BY <1>1 DEF ImgInv, JobSound
  <2>2. file'[job.of] = file[job.of]
    BY <1>2, <2>1 DEF Img!There
  <2> QED
    BY <1>1, <2>1, <2>2 DEF Img!There, OnCourse
<1> QED
  BY <1>1, <1>2, <1>3, <1>4, <1>5 DEF Good, ImgInv, Truthful, Img!Ends

\* To count is to pay what is owed.
LEMMA CountGood ==
    ASSUME Img!ImagesAssumption, ImgInv, NEW w \in Img!Workers, Img!Count(w)
    PROVE  Good
<1>1. /\ owed[w] # 0 /\ counted' = counted + owed[w] /\ owed' = [owed EXCEPT ![w] = 0]
      /\ UNCHANGED <<file, job, inherited>>
  BY DEF Img!Count
<1>2. owed \in [Img!Workers -> -1 .. 1] /\ owed[w] \in {-1, 1}
  BY <1>1 DEF ImgInv, Counted
<1>3. /\ owed' \in [Img!Workers -> -1 .. 1] /\ owed'[w] = 0
      /\ \A x \in Img!Workers \ {w} : owed'[x] = owed[x]
  BY <1>1, <1>2
<1>4. /\ owed' \in [Img!Workers -> -1 .. 1]
      /\ Cardinality(Img!Owing(1)) \in Nat /\ Cardinality(Img!Owing(-1)) \in Nat
      /\ Cardinality(Img!Owing(1)') =
            IF owed[w] = 1 THEN Cardinality(Img!Owing(1)) - 1 ELSE Cardinality(Img!Owing(1))
      /\ Cardinality(Img!Owing(-1)') =
            IF owed[w] = -1 THEN Cardinality(Img!Owing(-1)) - 1 ELSE Cardinality(Img!Owing(-1))
  BY <1>1, <1>2, <1>3, Settles
<1>5. Img!Held' = Img!Held /\ Cardinality(Img!Held) \in Nat /\ MaxCount \in Nat
  BY <1>1, HeldIs DEF Img!Held, Img!ImagesAssumption
<1>6. /\ counted \in Int /\ inherited \in Nat /\ counted + Cardinality(Img!Owing(1)) <= MaxCount
      /\ Cardinality(Img!Held) + Cardinality(Img!Owing(-1))
            <= counted + inherited + Cardinality(Img!Owing(1))
  BY SameCount DEF ImgInv, Counted, Img!CounterCovers
<1>7. /\ counted' \in Int /\ counted' + Cardinality(Img!Owing(1)') <= MaxCount
      /\ Cardinality(Img!Held) + Cardinality(Img!Owing(-1)')
            <= counted' + inherited + Cardinality(Img!Owing(1)')
  <2>1. CASE owed[w] = 1
    BY <1>1, <1>4, <1>5, <1>6, <2>1
  <2>2. CASE owed[w] = -1
    BY <1>1, <1>4, <1>5, <1>6, <2>2
  <2> QED
    BY <1>2, <2>1, <2>2
<1>8. Counted'
  BY <1>1, <1>4, <1>5, <1>7, SameCount DEF ImgInv, Counted, Img!CounterCovers
<1> QED
  BY <1>1, <1>8 DEF Good, ImgInv, Filed, JobSound, OnCourse, Img!There, Heeded, Truthful, Img!Ends

\* The job goes on after its first look.
LEMMA Sees ==
    ASSUME job \in JobState, NEW b \in BOOLEAN, NEW c \in BOOLEAN,
           job' = [job EXCEPT !.pc = 2, !.big = b, !.tagged = c]
    PROVE  /\ job' \in JobState /\ job'.pc = 2 /\ job'.of = job.of /\ job'.big = b
           /\ job'.tagged = c /\ job'.errors = job.errors
<1>1. 2 \in 0 .. 6
  OBVIOUS
<1>2. job' \in JobState
  BY <1>1 DEF JobState
<1> QED
  BY <1>2 DEF JobState

\* The first look: what is critical ends the job, with errors.
LEMMA LookGood ==
    ASSUME Img!ImagesAssumption, ImgInv, Img!Look
    PROVE  Good
<1> DEFINE i == file[job.of].look
           b == i.sound /\ i.size # "small"
           c == i.tilt = "tagged"
<1>1. job.pc = 1 /\ job.of \in Images /\ owed[Caller] = 0 /\ UNCHANGED inherited
  BY DEF Img!Look, Img!Ready, ImgInv, JobSound
<1>2. i \in Img!Image
  BY <1>1 DEF ImgInv, Filed
<1>3. CASE Img!Critical(i)
  <2>1. Img!Quarantine(Caller, job.of) /\ job' = Img!Idle
    BY <1>3 DEF Img!Look
  <2>2. /\ Filed' /\ file'[job.of].look = i
        /\ \A g \in Images \ {job.of} : file'[g] \in {file[g], Img!Gone}
        /\ Rests \/ Adds(Caller, job.of)
    BY <1>1, <2>1, QuarantinesImage DEF ImgInv
  <2>3. Counted'
    BY <1>1, <2>2, Counting, WorkersAre DEF ImgInv
  <2>4. Heeded
    BY <1>1, <2>2, GoneLooks DEF Heeded
  <2> QED
    BY <2>1, <2>2, <2>3, <2>4, IdleIs DEF Good, ImgInv, JobSound, Truthful
<1>4. CASE ~Img!Critical(i)
  <2>1. /\ job' = [job EXCEPT !.pc = 2, !.big = b, !.tagged = c]
        /\ UNCHANGED <<file, counted, owed, inherited>>
    BY <1>4 DEF Img!Look
  <2>2. b \in BOOLEAN /\ c \in BOOLEAN
    OBVIOUS
  <2>3. (~b => i.size = "small" \/ ~i.sound) /\ (i.tilt = "tagged" => c)
    OBVIOUS
  <2> HIDE DEF b, c
  <2>4. /\ job' \in JobState /\ job'.pc = 2 /\ job'.of = job.of /\ job'.big = b
        /\ job'.tagged = c /\ job'.errors = job.errors
    BY <2>1, <2>2, Sees DEF ImgInv
  <2>5. JobSound'
    BY <1>1, <2>1, <2>3, <2>4 DEF ImgInv, JobSound, OnCourse, Img!There
  <2>6. Filed' /\ Counted'
    BY <2>1 DEF ImgInv, Filed, Counted, Img!CounterCovers, Img!Held, Img!Owing
  <2> QED
    BY <2>1, <2>4, <2>5, <2>6 DEF Good, ImgInv, Heeded, Truthful, Img!Ends
<1> QED
  BY <1>3, <1>4

\* The job goes on to its next step, or ends.
LEMMA Advances ==
    ASSUME job \in JobState, job.pc > 1, NEW e \in BOOLEAN,
           job' = IF job.pc = 6 THEN [Img!Idle EXCEPT !.errors = e]
                  ELSE [job EXCEPT !.pc = @ + 1, !.errors = e]
    PROVE  /\ job' \in JobState /\ job'.errors = e
           /\ job.pc = 6 => job'.pc = 0
           /\ job.pc # 6 => /\ job'.pc = job.pc + 1 /\ job'.of = job.of
                            /\ job'.opts = job.opts /\ job'.big = job.big
                            /\ job'.tagged = job.tagged
<1>1. job.pc \in 2 .. 6
  BY DEF JobState
<1>2. CASE job.pc = 6
  <2>1. job' = [Img!Idle EXCEPT !.errors = e]
    BY <1>2
  <2> QED
    BY <1>2, <2>1, IdleIs DEF JobState, Img!Idle
<1>3. CASE job.pc # 6
  <2>1. job' = [job EXCEPT !.pc = @ + 1, !.errors = e]
    BY <1>3
  <2>2. job.pc + 1 \in 0 .. 6
    BY <1>1, <1>3
  <2> QED
    BY <1>3, <2>1, <2>2 DEF JobState
<1> QED
  BY <1>2, <1>3

\* One of the steps, after the first look.
LEMMA StepGood ==
    ASSUME Img!ImagesAssumption, ImgInv, Img!Step
    PROVE  Good
<1> DEFINE op == Img!Steps[job.pc]
           f == job.of
           i == file[f].look
           j == file'[f].look
<1>1. /\ job.pc \in 2 .. 6 /\ f \in Images /\ job \in JobState /\ inherited' = inherited
      /\ owed[Caller] = 0
      /\ ~job.errors => Img!There(f) /\ OnCourse(i)
  <2>1. job.pc > 1 /\ inherited' = inherited /\ owed[Caller] = 0
    BY DEF Img!Step, Img!Ready
  <2>2. job \in JobState /\ job.pc \in 0 .. 6
    BY DEF ImgInv, JobState
  <2> QED
    BY <2>1, <2>2 DEF ImgInv, JobSound
<1>2. /\ op \in Ops /\ op # "convert" /\ (op = "strip" <=> job.pc = 2)
      /\ (op = "orient" <=> job.pc = 3) /\ (op = "resize" <=> job.pc = 4)
      /\ (op = "thumb" <=> job.pc = 6)
  BY <1>1, StepsAre DEF Ops
<1> HIDE DEF op
<1>3. PICK e \in BOOLEAN :
         /\ job' = IF job.pc = 6 THEN [Img!Idle EXCEPT !.errors = e]
                   ELSE [job EXCEPT !.pc = @ + 1, !.errors = e]
         /\ \/ /\ Img!Asked(op)
               /\ \E ok \in BOOLEAN : RunStep(op, f, ok) /\ (e <=> job.errors \/ ~ok)
            \/ ~Img!Asked(op) /\ e = job.errors /\ UNCHANGED <<file, counted, owed>>
  <2>1. CASE Img!Asked(op)
    <3>1. PICK ok \in BOOLEAN :
             /\ Img!Run(op, f, ok)
             /\ job' = IF job.pc = 6 THEN [Img!Idle EXCEPT !.errors = job.errors \/ ~ok]
                       ELSE [job EXCEPT !.pc = @ + 1, !.errors = job.errors \/ ~ok]
      BY <2>1, StepsAre DEF Img!Step, op
    <3>2. RunStep(op, f, ok)
      BY <1>1, <1>2, <3>1, Runs DEF ImgInv
    <3> DEFINE e == job.errors \/ ~ok
    <3>3. e \in BOOLEAN /\ (e <=> job.errors \/ ~ok)
      OBVIOUS
    <3>4. job' = IF job.pc = 6 THEN [Img!Idle EXCEPT !.errors = e]
                 ELSE [job EXCEPT !.pc = @ + 1, !.errors = e]
      BY <3>1
    <3> HIDE DEF e
    <3> QED
      BY <2>1, <3>2, <3>3, <3>4
  <2>2. CASE ~Img!Asked(op)
    <3>1. job.errors \in BOOLEAN
      BY <1>1 DEF JobState
    <3>2. /\ UNCHANGED <<file, counted, owed>>
          /\ job' = IF job.pc = 6 THEN [Img!Idle EXCEPT !.errors = job.errors]
                    ELSE [job EXCEPT !.pc = @ + 1, !.errors = job.errors]
      BY <2>2, StepsAre DEF Img!Step, op
    <3> QED
      BY <2>2, <3>1, <3>2
  <2> QED
    BY <2>1, <2>2
<1>4. /\ job' \in JobState /\ job'.errors = e
      /\ job.pc = 6 => job'.pc = 0
      /\ job.pc # 6 => /\ job'.pc = job.pc + 1 /\ job'.of = f
                       /\ job'.opts = job.opts /\ job'.big = job.big
                       /\ job'.tagged = job.tagged
  <2>1. job.pc > 1 /\ job \in JobState
    BY <1>1
  <2> QED
    BY <1>3, <2>1, Advances
<1>5. i \in Img!Image
  BY <1>1 DEF ImgInv, Filed
<1>6. /\ Filed' /\ Leaves(op, i, j)
      /\ \A g \in Images \ {f} : file'[g] \in {file[g], Img!Gone}
      /\ ~e => ~job.errors /\ file'[f].dir = file[f].dir
      /\ ~e /\ Img!Asked(op) => /\ op = "resize" => j.size = "small"
                                /\ op \in {"strip", "orient"} => j.tilt # "tagged"
                                /\ op = "thumb" => Img!Warnings(i) = {} /\ j = i
      /\ Rests \/ Adds(Caller, f)
  <2>1. CASE ~Img!Asked(op) /\ e = job.errors /\ UNCHANGED <<file, counted, owed>>
    <3>1. Leaves(op, i, j)
      BY <1>5, <2>1, Left
    <3>2. Filed' /\ Rests
      BY <2>1 DEF ImgInv, Filed, Rests, Img!Held
    <3> QED
      BY <2>1, <3>1, <3>2
  <2>2. ASSUME NEW ok \in BOOLEAN, RunStep(op, f, ok), e <=> job.errors \/ ~ok
        PROVE  /\ Filed' /\ Leaves(op, i, j)
               /\ \A g \in Images \ {f} : file'[g] \in {file[g], Img!Gone}
               /\ ~e => ~job.errors /\ file'[f].dir = file[f].dir
               /\ ~e => /\ op = "resize" => j.size = "small"
                        /\ op \in {"strip", "orient"} => j.tilt # "tagged"
                        /\ op = "thumb" => Img!Warnings(i) = {} /\ j = i
               /\ Rests \/ Adds(Caller, f)
    BY <2>2 DEF RunStep
  <2> QED
    BY <1>3, <2>1, <2>2
<1>7. Counted'
  BY <1>1, <1>6, Counting, WorkersAre DEF ImgInv
<1>8. Heeded
  <2> SUFFICES ASSUME j.tilt = "lost", i.tilt # "lost", job.pc # 2
               PROVE  ~i.exif /\ job.errors
    BY <1>1, <1>6, GoneLooks DEF Heeded
  <2>1. op \in {"resize", "optimize"} /\ i.tilt = "tagged" /\ ~i.exif
    BY <1>2, <1>6 DEF Leaves
  <2>2. job.pc > 3
    BY <1>1, <1>2, <2>1
  <2> QED
    BY <1>1, <2>1, <2>2 DEF OnCourse
<1>9. ~e => Img!There(f) /\ ~Img!Away(f)
  BY <1>1, <1>6 DEF Img!There, Img!Away
<1>10. JobSound'
  <2> SUFFICES ASSUME job.pc # 6, ~e
               PROVE  Img!There(job.of)' /\ OnCourse(file[job.of].look)'
    BY <1>1, <1>4 DEF JobSound, Img!There
  <2>1. Img!There(job.of)'
    BY <1>4, <1>9 DEF Img!There, Img!Away
  <2>2. OnCourse(i) /\ ~job.errors
    BY <1>1, <1>6
  <2>3. j.tilt = "tagged" => i.tilt = "tagged"
    BY <1>6 DEF Leaves
  <2>4. job.pc = 2 /\ j.tilt = "tagged" => job.tagged /\ "strip" \notin job.opts
    BY <1>2, <1>6, <2>2, <2>3 DEF OnCourse, Img!Asked
  <2>5. job.pc > 2 => j.tilt # "tagged"
    BY <1>1, <1>2, <1>6, <2>2, <2>3 DEF OnCourse, Img!Asked
  <2>6. ~job.big => j.size = "small" \/ ~j.sound \/ (job.pc > 2 /\ Img!MayOutgrow(job))
    <3>1. CASE op = "orient" /\ i.tilt = "tagged"
      BY <1>1, <1>2, <2>2, <3>1 DEF OnCourse, Img!MayOutgrow
    <3>2. CASE ~(op = "orient" /\ i.tilt = "tagged")
      BY <1>1, <1>6, <2>2, <3>2 DEF OnCourse, Leaves
    <3> QED
      BY <3>1, <3>2
  <2>7. job.pc > 3 /\ "resize" \in job.opts /\ job.big => j.size = "small"
    <3>1. CASE job.pc = 4
      BY <1>2, <1>6, <3>1 DEF Img!Asked
    <3>2. CASE job.pc > 4
      BY <1>1, <1>2, <1>6, <2>2, <3>2 DEF OnCourse, Leaves
    <3> QED
      BY <1>1, <3>1, <3>2
  <2> QED
    BY <1>1, <1>4, <2>1, <2>4, <2>5, <2>6, <2>7 DEF OnCourse, Img!MayOutgrow
<1>11. Truthful
  <2> SUFFICES ASSUME job.pc = 6
               PROVE  /\ Img!Away(f) => e
                      /\ ~e /\ "thumb" \in job.opts =>
                            /\ ~Img!Away(f) /\ Img!After(f).sound
                            /\ "strip" \in job.opts => ~Img!After(f).exif
                            /\ "resize" \in job.opts =>
                                  Img!After(f).size = "small" \/ Img!MayOutgrow(job)
    BY <1>1, <1>4 DEF Truthful, Img!Ends
  <2>1. Img!Away(f) => e
    BY <1>9
  <2>2. ASSUME ~e, "thumb" \in job.opts
        PROVE  /\ ~Img!Away(f) /\ Img!After(f).sound /\ ~Img!After(f).exif
               /\ "resize" \in job.opts => Img!After(f).size = "small" \/ Img!MayOutgrow(job)
    <3>1. op = "thumb" /\ Img!Asked(op)
      BY <1>2, <2>2 DEF Img!Asked
    <3>2. Img!Warnings(i) = {} /\ j = i
      BY <1>6, <2>2, <3>1
    <3>3. i.sound /\ ~i.exif
      BY <1>5, <3>2, NoWarnings
    <3>4. "resize" \in job.opts => i.size = "small" \/ Img!MayOutgrow(job)
      BY <1>1, <1>6, <2>2, <3>3 DEF OnCourse
    <3> QED
      BY <1>9, <2>2, <3>2, <3>3, <3>4 DEF Img!After
  <2> QED
    BY <2>1, <2>2
<1> QED
  BY <1>4, <1>6, <1>7, <1>8, <1>10, <1>11 DEF Good, ImgInv

\* So any step is good,
LEMMA ImgNext ==
    ASSUME Img!ImagesAssumption, ImgInv, Img!Next
    PROVE  Good
<1>1. ASSUME NEW f \in Images, NEW d \in {"upload", "temp"}, Img!Upload(f, d) PROVE Good
  BY <1>1, UploadGood
<1>2. ASSUME NEW f \in Images, Img!Restore(f) \/ Img!Call(f) \/ Img!Reformat(f) \/ Img!Process(f)
      PROVE  Good
  BY <1>2, RestoreGood, CallGood, ProcessGood
<1>3. ASSUME NEW t \in Threads, NEW f \in Images, Img!Scan(t, f) PROVE Good
  BY <1>3, ScanGood
<1>4. ASSUME NEW w \in Img!Workers, Img!Count(w) PROVE Good
  BY <1>4, CountGood
<1> QED
  BY <1>1, <1>2, <1>3, <1>4, LookGood, StepGood, CleanupGood, RestartGood DEF Img!Next

\* and the invariant inductive.
LEMMA ImgStep ==
    ASSUME Img!ImagesAssumption
    PROVE  ImgInv /\ [Img!Next]_Img!vars => ImgInv'
<1> SUFFICES ASSUME ImgInv, [Img!Next]_Img!vars PROVE ImgInv'
  OBVIOUS
<1>1. CASE Img!Next
  BY <1>1, ImgNext DEF Good
<1>2. CASE UNCHANGED Img!vars
  BY <1>2 DEF Img!vars, ImgInv, Filed, JobSound, OnCourse, Img!There, Counted, Img!CounterCovers,
              Img!Held, Img!Owing
<1> QED
  BY <1>1, <1>2

\* The images keep their types, and the counter its bound.
THEOREM ImagesTypeCorrect ==
    ASSUME Img!ImagesAssumption
    PROVE  Img!Spec => []Img!TypeOK
<1>1. ImgInv => Img!TypeOK
  <2> SUFFICES ASSUME ImgInv PROVE Img!TypeOK
    OBVIOUS
  <2>1. counted \in Int /\ counted <= MaxCount /\ inherited \in 0 .. Cardinality(Images)
    <3>1. Img!Owing(1) \in SUBSET Img!Workers
      BY DEF Img!Owing
    <3>2. Cardinality(Images) \in Nat /\ Cardinality(Img!Owing(1)) \in Nat /\ MaxCount \in Nat
      BY <3>1, HeldIs, WorkersAre DEF Img!ImagesAssumption
    <3> QED
      BY <3>2 DEF ImgInv, Counted
  <2> QED
    BY <2>1, StepsAre, SameCount DEF ImgInv, Filed, Counted, JobState, Img!TypeOK
<1> QED
  BY <1>1, ImgInvInit, ImgStep, PTL DEF Img!Spec

\* The handler counts every file in quarantine that it put there and left, but for the
\* renames that are yet to be counted: restoring one that was there before it was made
\* takes away what inherited still covers.
THEOREM CounterAlwaysCovers ==
    ASSUME Img!ImagesAssumption
    PROVE  Img!Spec => []CounterCovers
<1>1. ImgInv => CounterCovers
  BY DEF ImgInv, Counted, CounterCovers
<1> QED
  BY <1>1, ImgInvInit, ImgStep, PTL DEF Img!Spec

\* An answer without errors in which a thumbnail was made is true of the file, but for an
\* image within the limits at first that its tag turned out of them.
THEOREM CleanAnswersAreTrue ==
    ASSUME Img!ImagesAssumption
    PROVE  Img!Spec => CleanAnswer
<1> DEFINE A == Img!Ends /\ ~job'.errors /\ "thumb" \in job.opts =>
                   /\ ~Img!Away(job.of) /\ Img!After(job.of).sound
                   /\ "strip" \in job.opts => ~Img!After(job.of).exif
                   /\ "resize" \in job.opts =>
                         Img!After(job.of).size = "small" \/ Img!MayOutgrow(job)
<1>1. ImgInv /\ [Img!Next]_Img!vars => [A]_Img!vars
  BY ImgNext DEF Good, Truthful
<1>2. CleanAnswer <=> [][A]_Img!vars
  BY DEF CleanAnswer, Img!CleanAnswer
<1> QED
  BY <1>1, <1>2, ImgInvInit, ImgStep, PTL DEF Img!Spec

\* An image that a job took away is told in its errors.
THEOREM AwayIsAlwaysTold ==
    ASSUME Img!ImagesAssumption
    PROVE  Img!Spec => AwayIsTold
<1> DEFINE A == Img!Ends /\ Img!Away(job.of) => job'.errors
<1>1. ImgInv /\ [Img!Next]_Img!vars => [A]_Img!vars
  BY ImgNext DEF Good, Truthful
<1>2. AwayIsTold <=> [][A]_Img!vars
  BY DEF AwayIsTold, Img!AwayIsTold
<1> QED
  BY <1>1, <1>2, ImgInvInit, ImgStep, PTL DEF Img!Spec

\* The tag that says how to turn an image is lost to stripping and conversion only, or,
\* where no EXIF makes the operations refuse the image, to one by itself or after a failure.
THEOREM TagsAreHeeded ==
    ASSUME Img!ImagesAssumption
    PROVE  Img!Spec => TagHeeded
<1> DEFINE A == \A f \in Images : Img!After(f).tilt = "lost" /\ file[f].look.tilt # "lost" =>
                   \/ job.pc = 2 \/ Img!Reformat(f)
                   \/ ~file[f].look.exif /\ (job.pc = 0 \/ job.errors)
<1>1. ImgInv /\ [Img!Next]_Img!vars => [A]_Img!vars
  BY ImgNext DEF Good, Heeded, Img!After
<1>2. TagHeeded <=> [][A]_Img!vars
  BY DEF TagHeeded, Img!TagHeeded
<1> QED
  BY <1>1, <1>2, ImgInvInit, ImgStep, PTL DEF Img!Spec

-----------------------------------------------------------------------------
(* The two halves                                                          *)

\* A behaviour that drives one half is a behaviour of each, so that what is proved of the
\* scanner and of the images holds of the whole.
THEOREM BothHalves == HalvesSpec => Spec /\ Img!Spec
<1>1. HalvesInit => Init /\ Img!Init
  BY DEF HalvesInit
<1>2. [HalvesNext]_<<half, vars, imageVars>> => [Next]_vars /\ [Img!Next]_Img!vars
  BY DEF HalvesNext, imageVars, Img!vars
<1> QED
  BY <1>1, <1>2, PTL DEF HalvesSpec, Spec, Img!Spec
=============================================================================

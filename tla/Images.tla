------------------------------- MODULE Images -------------------------------
(***************************************************************************)
(* The image half of LighterTotal's MultiFileHandler (multi.py): an upload *)
(* is looked at, stripped of its metadata, turned, resized, optimized and  *)
(* given a thumbnail, each operation saving over the file in place; the    *)
(* quarantine takes what is refused and gives it back. One caller works on *)
(* images; beside it the threads of /scan, which share the handler, put    *)
(* into quarantine what they find malicious, but a job has its file to     *)
(* itself, and uploads come between jobs. Any save may fail before it      *)
(* begins or half-way, when it leaves a file that no longer opens, and any *)
(* rename may fail. An image is named by its first upload, a file has one  *)
(* base name wherever it is.                                               *)
(***************************************************************************)
EXTENDS Integers, Sequences, FiniteSets

CONSTANTS
    Images,     \* uploads, all of one base name
    Looks,      \* what an upload may look like, a subset of Image
    None,       \* no image
    Threads,    \* request threads inside /scan
    Caller,     \* the one that works on images
    MaxCount    \* bound: how often the quarantine may be counted up

\* Within 1920 x 1080; larger; beyond MAX_IMAGE_PIXELS; beyond twice that, which
\* Image.open refuses; beyond 50000 in one direction; a file beyond 100 MB.
Sizes == {"small", "large", "huge", "bomb", "wide", "heavy"}

\* The tag, of EXIF or of XMP, says how to turn the image; it is lost when the metadata
\* goes first. Only EXIF is warned about.
Image == [size  : Sizes,
          exif  : BOOLEAN,                          \* the file has EXIF metadata
          tilt  : {"upright", "tagged", "lost"},
          odd   : BOOLEAN,                          \* its format is not that of its name
          sound : BOOLEAN]                          \* Image.open understands it

ImagesAssumption ==
    /\ Looks \subseteq Image /\ Looks # {}
    /\ \A i \in Looks : i.tilt # "lost"
    /\ IsFiniteSet(Images) /\ None \notin Images
    /\ IsFiniteSet(Threads) /\ Caller \notin Threads
    /\ MaxCount \in Nat

VARIABLES
    file,       \* where the file of each image is, and what is in it
    job,        \* the process_image_upload under way, or the answer of the last one
    counted,    \* upload_stats['quarantined_files']
    owed,       \* what each worker, after its rename, has yet to add to the counter
    inherited   \* history: what was in quarantine when the handler was made

vars == <<file, job, counted, owed, inherited>>

Workers == Threads \cup {Caller}

Options == {"strip", "resize", "optimize", "thumb"}

\* Mutated: the thumbnail is made before the image is optimized.
StepsThumbFirst == <<"info", "strip", "orient", "resize", "thumb", "optimize">>

Steps == <<"info", "strip", "orient", "resize", "optimize", "thumb">>

\* The step it is at, 0 between jobs; whether the image was beyond the limits at the
\* first look; history: whether it was tagged then; whether errors were reported.
Idle == [pc |-> 0, of |-> None, opts |-> {}, big |-> FALSE, tagged |-> FALSE, errors |-> TRUE]

Dirs == {"upload", "temp", "quarantine", "gone"}
Gone == [dir |-> "gone", look |-> CHOOSE i \in Looks : TRUE]

Init ==
    /\ file = [f \in Images |-> Gone]
    /\ job = Idle
    /\ counted = 0 /\ inherited = 0
    /\ owed = [w \in Workers |-> 0]

There(f) == file[f].dir \in {"upload", "temp"}
Held == {f \in Images : file[f].dir = "quarantine"}
Owing(n) == {w \in Workers : owed[w] = n}

-----------------------------------------------------------------------------
(* One image                                                               *)

Opens(i) == i.sound /\ i.size # "bomb"

\* _get_image_info: security_warnings
Warnings(i) ==
    IF i.size = "heavy" THEN {"too large"}
    ELSE IF ~i.sound THEN {"processing error"}
    ELSE IF i.size = "bomb" THEN {"decompression bomb"}
    ELSE {w \in {"dimensions", "mismatch", "exif"} :
             \/ w = "dimensions" /\ i.size = "wide"
             \/ w = "mismatch" /\ i.odd
             \/ w = "exif" /\ i.exif}

\* The third critical phrase, 'suspicious dimensions', is not how the warning is worded.
Critical(i) == Warnings(i) \cap {"too large", "decompression bomb"} # {}

\* A save that was cut short leaves a file of which nothing can be read.
Broken == [size |-> "small", exif |-> FALSE, tilt |-> "upright", odd |-> FALSE, sound |-> FALSE]

\* An operation answers ok or not and leaves an image.
Fails(i) == {[ok |-> FALSE, image |-> i]}
Saves(i, new) ==
    {[ok |-> TRUE, image |-> new], [ok |-> FALSE, image |-> i],
     [ok |-> FALSE, image |-> Broken]}

\* The pixels are saved alone.
Bare(i) == [i EXCEPT !.exif = FALSE, !.tilt = IF @ = "tagged" THEN "lost" ELSE @]
Strip(i) == IF Opens(i) THEN Saves(i, Bare(i)) ELSE Fails(i)

\* A quarter turn swaps width and height, which may take the image out of the box of
\* 1920 x 1080 or into it.
Sides(i) ==
    IF i.tilt = "tagged" /\ i.size \in {"small", "large"} THEN {"small", "large"} ELSE {i.size}

\* exif_transpose takes the tag away as it turns; whether other metadata is saved
\* along depends on the format. Without a tag the image may or may not be saved.
Turned(i) ==
    {[i EXCEPT !.size = new.size, !.exif = new.exif, !.tilt = IF @ = "tagged" THEN "upright" ELSE @] :
        new \in [size : Sides(i), exif : {FALSE, i.exif}]}
Orient(i) ==
    IF ~Opens(i) THEN Fails(i)
    ELSE (UNION {Saves(i, new) : new \in Turned(i)})
         \cup {o \in {[ok |-> TRUE, image |-> i]} : i.tilt # "tagged"}

\* A save in place and then _strip_image_metadata, whose answer nobody looks at.
SavesAndStrips(i, new) ==
    (Saves(i, new) \ {[ok |-> TRUE, image |-> new]})
    \cup {[ok |-> TRUE, image |-> o.image] : o \in Strip(new)}

Resize(i) ==
    IF Warnings(i) # {} \/ i.size = "huge" THEN Fails(i)
    ELSE SavesAndStrips(i, [Bare(i) EXCEPT !.size = "small"])

\* Mutated: an image with warnings is optimized all the same.
OptimizeAnyway(i) ==
    IF ~Opens(i) \/ i.size = "huge" THEN Fails(i) ELSE SavesAndStrips(i, Bare(i))

Optimize(i) ==
    IF Warnings(i) # {} \/ i.size = "huge" THEN Fails(i) ELSE SavesAndStrips(i, Bare(i))

\* The thumbnail is a file of its own.
Thumb(i) ==
    IF Warnings(i) # {} \/ i.size = "huge" THEN Fails(i)
    ELSE {[ok |-> ok, image |-> i] : ok \in BOOLEAN}

\* Into the format it has, which is in place, and without any check; some formats
\* save the metadata along.
Convert(i) == IF Opens(i) THEN UNION {Saves(i, new) : new \in {i, Bare(i)}} ELSE Fails(i)

Outcomes(op, i) ==
    CASE op = "strip"    -> Strip(i)
      [] op = "orient"   -> Orient(i)
      [] op = "resize"   -> Resize(i)
      [] op = "optimize" -> Optimize(i)
      [] op = "thumb"    -> Thumb(i)
      [] op = "convert"  -> Convert(i)

-----------------------------------------------------------------------------
(* Files                                                                   *)

\* A rename replaces the file of that name.
Move(f, dir) ==
    file' = [g \in Images |-> IF g = f THEN [file[f] EXCEPT !.dir = dir]
                             ELSE IF file[g].dir = dir THEN Gone ELSE file[g]]

\* An upload is saved, or the member of an archive unpacked below temp.
Upload(f, dir) ==
    /\ job.pc = 0 /\ file[f] = Gone
    /\ \A g \in Images : file[g].dir # dir
    /\ \E i \in Looks : file' = [file EXCEPT ![f] = [dir |-> dir, look |-> i]]
    /\ UNCHANGED <<job, counted, owed, inherited>>

\* The caller has nothing left to count before its next call or step.
Ready(pc) == owed[Caller] = 0 /\ job.pc = pc

\* _quarantine_file by w; a failing rename is only logged.
Quarantine(w, f) ==
    /\ \/ /\ counted + Cardinality(Owing(1)) < MaxCount
          /\ Move(f, "quarantine")
          /\ owed' = [owed EXCEPT ![w] = 1]
       \/ UNCHANGED <<file, owed>>
    /\ UNCHANGED counted

\* A thread of /scan finds a file malicious.
Scan(t, f) ==
    /\ owed[t] = 0
    /\ file[f].dir = "upload" /\ f # job.of
    /\ Quarantine(t, f)
    /\ UNCHANGED <<job, inherited>>

\* Mutated: the file is counted out before it is renamed.
RestoreCountsFirst(f) ==
    /\ Ready(0) /\ f \in Held
    /\ counted' = counted - 1
    /\ Move(f, "upload") \/ UNCHANGED file
    /\ UNCHANGED <<job, owed, inherited>>

\* restore_quarantined_file: over whatever has the name in the upload directory.
Restore(f) ==
    /\ Ready(0) /\ f \in Held
    /\ \/ Move(f, "upload") /\ owed' = [owed EXCEPT ![Caller] = -1]
       \/ UNCHANGED <<file, owed>>
    /\ UNCHANGED <<job, counted, inherited>>

\* The += 1 or -= 1 after a rename; Python 3.13 lets no other thread in between.
Count(w) ==
    /\ owed[w] # 0
    /\ counted' = counted + owed[w]
    /\ owed' = [owed EXCEPT ![w] = 0]
    /\ UNCHANGED <<file, job, inherited>>

\* cleanup_temp_files, as far as it gets.
Cleanup ==
    /\ Ready(0)
    /\ \E S \in SUBSET {f \in Images : file[f].dir = "temp"} :
          file' = [f \in Images |-> IF f \in S THEN Gone ELSE file[f]]
    /\ UNCHANGED <<job, counted, owed, inherited>>

\* The process starts again: a new handler counts from zero.
Restart ==
    /\ job' = Idle
    /\ counted' = 0
    /\ owed' = [w \in Workers |-> 0]
    /\ inherited' = Cardinality(Held)
    /\ UNCHANGED file

-----------------------------------------------------------------------------
(* Calls                                                                   *)

\* An operation on the path of f, which may be empty by now, answers ok or not.
Run(op, f, ok) ==
    IF op = "resize" /\ There(f) /\ Warnings(file[f].look) # {}
    THEN ~ok /\ Quarantine(Caller, f)
    ELSE /\ \E o \in IF There(f) THEN Outcomes(op, file[f].look) ELSE Fails(file[f].look) :
               o.ok = ok /\ file' = [file EXCEPT ![f].look = o.image]
         /\ UNCHANGED <<counted, owed>>

\* A caller uses an operation by itself, or converts the image.
Call(f) ==
    /\ Ready(0) /\ There(f)
    /\ \E op \in {"resize", "optimize", "thumb", "orient"}, ok \in BOOLEAN : Run(op, f, ok)
    /\ UNCHANGED <<job, inherited>>

Reformat(f) ==
    /\ Ready(0) /\ There(f)
    /\ \E ok \in BOOLEAN : Run("convert", f, ok)
    /\ UNCHANGED <<job, inherited>>

\* process_image_upload
Process(f) ==
    /\ Ready(0) /\ There(f)
    /\ \E opts \in SUBSET Options :
          job' = [pc |-> 1, of |-> f, opts |-> opts, big |-> FALSE, tagged |-> FALSE, errors |-> FALSE]
    /\ UNCHANGED <<file, counted, owed, inherited>>

\* Mutated: a quarantined image is only warned about.
LookQuietly ==
    LET i == file[job.of].look IN
    /\ Ready(1)
    /\ IF Critical(i)
       THEN Quarantine(Caller, job.of) /\ job' = [Idle EXCEPT !.errors = FALSE]
       ELSE /\ job' = [job EXCEPT !.pc = 2, !.big = i.sound /\ i.size # "small", !.tagged = i.tilt = "tagged"]
            /\ UNCHANGED <<file, counted, owed>>
    /\ UNCHANGED inherited

\* The first look; critical warnings end the job.
Look ==
    LET i == file[job.of].look IN
    /\ Ready(1)
    /\ IF Critical(i)
       THEN Quarantine(Caller, job.of) /\ job' = Idle
       ELSE /\ job' = [job EXCEPT !.pc = 2, !.big = i.sound /\ i.size # "small", !.tagged = i.tilt = "tagged"]
            /\ UNCHANGED <<file, counted, owed>>
    /\ UNCHANGED inherited

Asked(op) == op = "orient" \/ (op \in job.opts /\ (op = "resize" => job.big))

\* The next of the steps, if it is asked for; the last one ends the job.
Step ==
    LET op == Steps[job.pc]
        Then(errors) == job' = IF job.pc = Len(Steps) THEN [Idle EXCEPT !.errors = errors]
                               ELSE [job EXCEPT !.pc = @ + 1, !.errors = errors]
    IN
    /\ job.pc > 1 /\ Ready(job.pc)
    /\ IF Asked(op)
       THEN \E ok \in BOOLEAN : Run(op, job.of, ok) /\ Then(job.errors \/ ~ok)
       ELSE Then(job.errors) /\ UNCHANGED <<file, counted, owed>>
    /\ UNCHANGED inherited

Next ==
    \/ \E f \in Images, dir \in {"upload", "temp"} : Upload(f, dir)
    \/ \E f \in Images : Restore(f) \/ Call(f) \/ Reformat(f) \/ Process(f)
    \/ \E t \in Threads, f \in Images : Scan(t, f)
    \/ \E w \in Workers : Count(w)
    \/ Look \/ Step \/ Cleanup \/ Restart

Spec == Init /\ [][Next]_vars

-----------------------------------------------------------------------------
TypeOK ==
    /\ file \in [Images -> [dir : Dirs, look : Image]]
    /\ job \in [pc : 0 .. Len(Steps), of : Images \cup {None}, opts : SUBSET Options,
                big : BOOLEAN, tagged : BOOLEAN, errors : BOOLEAN]
    /\ counted \in Int /\ counted <= MaxCount
    /\ owed \in [Workers -> -1 .. 1]
    /\ inherited \in 0 .. Cardinality(Images)

Ends == job.pc # 0 /\ job'.pc = 0
After(f) == file'[f].look
Away(f) == file'[f].dir \notin {"upload", "temp"}

\* The dimensions that decide on a resize are those of the first look: of an image
\* that was within the limits then, and was turned afterwards by its tag, nothing is
\* promised.
MayOutgrow(j) == ~j.big /\ j.tagged /\ "strip" \notin j.opts

\* An answer without errors in which a thumbnail was made is about an image that is
\* there, opens, and is what was asked for: the thumbnail is what finds out that an
\* earlier step, which ignored the failure of its own last save, broke the file.
CleanAnswer ==
    [][ Ends /\ ~job'.errors /\ "thumb" \in job.opts =>
          /\ ~Away(job.of) /\ After(job.of).sound
          /\ "strip" \in job.opts => ~After(job.of).exif
          /\ "resize" \in job.opts => After(job.of).size = "small" \/ MayOutgrow(job) ]_vars

\* An image that a job took away is told in its errors, by whichever step.
AwayIsTold == [][ Ends /\ Away(job.of) => job'.errors ]_vars

\* The tag that says how to turn an image goes unheeded only when stripping was asked
\* for, which comes before turning, or by a conversion; or, where no EXIF makes the
\* operations refuse the image, by one called by itself or after turning has failed.
TagHeeded ==
    [][ \A f \in Images : After(f).tilt = "lost" /\ file[f].look.tilt # "lost" =>
          \/ job.pc = 2 \/ Reformat(f)
          \/ ~file[f].look.exif /\ (job.pc = 0 \/ job.errors) ]_vars

\* The counter never falls behind the quarantine by more than the renames that are yet
\* to be counted: no file that this handler put there and left goes uncounted.
CounterCovers ==
    Cardinality(Held) + Cardinality(Owing(-1)) <= counted + inherited + Cardinality(Owing(1))
=============================================================================

------------------------------- MODULE Reviews -------------------------------
(***************************************************************************)
(* The sites where a reported page is reviewed by a browser: spotivibe     *)
(* ("songs": an account reports a song of its own), ez ("urls": an account *)
(* reports any address) and LighterTotal ("notes": a report is a file of   *)
(* its own, and the request waits for its review). The thread of a review  *)
(* takes one awaited call per step and any of them may raise; the browser  *)
(* logs in through the site's own login while the thread merely pauses.    *)
(* The process may restart, with or without database.db; session cookies   *)
(* are signed with a key from config.json and outlive both.                *)
(***************************************************************************)
EXTENDS Naturals, Sequences, FiniteSets

CONSTANTS
    Editions,               \* those of {"songs", "urls", "notes"} that are run
    Clients,                \* visitors; each has one password of its own
    Names,                  \* usernames they choose
    Admin,                  \* ADMIN_USER, whose password is ADMIN_PASS
    NoteIds,                \* what random.getrandbits(32) may give
    Threads,                \* the reviews that may be under way at once
    None,
    MaxUsers, MaxSongs, MaxLosses       \* bounds

ASSUME ReviewsAssumption ==
    /\ Editions \subseteq {"songs", "urls", "notes"}
    /\ Admin \notin Names \cup Clients /\ None \notin Clients
    /\ MaxUsers \in Nat \ {0} /\ MaxSongs \in Nat /\ MaxLosses \in Nat

VARIABLES
    edition,
    users,      \* the rows of users: the id of a row is its place
    songs,      \* the rows of songs: their user_id, and as history who added them
    notes,      \* what was written to the file of each id
    session,    \* the session cookie of each client: user_id, and the database it is of
    lost,       \* how often database.db was lost
    review      \* the threads

vars == <<edition, users, songs, notes, session, lost, review>>

\* config.json's password of the admin is told from those of the clients.
Row(n, p) == [name |-> n, password |-> p]

NoSession == [id |-> 0, since |-> 0]
Stale(s) == s.since # lost

-----------------------------------------------------------------------------
(* What the browser does. A step stands for the calls up to the next one   *)
(* that the other actors can tell; the sleeps only take time.              *)

SiteSteps == <<"launch", "login", "submit", "cookie", "visit", "close">>
NoteSteps == <<"launch", "visit", "cookie", "visit", "close">>

Steps == IF edition = "notes" THEN NoteSteps ELSE SiteSteps

Running(r) == review[r].pc # 0
Vacant(r) == ~Running(r) /\ ~review[r].browser
At(r) == Steps[review[r].pc]

\* Mutated: an exception ends the thread wherever it is raised.
LeftOpen(r) == 0

\* Where a thread goes on after a step that raised: spotivibe has no finally.
AfterFailure(r) ==
    IF review[r].browser /\ At(r) # "close" /\ edition # "songs" THEN Len(Steps) ELSE 0

\* The thread of a review: its step, 0 when it is over, what was reported, by whom, whether
\* the browser is logged in as the admin and has the bot's cookie, what the reported page
\* last showed it, and what its caller was told.
Idle == [pc |-> 0, what |-> {}, by |-> None, stale |-> FALSE,
         admin |-> FALSE, cookie |-> FALSE, browser |-> FALSE, saw |-> {}, marked |-> FALSE,
         raised |-> "none", reply |-> "none"]

\* What can be reported, and what the page of a report can show.
Reportable == IF edition = "songs" THEN 1 .. MaxSongs ELSE IF edition = "urls" THEN {"url"} ELSE NoteIds
Shown == IF edition = "notes" THEN Threads ELSE Reportable

ReviewState == [pc : 0 .. Len(Steps), what : SUBSET Reportable, by : Clients \cup {None}, stale : BOOLEAN,
                admin : BOOLEAN, cookie : BOOLEAN, browser : BOOLEAN, saw : SUBSET Shown, marked : BOOLEAN,
                raised : {"none", "call", "close"},
                reply : {"none", "will review", "reviewed", "failed to review"}]

\* What the song page shows the browser: any song to the admin, and none, only the login
\* form, to a browser whose login was not answered yet.
SongPage(r) ==
    IF review[r].admin THEN review[r].what \cap DOMAIN songs ELSE {}

Page(r) ==
    CASE edition = "songs" -> SongPage(r)
      [] edition = "urls"  -> review[r].what
      [] edition = "notes" -> UNION {notes[i] : i \in review[r].what}

Start(r, what, c, s, reply) ==
    review' = [review EXCEPT ![r] = [Idle EXCEPT
        !.pc = 1, !.what = what, !.by = c, !.stale = Stale(s), !.reply = reply]]

\* subprocess.run waits for a note's review, which has failed when any step raised.
Verdict(raised, pc) ==
    IF edition # "notes" THEN "will review"
    ELSE IF pc # 0 THEN "none"
    ELSE IF raised = "none" THEN "reviewed" ELSE "failed to review"

Opened(r) == At(r) # "close"

NextPc(r) == IF review[r].pc = Len(Steps) THEN 0 ELSE review[r].pc + 1

Continued(r) ==
    [review[r] EXCEPT
        !.pc = NextPc(r),
        !.browser = Opened(r),
        !.cookie = IF At(r) = "cookie" THEN TRUE ELSE review[r].cookie,
        !.saw = IF At(r) = "visit" THEN Page(r) ELSE review[r].saw,
        !.marked = IF At(r) = "visit" THEN review[r].cookie ELSE review[r].marked,
        !.reply = Verdict(review[r].raised, NextPc(r))]

Done(r) ==
    /\ Running(r)
    /\ review' = [review EXCEPT ![r] = Continued(r)]
    /\ UNCHANGED <<edition, users, songs, notes, session, lost>>

Raises(r) ==
    /\ Running(r)
    /\ review' = [review EXCEPT ![r] = [@ EXCEPT
           !.pc = AfterFailure(r),
           !.raised = IF At(r) = "close" THEN "close" ELSE "call",
           !.reply = Verdict("call", AfterFailure(r))]]
    /\ UNCHANGED <<edition, users, songs, notes, session, lost>>

Step(r) == Done(r) \/ Raises(r)

-----------------------------------------------------------------------------
(* Accounts and sessions                                                   *)

Accounts == edition \in {"songs", "urls"}

\* UNIQUE; a taken name and a locked database raise alike and are answered alike.
Free(n) == \A i \in DOMAIN users : users[i].name # n

\* fetchone and check_password_hash: the row that lets p in as n, if there is one.
LoginIds(n, p) ==
    {i \in DOMAIN users :
        /\ users[i] = Row(n, p)
        /\ \A j \in 1 .. i - 1 : users[j].name # n}

\* init_db of an empty database: the tables, and INSERT OR IGNORE of the admin.
Seeded == <<Row(Admin, Admin)>>

Register(c, n) ==
    /\ Accounts /\ session[c] = NoSession /\ Len(users) < MaxUsers
    /\ Free(n)
    /\ users' = Append(users, Row(n, c))
    /\ UNCHANGED <<edition, songs, notes, session, lost, review>>

Login(c, n) ==
    /\ Accounts /\ session[c] = NoSession
    /\ \E i \in LoginIds(n, c) :
          session' = [session EXCEPT ![c] = [id |-> i, since |-> lost]]
    /\ UNCHANGED <<edition, users, songs, notes, lost, review>>

Logout(c) ==
    /\ Accounts /\ session[c] # NoSession
    /\ session' = [session EXCEPT ![c] = NoSession]
    /\ UNCHANGED <<edition, users, songs, notes, lost, review>>

\* The browser's own login is handled at any time after it was submitted; once it has
\* gone on to the reported page the answer changes nothing.
BrowserLogin(r) ==
    /\ Accounts /\ LoginIds(Admin, Admin) # {}
    /\ Running(r) /\ At(r) \in {"cookie", "visit"}
    /\ review' = [review EXCEPT ![r].admin = TRUE]
    /\ UNCHANGED <<edition, users, songs, notes, session, lost>>

-----------------------------------------------------------------------------
(* Songs and reports                                                       *)

\* A link as urlparse sees it after unquote.
Links == [parses : BOOLEAN, scheme : {"http", "https", "other"}, spotify : BOOLEAN,
          embed : BOOLEAN, quote : BOOLEAN]

\* is_valid_spotify_url
Valid(u) ==
    /\ u.parses
    /\ u.scheme \in {"http", "https"}
    /\ u.spotify /\ u.embed /\ ~u.quote

AddSong(c, u) ==
    /\ edition = "songs" /\ session[c] # NoSession /\ Len(songs) < MaxSongs
    /\ Valid(u)
    /\ songs' = Append(songs, [user_id |-> session[c].id, by |-> c, stale |-> Stale(session[c])])
    /\ UNCHANGED <<edition, users, notes, session, lost, review>>

\* Mutated: the owner is not asked for.
FoundByAnyone(c, s) == s \in DOMAIN songs

\* SELECT id FROM songs WHERE id = ? AND user_id = ?
Found(c, s) == s \in DOMAIN songs /\ songs[s].user_id = session[c].id

ReportSong(c, s, r) ==
    /\ edition = "songs" /\ session[c] # NoSession /\ Vacant(r)
    /\ Found(c, s)
    /\ Start(r, {s}, c, session[c], "will review")
    /\ UNCHANGED <<edition, users, songs, notes, session, lost>>

ReportUrl(c, r) ==
    /\ edition = "urls" /\ session[c] # NoSession /\ Vacant(r)
    /\ Start(r, {"url"}, c, session[c], "will review")
    /\ UNCHANGED <<edition, users, songs, notes, session, lost>>

\* Mutated: the file is opened for writing, not for appending.
WrittenOver(r, i) == {r}

\* open(filepath, 'a'): the reports that were given the same number share a file.
Written(r, i) == notes[i] \cup {r}

ReportNote(c, i, r) ==
    /\ edition = "notes" /\ Vacant(r)
    /\ notes' = [notes EXCEPT ![i] = Written(r, i)]
    /\ Start(r, {i}, c, NoSession, "none")
    /\ UNCHANGED <<edition, users, songs, session, lost>>

-----------------------------------------------------------------------------
Init ==
    /\ edition \in Editions
    /\ users = Seeded /\ songs = <<>>
    /\ notes = [i \in NoteIds |-> {}]
    /\ session = [c \in Clients |-> NoSession]
    /\ lost = 0
    /\ review = [r \in Threads |-> Idle]

\* The container starts again, its browsers and threads gone, on the files it had or,
\* when it is made anew, on none.
Restart ==
    /\ review' = [r \in Threads |-> Idle]
    /\ \/ UNCHANGED <<users, songs, notes, lost>>
       \/ /\ lost < MaxLosses
          /\ users' = Seeded /\ songs' = <<>>
          /\ notes' = [i \in NoteIds |-> {}]
          /\ lost' = lost + 1
    /\ UNCHANGED <<edition, session>>

Request(c) ==
    \/ \E n \in Names : Register(c, n) \/ Login(c, n)
    \/ Logout(c)
    \/ \E u \in Links : AddSong(c, u)
    \/ \E r \in Threads :
          \/ \E s \in DOMAIN songs : ReportSong(c, s, r)
          \/ ReportUrl(c, r)
          \/ \E i \in NoteIds : ReportNote(c, i, r)

Next ==
    \/ \E c \in Clients : Request(c)
    \/ \E r \in Threads : BrowserLogin(r) \/ Step(r)
    \/ Restart

Spec == Init /\ [][Next]_vars

-----------------------------------------------------------------------------
Ended(r) == review[r].what # {} /\ ~Running(r)

TypeOK ==
    /\ edition \in Editions
    /\ Len(users) \in 1 .. MaxUsers /\ Len(songs) \in 0 .. MaxSongs
    /\ users \in Seq([name : Names \cup {Admin}, password : Clients \cup {Admin}])
    /\ songs \in Seq([user_id : 1 .. MaxUsers, by : Clients, stale : BOOLEAN])
    /\ notes \in [NoteIds -> SUBSET Threads]
    /\ session \in [Clients -> [id : 1 .. MaxUsers, since : 0 .. MaxLosses] \cup {NoSession}]
    /\ lost \in 0 .. MaxLosses
    /\ review \in [Threads -> ReviewState]

\* The song that a browser is sent to was added by the client who reported it, although
\* the report compares nothing but numbers: unless one of their sessions is of a
\* database that was lost, whose numbers were given anew.
ReportedIsOwn ==
    edition = "songs" =>
        \A r \in Threads : \A s \in review[r].what :
            ~review[r].stale /\ ~songs[s].stale => songs[s].by = review[r].by

\* A review that ended without an exception was shown what was reported, with the
\* cookie set before: a note also when others were given its number meanwhile, a song
\* unless the browser's login took longer than the two seconds it is given.
ReviewSeesReport ==
    \A r \in Threads : Ended(r) /\ review[r].raised = "none" =>
        /\ review[r].marked
        /\ edition = "notes" => r \in review[r].saw /\ review[r].reply = "reviewed"
        /\ edition # "notes" =>
              review[r].saw = review[r].what \/ (edition = "songs" /\ ~review[r].admin)

\* No browser is left open by a review that ended, but where an exception went past the
\* close of spotivibe, or came from the close itself.
BrowsersEnd ==
    \A r \in Threads : Ended(r) /\ review[r].browser =>
        review[r].raised = "close" \/ (edition = "songs" /\ review[r].raised # "none")
=============================================================================

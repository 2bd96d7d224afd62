---------------------------- MODULE ReviewsProofs ----------------------------
(***************************************************************************)
(* Proofs about Reviews, for any visitors, names, threads and bounds.      *)
(*                                                                         *)
(* Two arguments, one per half of the module. A number that a session and  *)
(* a song of the current database share is that of one row of users, and   *)
(* a row has one password (AccountsSound), which is one client's; so the   *)
(* comparison of numbers in a report compares clients (ReportsSound). And  *)
(* the step a thread is at determines its browser (StepsSound), its cookie *)
(* and, from the visit on, what it was shown (SeenSound).                  *)
(***************************************************************************)
EXTENDS Reviews, TLAPS

\* The password of the row that a number of the current database names.
OwnedBy(i, c) == i \in DOMAIN users /\ users[i].password = c

AccountsSound ==
    /\ \A c \in Clients :
          /\ session[c].since <= lost
          /\ session[c] # NoSession /\ ~Stale(session[c]) => OwnedBy(session[c].id, c)
    /\ \A s \in DOMAIN songs : ~songs[s].stale => OwnedBy(songs[s].user_id, songs[s].by)

ReportsSound ==
    edition = "songs" =>
        \A r \in Threads : \A s \in review[r].what :
            /\ s \in DOMAIN songs
            /\ ~review[r].stale /\ ~songs[s].stale => songs[s].by = review[r].by

\* Where a thread is determines its browser; after an exception it can only be closing.
StepsSound ==
    \A r \in Threads :
        /\ review[r].raised = "none" => (review[r].browser <=> review[r].pc > 1)
        /\ review[r].raised = "call" /\ Running(r) => At(r) = "close" /\ edition # "songs"
        /\ review[r].raised = "call" /\ ~Running(r) /\ review[r].browser => edition = "songs"
        /\ review[r].raised = "close" => ~Running(r)

-----------------------------------------------------------------------------
\* The two programs of a browser, each written as a set of its steps.
LEMMA StepsAre ==
    /\ Len(SiteSteps) = 6 /\ Len(NoteSteps) = 5
    /\ SiteSteps[1] = "launch" /\ SiteSteps[2] = "login" /\ SiteSteps[3] = "submit"
    /\ SiteSteps[4] = "cookie" /\ SiteSteps[5] = "visit" /\ SiteSteps[6] = "close"
    /\ NoteSteps[1] = "launch" /\ NoteSteps[2] = "visit" /\ NoteSteps[3] = "cookie"
    /\ NoteSteps[4] = "visit" /\ NoteSteps[5] = "close"
  BY DEF SiteSteps, NoteSteps

\* Either program is short enough for the bounds of a program counter.
LEMMA LenSteps == Len(Steps) \in {5, 6} /\ 1 \in 0 .. Len(Steps)
  BY StepsAre DEF Steps

\* The last step of either program closes the browser, and only that one.
LEMMA LastCloses ==
    /\ Steps[Len(Steps)] = "close"
    /\ \A k \in 1 .. Len(Steps) : Steps[k] = "close" => k = Len(Steps)
<1>1. CASE edition = "notes"
  <2>1. Steps = NoteSteps
    BY <1>1 DEF Steps
  <2>2. \A k \in 1 .. 5 : k = 1 \/ k = 2 \/ k = 3 \/ k = 4 \/ k = 5
    OBVIOUS
  <2> QED
    BY <2>1, <2>2, StepsAre
<1>2. CASE edition # "notes"
  <2>1. Steps = SiteSteps
    BY <1>2 DEF Steps
  <2>2. \A k \in 1 .. 6 : k = 1 \/ k = 2 \/ k = 3 \/ k = 4 \/ k = 5 \/ k = 6
    OBVIOUS
  <2> QED
    BY <2>1, <2>2, StepsAre
<1> QED
  BY <1>1, <1>2

\* The Boolean fields of the next state of a thread are Booleans.
LEMMA Booleans ==
    /\ \A s : Stale(s) \in BOOLEAN
    /\ \A r : Opened(r) \in BOOLEAN
<1>1. \A s : Stale(s) \in BOOLEAN
  BY Zenon DEF Stale
<1>2. \A r : Opened(r) \in BOOLEAN
  BY Zenon DEF Opened
<1> QED
  BY <1>1, <1>2

\* A thread that was never started has its type.
LEMMA IdleIsTyped == Idle \in ReviewState
  BY LenSteps DEF Idle, ReviewState

\* So has one that was just started.
LEMMA StartedIsTyped ==
    ASSUME NEW what \in SUBSET Reportable, NEW c \in Clients \cup {None}, NEW stale \in BOOLEAN,
           NEW reply \in {"none", "will review"}
    PROVE  [Idle EXCEPT !.pc = 1, !.what = what, !.by = c, !.stale = stale, !.reply = reply] \in ReviewState
  BY LenSteps, IdleIsTyped DEF ReviewState

\* A thread after a step.
After(v, pc, browser, cookie, saw, marked, reply) ==
    [v EXCEPT !.pc = pc, !.browser = browser, !.cookie = cookie, !.saw = saw, !.marked = marked, !.reply = reply]

\* And one whose fields were replaced by values of their types.
LEMMA AfterIsTyped ==
    ASSUME NEW v \in ReviewState, NEW pc \in 0 .. Len(Steps), NEW browser \in BOOLEAN, NEW cookie \in BOOLEAN,
           NEW saw \in SUBSET Shown, NEW marked \in BOOLEAN,
           NEW reply \in {"none", "will review", "reviewed", "failed to review"}
    PROVE  After(v, pc, browser, cookie, saw, marked, reply) \in ReviewState
  BY DEF ReviewState, After

\* The rows of songs are numbered within their bound.
LEMMA SongIds == ASSUME TypeOK PROVE DOMAIN songs \subseteq 1 .. MaxSongs
  BY ReviewsAssumption DEF TypeOK

\* What the type of a thread says of its fields.
LEMMA Fields ==
    ASSUME TypeOK, NEW r \in Threads
    PROVE  /\ review[r] \in ReviewState
           /\ review[r].pc \in 0 .. Len(Steps) /\ review[r].what \in SUBSET Reportable
           /\ review[r].cookie \in BOOLEAN /\ review[r].marked \in BOOLEAN /\ review[r].saw \in SUBSET Shown
           /\ review[r].raised \in {"none", "call", "close"} /\ review[r].browser \in BOOLEAN
  BY DEF TypeOK, ReviewState

\* The rows, the cookies and the threads keep their types.
THEOREM ReviewsTypeCorrect == Spec => []TypeOK
<1> USE ReviewsAssumption
<1>1. Init => TypeOK
  <2> SUFFICES ASSUME Init PROVE TypeOK
    OBVIOUS
  <2>1. users \in Seq([name : Names \cup {Admin}, password : Clients \cup {Admin}]) /\ Len(users) = 1
    BY DEF Init, Seeded, Row
  <2>2. songs \in Seq([user_id : 1 .. MaxUsers, by : Clients, stale : BOOLEAN]) /\ Len(songs) = 0
    BY DEF Init
  <2>4. session \in [Clients -> [id : 1 .. MaxUsers, since : 0 .. MaxLosses] \cup {NoSession}]
    BY DEF Init
  <2> QED
    BY <2>1, <2>2, <2>4, IdleIsTyped DEF Init, TypeOK
<1>2. TypeOK /\ [Next]_vars => TypeOK'
  <2> SUFFICES ASSUME TypeOK, [Next]_vars PROVE TypeOK'
    OBVIOUS
  <2> USE DEF TypeOK
  <2>0. edition' = edition => (Steps' = Steps /\ Reportable' = Reportable /\ Shown' = Shown /\ ReviewState' = ReviewState)
    BY DEF Steps, Reportable, Shown, ReviewState
  <2>1. ASSUME NEW c \in Clients, NEW n \in Names, Register(c, n) PROVE TypeOK'
    <3>1. Row(n, c) \in [name : Names \cup {Admin}, password : Clients \cup {Admin}]
      BY DEF Row
    <3> QED
      BY <2>0, <2>1, <3>1 DEF Register
  <2>2. ASSUME NEW c \in Clients, NEW n \in Names, Login(c, n) PROVE TypeOK'
    <3>1. PICK i \in LoginIds(n, c) :
             session' = [session EXCEPT ![c] = [id |-> i, since |-> lost]]
      BY <2>2 DEF Login
    <3>2. i \in 1 .. MaxUsers
      BY DEF LoginIds
    <3> QED
      BY <2>0, <2>2, <3>1, <3>2 DEF Login
  <2>3. ASSUME NEW c \in Clients, Logout(c) PROVE TypeOK'
    BY <2>0, <2>3 DEF Logout, NoSession
  <2>4. ASSUME NEW c \in Clients, NEW u \in Links, AddSong(c, u) PROVE TypeOK'
    <3>1. session[c].id \in 1 .. MaxUsers
      BY <2>4 DEF AddSong
    <3> QED
      BY <2>0, Booleans, <2>4, <3>1 DEF AddSong
  <2>5. ASSUME NEW c \in Clients \cup {None}, NEW s, NEW r \in Threads, NEW what \in SUBSET Reportable,
               NEW reply \in {"none", "will review"}, Start(r, what, c, s, reply),
               UNCHANGED <<edition, users, songs, session, lost>>,
               notes' \in [NoteIds -> SUBSET Threads]
        PROVE  TypeOK'
    <3> HIDE DEF TypeOK
    <3>1. [Idle EXCEPT !.pc = 1, !.what = what, !.by = c, !.stale = Stale(s), !.reply = reply] \in ReviewState
      BY Booleans, LenSteps, StartedIsTyped
    <3> USE DEF TypeOK
    <3> QED
      BY <2>0, <2>5, <3>1 DEF Start
  <2>6. ASSUME NEW c \in Clients, NEW r \in Threads, NEW s \in DOMAIN songs, ReportSong(c, s, r)
        PROVE  TypeOK'
    <3>1. {s} \in SUBSET Reportable
      <4>1. edition = "songs" /\ s \in 1 .. MaxSongs
        BY <2>6, SongIds DEF ReportSong
      <4> QED
        BY <4>1 DEF Reportable
    <3> QED
      BY <2>5, <2>6, <3>1 DEF ReportSong
  <2>7. ASSUME NEW c \in Clients, NEW r \in Threads, ReportUrl(c, r) PROVE TypeOK'
    <3>1. {"url"} \in SUBSET Reportable
      BY <2>7 DEF ReportUrl, Reportable
    <3> QED
      BY <2>5, <2>7, <3>1 DEF ReportUrl
  <2>8. ASSUME NEW c \in Clients, NEW r \in Threads, NEW i \in NoteIds, ReportNote(c, i, r)
        PROVE  TypeOK'
    <3>1. {i} \in SUBSET Reportable
      BY <2>8 DEF ReportNote, Reportable
    <3>2. notes' \in [NoteIds -> SUBSET Threads]
      BY <2>8 DEF ReportNote, Written
    <3> QED
      BY <2>5, <2>8, <3>1, <3>2 DEF ReportNote
  <2>9. ASSUME NEW r \in Threads, BrowserLogin(r) PROVE TypeOK'
    <3>1. review' = [review EXCEPT ![r] = [review[r] EXCEPT !.admin = TRUE]]
      BY <2>9 DEF BrowserLogin
    <3>2. [review[r] EXCEPT !.admin = TRUE] \in ReviewState
      BY DEF ReviewState
    <3> QED
      BY <2>0, <2>9, <3>1, <3>2 DEF BrowserLogin
  <2>10. \A raised, pc : Verdict(raised, pc) \in {"none", "will review", "reviewed", "failed to review"}
    BY DEF Verdict
  <2>11. ASSUME NEW r \in Threads, Done(r) PROVE TypeOK'
    <3>1. Page(r) \in SUBSET Shown
      <4>1. review[r].what \in SUBSET Reportable
        BY Fields
      <4>2. CASE edition = "notes"
        BY <4>1, <4>2 DEF Page, Shown, Reportable
      <4>3. CASE edition = "songs"
        BY <4>1, <4>3 DEF Page, SongPage, Shown
      <4>4. CASE edition = "urls"
        BY <4>1, <4>4 DEF Page, Shown
      <4> QED
        BY <4>2, <4>3, <4>4
    <3>2. NextPc(r) \in 0 .. Len(Steps)
      BY LenSteps, Fields DEF NextPc
    <3>3. Continued(r) \in ReviewState
      <4> HIDE DEF TypeOK
      <4>1. (IF At(r) = "cookie" THEN TRUE ELSE review[r].cookie) \in BOOLEAN
        BY Fields
      <4>2. (IF At(r) = "visit" THEN Page(r) ELSE review[r].saw) \in SUBSET Shown
        BY Fields, <3>1
      <4>3. (IF At(r) = "visit" THEN review[r].cookie ELSE review[r].marked) \in BOOLEAN
        BY Fields
      <4>4. Verdict(review[r].raised, NextPc(r)) \in {"none", "will review", "reviewed", "failed to review"}
        BY <2>10
      <4>5. Opened(r) \in BOOLEAN /\ review[r] \in ReviewState
        BY Booleans, Fields
      <4> DEFINE cookie == IF At(r) = "cookie" THEN TRUE ELSE review[r].cookie
                 saw == IF At(r) = "visit" THEN Page(r) ELSE review[r].saw
                 marked == IF At(r) = "visit" THEN review[r].cookie ELSE review[r].marked
      <4>6. Continued(r) = After(review[r], NextPc(r), Opened(r), cookie, saw, marked,
                                 Verdict(review[r].raised, NextPc(r)))
        BY Zenon DEF Continued, After
      <4>7. cookie \in BOOLEAN /\ saw \in SUBSET Shown /\ marked \in BOOLEAN
        BY <4>1, <4>2, <4>3
      <4> HIDE DEF cookie, saw, marked
      <4>8. After(review[r], NextPc(r), Opened(r), cookie, saw, marked,
                  Verdict(review[r].raised, NextPc(r))) \in ReviewState
        BY <3>2, <4>4, <4>5, <4>7, AfterIsTyped, Zenon
      <4> QED
        BY <4>6, <4>8
    <3> QED
      BY <2>0, <2>11, <3>3 DEF Done
  <2>12. ASSUME NEW r \in Threads, Raises(r) PROVE TypeOK'
    <3>1. AfterFailure(r) \in 0 .. Len(Steps)
      BY LenSteps DEF AfterFailure
    <3> DEFINE new == [review[r] EXCEPT
                        !.pc = AfterFailure(r),
                        !.raised = IF At(r) = "close" THEN "close" ELSE "call",
                        !.reply = Verdict("call", AfterFailure(r))]
    <3>2. review' = [review EXCEPT ![r] = new]
      BY <2>12 DEF Raises
    <3>3. new \in ReviewState
      BY <2>10, <3>1 DEF ReviewState
    <3> QED
      BY <2>0, <2>12, <3>2, <3>3 DEF Raises
  <2>13. ASSUME Restart PROVE TypeOK'
    <3>1. review' \in [Threads -> ReviewState]
      BY <2>13, <2>0, IdleIsTyped DEF Restart
    <3>2. /\ Seeded \in Seq([name : Names \cup {Admin}, password : Clients \cup {Admin}]) /\ Len(Seeded) = 1
          /\ Len(<<>>) = 0 /\ <<>> \in Seq([user_id : 1 .. MaxUsers, by : Clients, stale : BOOLEAN])
      BY DEF Seeded, Row
    <3>3. CASE UNCHANGED <<users, songs, notes, lost>>
      BY <2>0, <2>13, <3>1, <3>3 DEF Restart
    <3>4. CASE lost < MaxLosses /\ users' = Seeded /\ songs' = <<>> /\ notes' = [i \in NoteIds |-> {}]
               /\ lost' = lost + 1
      <4>1. lost' \in 0 .. MaxLosses
        BY <3>4
      <4>2. edition' = edition /\ session' = session
        BY <2>13 DEF Restart
      <4>3. notes' \in [NoteIds -> SUBSET Threads]
        BY <3>4
      <4>4. Len(users') \in 1 .. MaxUsers /\ Len(songs') \in 0 .. MaxSongs
        <5>1. Len(users') = 1 /\ Len(songs') = 0
          BY <3>2, <3>4, Zenon
        <5> QED
          BY <5>1
      <4>5. /\ users' \in Seq([name : Names \cup {Admin}, password : Clients \cup {Admin}])
            /\ songs' \in Seq([user_id : 1 .. MaxUsers, by : Clients, stale : BOOLEAN])
        BY <3>2, <3>4
      <4> QED
        BY <2>0, <3>1, <4>1, <4>2, <4>3, <4>4, <4>5
    <3> QED
      BY <2>13, <3>3, <3>4 DEF Restart
  <2>14. CASE UNCHANGED vars
    BY <2>0, <2>14 DEF vars
  <2> QED
    BY <2>1, <2>2, <2>3, <2>4, <2>6, <2>7, <2>8, <2>9, <2>11, <2>12, <2>13, <2>14 DEF Next, Request, Step
<1> QED
  BY <1>1, <1>2, PTL DEF Spec

\* What was reported, and by whom, stays with a thread through its steps.
LEMMA StepsKeepReports ==
    ASSUME TypeOK, NEW r \in Threads, Step(r) \/ BrowserLogin(r)
    PROVE  \A q \in Threads : /\ review'[q].what = review[q].what /\ review'[q].by = review[q].by
                              /\ review'[q].stale = review[q].stale
<1> review[r] \in ReviewState /\ review \in [Threads -> ReviewState]
  BY Fields DEF TypeOK
<1> USE DEF ReviewState
<1>1. CASE Done(r)
  <2>1. /\ Continued(r).what = review[r].what /\ Continued(r).by = review[r].by
        /\ Continued(r).stale = review[r].stale
    BY DEF Continued
  <2> QED
    BY <1>1, <2>1 DEF Done
<1>2. CASE Raises(r)
  BY <1>2 DEF Raises
<1>3. CASE BrowserLogin(r)
  BY <1>3 DEF BrowserLogin
<1> QED
  BY <1>1, <1>2, <1>3 DEF Step

\* Numbers of the current database name rows of whom they should.
LEMMA AccountsStaySound ==
    ASSUME TypeOK, AccountsSound, [Next]_vars
    PROVE  AccountsSound'
<1> USE ReviewsAssumption DEF TypeOK, AccountsSound, OwnedBy, Stale
<1>1. ASSUME NEW c \in Clients, NEW n \in Names, Register(c, n) PROVE AccountsSound'
  <2>1. \A i \in DOMAIN users : i \in DOMAIN users' /\ users'[i] = users[i]
    BY <1>1 DEF Register
  <2> QED
    BY <1>1, <2>1 DEF Register
<1>2. ASSUME NEW c \in Clients, NEW n \in Names, Login(c, n) PROVE AccountsSound'
  <2>1. PICK i \in LoginIds(n, c) : session' = [session EXCEPT ![c] = [id |-> i, since |-> lost]]
    BY <1>2 DEF Login
  <2>2. i \in DOMAIN users /\ users[i].password = c
    BY DEF LoginIds, Row
  <2> QED
    BY <1>2, <2>1, <2>2 DEF Login
<1>3. ASSUME NEW c \in Clients, Logout(c) PROVE AccountsSound'
  BY <1>3 DEF Logout, NoSession
<1>4. ASSUME NEW c \in Clients, NEW u \in Links, AddSong(c, u) PROVE AccountsSound'
  <2> DEFINE song == [user_id |-> session[c].id, by |-> c, stale |-> Stale(session[c])]
  <2>1. songs' = Append(songs, song) /\ UNCHANGED <<users, session, lost>> /\ session[c] # NoSession
    BY <1>4 DEF AddSong
  <2>2. ~song.stale => OwnedBy(song.user_id, song.by)
    BY <2>1
  <2> HIDE DEF song
  <2>3. \A s \in DOMAIN songs' : (s \in DOMAIN songs /\ songs'[s] = songs[s]) \/ songs'[s] = song
    BY <2>1
  <2> QED
    BY <2>1, <2>2, <2>3
<1>5. ASSUME Restart PROVE AccountsSound'
  <2>1. CASE UNCHANGED <<users, songs, notes, lost>>
    BY <1>5, <2>1 DEF Restart
  <2>2. CASE songs' = <<>> /\ lost' = lost + 1
    <3>1. \A c \in Clients : session'[c] = session[c] /\ session[c].since \in Nat
      BY <1>5 DEF Restart, NoSession
    <3>2. \A c \in Clients : session'[c].since <= lost' /\ session'[c].since # lost'
      BY <2>2, <3>1
    <3>3. DOMAIN songs' = {}
      BY <2>2
    <3> QED
      BY <3>2, <3>3
  <2> QED
    BY <1>5, <2>1, <2>2 DEF Restart
<1>6. CASE UNCHANGED <<users, songs, session, lost>>
  BY <1>6
<1> QED
  BY <1>1, <1>2, <1>3, <1>4, <1>5, <1>6
  DEF Next, Request, ReportSong, ReportUrl, ReportNote, BrowserLogin, Step, Done, Raises, vars

\* Where a song is being reviewed, its owner is the reporter.
LEMMA ReportsStaySound ==
    ASSUME TypeOK, AccountsSound, ReportsSound, [Next]_vars
    PROVE  ReportsSound'
<1> SUFFICES ASSUME edition = "songs" PROVE ReportsSound'
  BY DEF ReportsSound, Next, Request, Register, Login, Logout, AddSong, ReportSong, ReportUrl, ReportNote,
         BrowserLogin, Step, Done, Raises, Restart, vars
<1> USE DEF TypeOK, ReportsSound
<1>1. ASSUME NEW c \in Clients, NEW u \in Links, AddSong(c, u) PROVE ReportsSound'
  <2>1. \A s \in DOMAIN songs : s \in DOMAIN songs' /\ songs'[s] = songs[s]
    BY <1>1 DEF AddSong
  <2> QED
    BY <1>1, <2>1 DEF AddSong
<1>2. ASSUME NEW c \in Clients, NEW r \in Threads, NEW s \in DOMAIN songs, ReportSong(c, s, r)
      PROVE  ReportsSound'
  <2>1. /\ session[c] # NoSession /\ songs[s].user_id = session[c].id
        /\ UNCHANGED <<edition, songs>>
    BY <1>2 DEF ReportSong, Found
  <2>2. ~Stale(session[c]) /\ ~songs[s].stale => songs[s].by = c
    BY <2>1 DEF AccountsSound, OwnedBy
  <2>3. /\ review'[r].what = {s} /\ review'[r].by = c /\ review'[r].stale = Stale(session[c])
        /\ \A q \in Threads \ {r} : review'[q] = review[q]
    BY <1>2 DEF ReportSong, Start, Idle
  <2> QED
    BY <2>1, <2>2, <2>3
<1>3. ASSUME NEW r \in Threads, Step(r) \/ BrowserLogin(r) PROVE ReportsSound'
  <2>1. UNCHANGED <<edition, songs>>
    BY <1>3 DEF Step, Done, Raises, BrowserLogin
  <2> QED
    BY <1>3, <2>1, StepsKeepReports
<1>4. CASE Restart
  BY <1>4 DEF Restart, Idle
<1>5. CASE UNCHANGED <<edition, songs, review>>
  BY <1>5
<1> QED
  BY <1>1, <1>2, <1>3, <1>4, <1>5
  DEF Next, Request, Register, Login, Logout, ReportUrl, ReportNote, vars

\* The song that a browser is sent to was added by the client who reported it, unless a
\* session of a lost database was used.
THEOREM ReportsAreOwn == Spec => []ReportedIsOwn
<1>1. Init => AccountsSound /\ ReportsSound
  BY ReviewsAssumption DEF Init, AccountsSound, ReportsSound, NoSession, Idle
<1>2. TypeOK /\ AccountsSound /\ ReportsSound /\ [Next]_vars => (AccountsSound /\ ReportsSound)'
  BY AccountsStaySound, ReportsStaySound
<1>3. ReportsSound => ReportedIsOwn
  BY DEF ReportsSound, ReportedIsOwn
<1> QED
  BY <1>1, <1>2, <1>3, ReviewsTypeCorrect, PTL DEF Spec

\* The step of a thread determines its browser.
LEMMA StepsStaySound ==
    ASSUME TypeOK, StepsSound, [Next]_vars
    PROVE  StepsSound'
<1> USE DEF StepsSound, Running
<1>0. review \in [Threads -> ReviewState]
  BY DEF TypeOK
<1>1. ASSUME NEW r \in Threads, NEW what, NEW c, NEW s, NEW reply, Start(r, what, c, s, reply),
             edition' = edition, Vacant(r)
      PROVE  StepsSound'
  <2>1. /\ review'[r].raised = "none" /\ review'[r].pc = 1 /\ ~review'[r].browser
        /\ \A q \in Threads \ {r} : review'[q] = review[q]
    BY <1>0, <1>1 DEF Start, Idle
  <2> QED
    BY <1>1, <2>1 DEF At, Steps
<1>2. ASSUME NEW r \in Threads, Done(r) PROVE StepsSound'
  <2>1. /\ review'[r].raised = review[r].raised /\ review'[r].pc = NextPc(r)
        /\ review'[r].browser = Opened(r)
        /\ \A q \in Threads \ {r} : review'[q] = review[q]
        /\ edition' = edition /\ Steps' = Steps
    BY <1>0, <1>2 DEF Done, Continued, ReviewState, Steps
  <2>2. /\ review[r].pc \in 1 .. Len(Steps) /\ review[r].raised # "close"
        /\ review[r].raised = "call" => At(r) = "close" /\ edition # "songs"
    BY <1>2, Fields DEF Done
  <2>3. Opened(r) <=> review[r].pc # Len(Steps)
    BY <2>2, LastCloses DEF Opened, At
  <2>4. review[r].raised = "none" => (review'[r].browser <=> review'[r].pc > 1)
    BY <2>1, <2>2, <2>3, LenSteps DEF NextPc
  <2>5. review[r].raised = "call" => review'[r].pc = 0 /\ ~review'[r].browser
    BY <2>1, <2>2, <2>3 DEF NextPc, Opened
  <2>6. \A q \in Threads \ {r} : At(q)' = At(q)
    BY <2>1 DEF At
  <2> QED
    BY <2>1, <2>2, <2>4, <2>5, <2>6
<1>3. ASSUME NEW r \in Threads, Raises(r) PROVE StepsSound'
  <2>1. /\ review'[r].pc = AfterFailure(r) /\ review'[r].browser = review[r].browser
        /\ review'[r].raised = IF At(r) = "close" THEN "close" ELSE "call"
        /\ \A q \in Threads \ {r} : review'[q] = review[q]
        /\ edition' = edition /\ Steps' = Steps
    BY <1>0, <1>3 DEF Raises, ReviewState, Steps
  <2>2. Steps[Len(Steps)] = "close" /\ Len(Steps) # 0
    BY LastCloses, LenSteps
  <2>3. At(r)' = Steps[AfterFailure(r)]
    BY <2>1 DEF At
  <2>4. \A q \in Threads \ {r} : At(q)' = At(q)
    BY <2>1 DEF At
  <2>5. CASE At(r) = "close"
    BY <2>1, <2>4, <2>5 DEF AfterFailure
  <2>6. CASE At(r) # "close"
    BY <2>1, <2>2, <2>3, <2>4, <2>6 DEF AfterFailure
  <2> QED
    BY <2>5, <2>6
<1>4. ASSUME NEW r \in Threads, BrowserLogin(r) PROVE StepsSound'
  <2>1. /\ \A q \in Threads : /\ review'[q].pc = review[q].pc /\ review'[q].raised = review[q].raised
                              /\ review'[q].browser = review[q].browser
        /\ edition' = edition /\ Steps' = Steps
    BY <1>0, <1>4 DEF BrowserLogin, ReviewState, Steps
  <2> QED
    BY <2>1 DEF At
<1>5. CASE Restart
  BY <1>5 DEF Restart, Idle
<1>6. CASE UNCHANGED <<edition, review>>
  BY <1>6 DEF At, Steps
<1> QED
  BY <1>1, <1>2, <1>3, <1>4, <1>5, <1>6
  DEF Next, Request, Step, Register, Login, Logout, AddSong, ReportSong, ReportUrl, ReportNote, vars

\* No review leaves its browser open, but where an exception passes the close of
\* spotivibe or comes from the close.
THEOREM BrowsersAreClosed == Spec => []BrowsersEnd
<1>1. Init => StepsSound
  BY DEF Init, StepsSound, Idle, Running
<1>2. TypeOK /\ StepsSound /\ [Next]_vars => StepsSound'
  BY StepsStaySound
<1>3. TypeOK /\ StepsSound => BrowsersEnd
  BY Fields DEF StepsSound, BrowsersEnd, Ended, Running
<1> QED
  BY <1>1, <1>2, <1>3, ReviewsTypeCorrect, PTL DEF Spec

\* The number of a step that is done, in the steps of each edition; the visit that counts
\* is the second of a note.
Past(r, step) ==
    \/ ~Running(r)
    \/ review[r].pc > CASE step = "cookie" -> IF edition = "notes" THEN 3 ELSE 4
                       [] step = "visit" -> IF edition = "notes" THEN 4 ELSE 5

Seen(r) == IF edition = "notes" THEN r \in review[r].saw
           ELSE \/ review[r].saw = review[r].what
                \/ edition = "songs" /\ ~review[r].admin

\* The step of a thread that raised nothing determines its cookie and what it saw.
SeenSound ==
    \A r \in Threads : review[r].what # {} /\ review[r].raised = "none" =>
        /\ Past(r, "cookie") => review[r].cookie
        /\ Past(r, "visit") => review[r].marked /\ Seen(r)
        /\ edition = "notes" => \A i \in review[r].what : r \in notes[i]
        /\ edition = "notes" /\ ~Running(r) => review[r].reply = "reviewed"

\* What a thread was shown at its last visit is what was reported to it.
LEMMA SeenStaysSound ==
    ASSUME TypeOK, StepsSound, ReportsSound, SeenSound, [Next]_vars
    PROVE  SeenSound'
<1> USE DEF SeenSound, Running
<1>0. review \in [Threads -> ReviewState]
  BY DEF TypeOK
<1>1. ASSUME NEW r \in Threads, NEW what, NEW c, NEW s, NEW reply, Start(r, what, c, s, reply),
             edition' = edition, edition = "notes" => \A i \in what : r \in notes'[i],
             \A q \in Threads \ {r} : edition = "notes" => \A i \in review[q].what : notes[i] \subseteq notes'[i]
      PROVE  SeenSound'
  <2>1. /\ review'[r].raised = "none" /\ review'[r].pc = 1 /\ review'[r].what = what
        /\ \A q \in Threads \ {r} : review'[q] = review[q]
    BY <1>0, <1>1 DEF Start, Idle
  <2> QED
    BY <1>1, <2>1 DEF Past, Seen
<1>2. ASSUME NEW r \in Threads, Done(r) PROVE SeenSound'
  <2>1. /\ review'[r] = Continued(r)
        /\ \A q \in Threads \ {r} : review'[q] = review[q]
        /\ UNCHANGED <<edition, notes>>
    BY <1>0, <1>2 DEF Done
  <2>2. /\ Continued(r).pc = NextPc(r) /\ Continued(r).what = review[r].what
        /\ Continued(r).raised = review[r].raised /\ Continued(r).admin = review[r].admin
        /\ Continued(r).cookie = IF At(r) = "cookie" THEN TRUE ELSE review[r].cookie
        /\ Continued(r).saw = IF At(r) = "visit" THEN Page(r) ELSE review[r].saw
        /\ Continued(r).marked = IF At(r) = "visit" THEN review[r].cookie ELSE review[r].marked
        /\ Continued(r).reply = Verdict(review[r].raised, NextPc(r))
    BY <1>0 DEF Continued, ReviewState
  <2>3. review[r].pc \in 1 .. Len(Steps)
    BY <1>2, Fields DEF Done
  <2>4. \A q \in Threads \ {r} : (Past(q, "cookie")' <=> Past(q, "cookie"))
                                /\ (Past(q, "visit")' <=> Past(q, "visit")) /\ (Seen(q)' <=> Seen(q))
    BY <2>1 DEF Past, Seen
  <2>5. ASSUME review[r].what # {}, review[r].raised = "none", edition = "notes"
        PROVE  /\ Past(r, "cookie")' => review'[r].cookie
               /\ Past(r, "visit")' => review'[r].marked /\ Seen(r)'
               /\ review'[r].pc = 0 => review'[r].reply = "reviewed"
    <3>1. Len(Steps) = 5 /\ Steps = NoteSteps
      BY <2>5, StepsAre DEF Steps
    <3>2. review[r].pc > 3 => review[r].cookie
      BY <2>5 DEF Past
    <3>3. review[r].pc = 3 => At(r) = "cookie"
      BY <3>1, StepsAre DEF At
    <3>4. review[r].pc > 4 => At(r) = "close" /\ review[r].marked /\ r \in review[r].saw
      BY <2>3, <2>5, <3>1, StepsAre DEF Past, Seen, At
    <3>5. review[r].pc = 4 => At(r) = "visit" /\ r \in Page(r)
      BY <2>5, <3>1, StepsAre DEF At, Page
    <3>6. NextPc(r) = IF review[r].pc = 5 THEN 0 ELSE review[r].pc + 1
      BY <3>1 DEF NextPc
    <3>7. NextPc(r) = 0 => review'[r].reply = "reviewed"
      BY <2>1, <2>2, <2>5 DEF Verdict
    <3>8. review'[r].pc = 0 \/ review'[r].pc > 3 => review[r].pc >= 3
      BY <2>1, <2>2, <2>3, <3>1, <3>6
    <3>9. review'[r].pc = 0 \/ review'[r].pc > 4 => review[r].pc >= 4
      BY <2>1, <2>2, <2>3, <3>1, <3>6
    <3>10. Past(r, "cookie")' => review'[r].cookie
      BY <2>1, <2>2, <2>3, <2>5, <3>1, <3>2, <3>3, <3>8 DEF Past
    <3>11. Past(r, "visit")' => review'[r].marked /\ Seen(r)'
      BY <2>1, <2>2, <2>3, <2>5, <3>1, <3>2, <3>4, <3>5, <3>9 DEF Past, Seen
    <3> QED
      BY <2>1, <2>2, <3>7, <3>10, <3>11
  <2>6. ASSUME review[r].what # {}, review[r].raised = "none", edition # "notes"
        PROVE  /\ Past(r, "cookie")' => review'[r].cookie
               /\ Past(r, "visit")' => review'[r].marked /\ Seen(r)'
    <3>1. Len(Steps) = 6 /\ Steps = SiteSteps
      BY <2>6, StepsAre DEF Steps
    <3>2. review[r].pc > 4 => review[r].cookie
      BY <2>6 DEF Past
    <3>3. review[r].pc = 4 => At(r) = "cookie"
      BY <3>1, StepsAre DEF At
    <3>4. review[r].pc > 5 => At(r) = "close" /\ review[r].marked /\ Seen(r)
      BY <2>3, <2>6, <3>1, StepsAre DEF Past, At
    <3>5. review[r].pc = 5 => At(r) = "visit"
      BY <3>1, StepsAre DEF At
    <3>6. Page(r) = review[r].what \/ (edition = "songs" /\ ~review[r].admin)
      <4>1. edition = "songs" \/ edition = "urls"
        BY <2>6, ReviewsAssumption DEF TypeOK
      <4>2. edition = "songs" => review[r].what \subseteq DOMAIN songs
        BY DEF ReportsSound
      <4> QED
        BY <4>1, <4>2 DEF Page, SongPage
    <3>7. NextPc(r) = IF review[r].pc = 6 THEN 0 ELSE review[r].pc + 1
      BY <3>1 DEF NextPc
    <3>8. review'[r].pc = 0 \/ review'[r].pc > 4 => review[r].pc >= 4
      BY <2>1, <2>2, <2>3, <3>1, <3>7
    <3>9. review'[r].pc = 0 \/ review'[r].pc > 5 => review[r].pc >= 5
      BY <2>1, <2>2, <2>3, <3>1, <3>7
    <3>10. Past(r, "cookie")' => review'[r].cookie
      BY <2>1, <2>2, <2>3, <2>6, <3>1, <3>2, <3>3, <3>8 DEF Past
    <3>11. Past(r, "visit")' => review'[r].marked /\ Seen(r)'
      BY <2>1, <2>2, <2>3, <2>6, <3>1, <3>2, <3>4, <3>5, <3>6, <3>9 DEF Past, Seen
    <3> QED
      BY <3>10, <3>11
  <2>7. \A i \in review'[r].what : edition = "notes" /\ review'[r].raised = "none" => r \in notes'[i]
    BY <2>1, <2>2
  <2> QED
    BY <2>1, <2>2, <2>4, <2>5, <2>6, <2>7
<1>3. ASSUME NEW r \in Threads, Raises(r) PROVE SeenSound'
  <2>1. /\ review'[r].raised # "none"
        /\ \A q \in Threads \ {r} : review'[q] = review[q]
        /\ UNCHANGED <<edition, notes>>
    BY <1>0, <1>3 DEF Raises, ReviewState
  <2> QED
    BY <2>1 DEF Past, Seen
<1>4. ASSUME NEW r \in Threads, BrowserLogin(r) PROVE SeenSound'
  <2>1. /\ \A q \in Threads : /\ review'[q].pc = review[q].pc /\ review'[q].raised = review[q].raised
                              /\ review'[q].what = review[q].what /\ review'[q].cookie = review[q].cookie
                              /\ review'[q].marked = review[q].marked /\ review'[q].saw = review[q].saw
                              /\ review'[q].reply = review[q].reply
                              /\ q # r => review'[q].admin = review[q].admin
        /\ UNCHANGED <<edition, notes>>
    BY <1>0, <1>4 DEF BrowserLogin, ReviewState
  <2>2. edition # "notes" /\ review[r].pc \in 1 .. Len(Steps) /\ At(r) # "close"
    BY <1>4, Fields DEF BrowserLogin, Accounts
  <2>3. review[r].pc # 0 /\ review[r].pc <= 5
    <3>1. Len(Steps) = 6 /\ Steps = SiteSteps
      BY <2>2, StepsAre DEF Steps
    <3>2. review[r].pc # 6
      BY <2>2, <3>1, StepsAre DEF At
    <3> QED
      BY <2>2, <3>1, <3>2
  <2> QED
    BY <2>1, <2>2, <2>3 DEF Past, Seen
<1>5. CASE Restart
  BY <1>5 DEF Restart, Idle
<1>6. CASE UNCHANGED <<edition, notes, review>>
  BY <1>6 DEF Past, Seen
<1>7. ASSUME NEW c \in Clients, NEW r \in Threads, NEW i \in NoteIds, ReportNote(c, i, r) PROVE SeenSound'
  <2>1. /\ Start(r, {i}, c, NoSession, "none") /\ edition' = edition
        /\ r \in notes'[i] /\ \A j \in NoteIds : notes[j] \subseteq notes'[j]
    BY <1>7 DEF ReportNote, Written, TypeOK
  <2>2. \A q \in Threads : edition = "notes" => review[q].what \subseteq NoteIds
    BY Fields DEF Reportable
  <2> QED
    BY <1>1, <2>1, <2>2
<1>8. ASSUME NEW c \in Clients, NEW r \in Threads, NEW s \in DOMAIN songs, ReportSong(c, s, r) PROVE SeenSound'
  BY <1>1, <1>8 DEF ReportSong
<1>9. ASSUME NEW c \in Clients, NEW r \in Threads, ReportUrl(c, r) PROVE SeenSound'
  BY <1>1, <1>9 DEF ReportUrl
<1> QED
  BY <1>2, <1>3, <1>4, <1>5, <1>6, <1>7, <1>8, <1>9
  DEF Next, Request, Step, Register, Login, Logout, AddSong, vars

\* A review that raised nothing was shown what was reported, with the cookie set.
THEOREM ReviewsSeeReports == Spec => []ReviewSeesReport
<1>1. Init => AccountsSound /\ ReportsSound /\ StepsSound /\ SeenSound
  BY ReviewsAssumption
  DEF Init, AccountsSound, ReportsSound, StepsSound, SeenSound, NoSession, Idle, Running
<1>2. /\ TypeOK /\ AccountsSound /\ ReportsSound /\ StepsSound /\ SeenSound /\ [Next]_vars
      => (AccountsSound /\ ReportsSound /\ StepsSound /\ SeenSound)'
  BY AccountsStaySound, ReportsStaySound, StepsStaySound, SeenStaysSound
<1>3. SeenSound => ReviewSeesReport
  BY DEF SeenSound, ReviewSeesReport, Ended, Past, Seen
<1> QED
  BY <1>1, <1>2, <1>3, ReviewsTypeCorrect, PTL DEF Spec
=============================================================================

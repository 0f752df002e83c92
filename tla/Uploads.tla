-------------------------------- MODULE Uploads --------------------------------
(***************************************************************************)
(* The two routes that take files: POST /bug-report with its screenshots   *)
(* (bug-report.controller.ts) and POST /professor-permission-request with  *)
(* its document (professor-permission.controller.ts).  A handler uploads   *)
(* the files (storage.service.ts), all at once, then validates the body    *)
(* and inserts a row with their URLs.  Nobody takes a file back: not when  *)
(* another upload of the request fails, nor when the body or the row is    *)
(* refused.  Uploads under way go on after their request is answered.      *)
(***************************************************************************)
EXTENDS Naturals, Sequences, FiniteSets

CONSTANTS
  Contents,       \* what a file can hold
  Urls,           \* bound: the URLs storage has for the life of an instance
  Addresses,      \* the personalEmail of a request for promotion
  MaxScreenshots, \* MAX_SCREENSHOTS
  MaxRows,        \* bound: the rows of an instance, those being made included
  Statuses,       \* bound: the BugReportStatus and BugReportSeverity values the
  Severities,     \*   administrators of an instance use
  Slots,          \* the calls being served at the same time
  None

ASSUME UploadsAssumption ==
  /\ None \notin Contents \cup Addresses \cup Slots
  /\ MaxScreenshots \in Nat \ {0} /\ MaxRows \in Nat
  /\ "OPEN" \in Statuses /\ "LOW" \in Severities

VARIABLES
  stored,   \* stored[u]: what the file at URL u holds, or None
  flying,   \* the uploads that have begun and not ended
  reports,  \* the BugReport rows, by bugReportId
  asked,    \* the ProfessorPermissionRequest rows, by their id
  call,     \* call[k]: the call slot k is serving
  left      \* history: the URLs drawn for calls that ended with an error

vars == <<stored, flying, reports, asked, call, left>>

\* slot is None when the request has been answered already.
Flights ==
  [url : Urls, content : Contents, slot : Slots \cup {None}, place : 1..MaxScreenshots]

\* The files of a request, and the URLs of a row, in their order.
UpTo(n, S) == UNION {[1..m -> S] : m \in 0..n}

Calls ==
  [op : {"report", "ask"}, at : {"upload", "insert"}, sent : UpTo(MaxScreenshots, Contents),
   urls : UpTo(MaxScreenshots, Urls), landed : SUBSET (1..MaxScreenshots),
   address : Addresses \cup {None}]

ASSUME NoneAssumption == None \notin Calls

Init ==
  /\ stored = [u \in Urls |-> None]
  /\ flying = {}
  /\ reports = <<>> /\ asked = <<>>
  /\ call = [k \in Slots |-> None]
  /\ left = {}

Serving(k, at) == call[k] # None /\ call[k].at = at
Busy == {k \in Slots : call[k] # None}

\* Names carry a randomUUID: no URL is drawn twice.
Drawn == {u \in Urls : stored[u] # None} \cup {f.url : f \in flying} \cup left
           \cup UNION {{call[k].urls[i] : i \in DOMAIN call[k].urls} : k \in Busy}

-------------------------------------------------------------------------------
(* The uploads *)

\* files.map(uploadFile) starts every upload before the first one ends.
Start(k, op, sent, urls, address) ==
  /\ call[k] = None
  /\ Len(reports) + Len(asked) + Cardinality(Busy) < MaxRows
  /\ urls \in [DOMAIN sent -> Urls \ Drawn]
  /\ \A i, j \in DOMAIN sent : urls[i] = urls[j] => i = j
  /\ flying' = flying \cup
       {[url |-> urls[i], content |-> sent[i], slot |-> k, place |-> i] : i \in DOMAIN sent}
  /\ call' = [call EXCEPT ![k] =
       [op |-> op, at |-> "upload", sent |-> sent, urls |-> urls, landed |-> {},
        address |-> address]]
  /\ UNCHANGED <<stored, reports, asked, left>>

\* FilesInterceptor and ParseFilePipe refuse too many, too large or mistyped
\* files before the handler runs; no screenshots at all are fine.
BeginReport(k, sent, urls) == Start(k, "report", sent, urls, None)

\* One document, and it is required.
BeginAsk(k, sent, urls, address) ==
  Len(sent) = 1 /\ Start(k, "ask", sent, urls, address)

\* put() has stored the file.
Land(f) ==
  /\ f \in flying
  /\ stored' = [stored EXCEPT ![f.url] = f.content]
  /\ flying' = flying \ {f}
  /\ call' = IF f.slot = None THEN call
             ELSE [call EXCEPT ![f.slot].landed = @ \cup {f.place}]
  /\ UNCHANGED <<reports, asked, left>>

\* The call of slot k ends with an error; its other uploads go on without it.
Detach(k, fs) == {IF f.slot = k THEN [f EXCEPT !.slot = None] ELSE f : f \in fs}

\* Mutant: the uploads of a request that has failed still report to its slot.
EndAttached(k, fs) ==
  /\ call' = [call EXCEPT ![k] = None]
  /\ flying' = fs
  /\ left' = left \cup {call[k].urls[i] : i \in DOMAIN call[k].urls}
  /\ UNCHANGED <<stored, reports, asked>>

EndWithError(k, fs) ==
  /\ call' = [call EXCEPT ![k] = None]
  /\ flying' = Detach(k, fs)
  /\ left' = left \cup {call[k].urls[i] : i \in DOMAIN call[k].urls}
  /\ UNCHANGED <<stored, reports, asked>>

\* Mutant: Promise.allSettled, and the handler waits for what never comes.
BreakQuietly(f) ==
  /\ f \in flying
  /\ flying' = flying \ {f}
  /\ UNCHANGED <<stored, reports, asked, call, left>>

\* put() rejects.  Promise.all rejects with the first that does.
Break(f) ==
  /\ f \in flying
  /\ IF f.slot = None
     THEN flying' = flying \ {f} /\ UNCHANGED <<stored, reports, asked, call, left>>
     ELSE EndWithError(f.slot, flying \ {f})

-------------------------------------------------------------------------------
(* What follows the uploads *)

\* Promise.all resolves when every upload has.
Uploaded(c) == c.landed = DOMAIN c.sent

\* The other fields of the body are good or not: safeParse refuses with a 400,
\* parse with an error of its own.
Validate(k, good) ==
  /\ Serving(k, "upload") /\ Uploaded(call[k])
  /\ IF good
     THEN call' = [call EXCEPT ![k].at = "insert"]
          /\ UNCHANGED <<stored, flying, reports, asked, left>>
     ELSE EndWithError(k, flying)

\* Mutant: the URLs are collected as the uploads end, not by place.
NamesReversed(c) == [i \in DOMAIN c.urls |-> c.urls[Len(c.urls) + 1 - i]]

\* Promise.all keeps the order of the files, and what it yields replaces a field
\* of that name in the body.
Names(c) == c.urls

\* status and severity have defaults; the schema strips them from the body.
InsertReport(k) ==
  /\ Serving(k, "insert") /\ call[k].op = "report"
  /\ reports' = Append(reports,
       [urls |-> Names(call[k]), sent |-> call[k].sent, status |-> "OPEN", severity |-> "LOW"])
  /\ call' = [call EXCEPT ![k] = None]
  /\ UNCHANGED <<stored, flying, asked, left>>

\* personalEmail is unique, whoever asks and however the earlier request ended.
Free(address) == \A i \in DOMAIN asked : asked[i].address # address

\* Mutant: the address is taken, the row is kept out, and 201 is answered.
InsertAskSilently(k) ==
  /\ Serving(k, "insert") /\ call[k].op = "ask"
  /\ asked' = IF Free(call[k].address)
              THEN Append(asked, [urls |-> Names(call[k]), sent |-> call[k].sent,
                                  address |-> call[k].address])
              ELSE asked
  /\ call' = [call EXCEPT ![k] = None]
  /\ UNCHANGED <<stored, flying, reports, left>>

InsertAsk(k) ==
  /\ Serving(k, "insert") /\ call[k].op = "ask"
  /\ IF Free(call[k].address)
     THEN /\ asked' = Append(asked, [urls |-> Names(call[k]), sent |-> call[k].sent,
                                     address |-> call[k].address])
          /\ call' = [call EXCEPT ![k] = None]
          /\ UNCHANGED <<stored, flying, reports, left>>
     ELSE EndWithError(k, flying)

\* An await fails or the process stops: the row is not there.
Fail(k) == call[k] # None /\ EndWithError(k, flying)

\* PATCH /bug-report/:id, by an ADMIN: one statement with the fields that are
\* given, one at least; 404 without the row.
UpdateReport(i, given, status, severity) ==
  /\ i \in DOMAIN reports /\ given # {}
  /\ reports' = [reports EXCEPT
       ![i].status   = IF "status" \in given THEN status ELSE @,
       ![i].severity = IF "severity" \in given THEN severity ELSE @]
  /\ UNCHANGED <<stored, flying, asked, call, left>>

-------------------------------------------------------------------------------
\* Which of the fresh URLs a file gets does not matter.
Draw(sent) ==
  CHOOSE urls \in [DOMAIN sent -> Urls \ Drawn] :
    \A i, j \in DOMAIN sent : urls[i] = urls[j] => i = j

Begin(k) ==
  \E sent \in UpTo(MaxScreenshots, Contents) :
    /\ Cardinality(Urls \ Drawn) >= Len(sent)
    /\ \/ BeginReport(k, sent, Draw(sent))
       \/ \E a \in Addresses : BeginAsk(k, sent, Draw(sent), a)

EndUpload(f) == Land(f) \/ Break(f)
GoOn(k) == (\E good \in BOOLEAN : Validate(k, good)) \/ InsertReport(k) \/ InsertAsk(k)

Next ==
  \/ \E k \in Slots : Begin(k) \/ GoOn(k) \/ Fail(k)
  \/ \E f \in flying : EndUpload(f)
  \/ \E i \in DOMAIN reports, given \in SUBSET {"status", "severity"},
        status \in Statuses, severity \in Severities :
       UpdateReport(i, given, status, severity)

Spec == Init /\ [][Next]_vars

\* A handler runs on, storage answers or refuses an upload, and the database
\* ends a statement; a failure of Fail need not happen.
EndUploadOf(k) == \E f \in flying : f.slot = k /\ EndUpload(f)

Fairness == \A k \in Slots : WF_vars(GoOn(k)) /\ WF_vars(EndUploadOf(k))

FairSpec == Spec /\ Fairness

-------------------------------------------------------------------------------
(* Properties. *)

Report == [urls : UpTo(MaxScreenshots, Urls), sent : UpTo(MaxScreenshots, Contents),
           status : Statuses, severity : Severities]
Asked  == [urls : UpTo(MaxScreenshots, Urls), sent : UpTo(MaxScreenshots, Contents),
           address : Addresses]

\* Types; an upload that reports to a call is one of those the call waits for.
TypeOK ==
  /\ stored \in [Urls -> Contents \cup {None}]
  /\ flying \subseteq Flights
  /\ reports \in Seq(Report) /\ asked \in Seq(Asked)
  /\ call \in [Slots -> Calls \cup {None}]
  /\ left \subseteq Urls
  /\ \A f \in flying : f.slot # None =>
       /\ Serving(f.slot, "upload") /\ f.place \in DOMAIN call[f.slot].sent
       /\ f.place \notin call[f.slot].landed
       /\ f.url = call[f.slot].urls[f.place] /\ f.content = call[f.slot].sent[f.place]

Rows == {reports[i] : i \in DOMAIN reports} \cup {asked[i] : i \in DOMAIN asked}

UrlsOf(r) == {r.urls[i] : i \in DOMAIN r.urls}
Named     == UNION {UrlsOf(r) : r \in Rows}

\* The URLs of a row lead, place by place, to the files its request carried,
\* whichever upload ended first and whatever other requests upload meanwhile or
\* leave behind: no row shows a file that is missing, misplaced or replaced
\* (Promise.all before the insert, a name of its own for every file).
RowsLeadToTheirFiles ==
  \A r \in Rows :
    /\ DOMAIN r.urls = DOMAIN r.sent
    /\ \A i \in DOMAIN r.sent : stored[r.urls[i]] = r.sent[i]

\* A file that no row names is one a call still needs or one of a call that ended
\* with an error: whoever is answered 201 has all his files in a row.  And no row
\* names the file of a call that ended with an error, which may thus be repeated.
OrphansAreOfErrors ==
  /\ \A u \in Urls : stored[u] # None =>
       \/ u \in Named \cup left
       \/ \E k \in Busy : u \in UrlsOf(call[k])
  /\ Named \cap left = {}

\* Every request is answered: the uploads are waited for together, one that fails
\* ends the wait of the others, and nothing waits for what cannot come any more.
EveryCallAnswered == \A k \in Slots : call[k] # None ~> call[k] = None
===============================================================================

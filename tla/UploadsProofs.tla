--------------------------- MODULE UploadsProofs ---------------------------
(***************************************************************************)
(* For any files and any number of requests at once: the URLs of the rows, *)
(* of the requests being served and of those that ended with an error are  *)
(* kept apart, and an upload only ever writes to a URL of the second or of *)
(* the third kind.                                                         *)
(***************************************************************************)
EXTENDS Uploads, TLAPS

\* A call knows where its files are to be, and which of them are there.
CallFits(c) ==
  /\ c \in Calls
  /\ DOMAIN c.urls = DOMAIN c.sent
  /\ \A i, j \in DOMAIN c.urls : c.urls[i] = c.urls[j] => i = j
  /\ c.landed \subseteq DOMAIN c.sent
  /\ \A i \in c.landed : stored[c.urls[i]] = c.sent[i]
  /\ c.at = "insert" => Uploaded(c)
  /\ c.op = "ask" => c.address \in Addresses

CallsFit == \A k \in Busy : CallFits(call[k])

UrlsApart ==
  /\ \A j, k \in Busy : j # k => UrlsOf(call[j]) \cap UrlsOf(call[k]) = {}
  /\ \A k \in Busy : UrlsOf(call[k]) \cap (Named \cup left) = {}

StraysAreLeft == \A f \in flying : f.slot = None => f.url \in left

IInv == TypeOK /\ CallsFit /\ UrlsApart /\ StraysAreLeft /\ RowsLeadToTheirFiles /\ OrphansAreOfErrors

-------------------------------------------------------------------------------
\* The URLs of rows and calls are URLs, and those of rows have a file.
LEMMA InNamed == \A u : u \in Named <=> \E r \in Rows : \E i \in DOMAIN r.urls : r.urls[i] = u
  BY DEF Named, UrlsOf

LEMMA CallsTyped == TypeOK => \A k \in Busy : call[k] \in Calls /\ k \in Slots
  BY DEF TypeOK, Busy

LEMMA UpToTyped ==
  ASSUME NEW n, NEW S, NEW s \in UpTo(n, S)
  PROVE  \E m \in 0..n : s \in [1..m -> S]
  BY DEF UpTo

LEMMA RowsTyped ==
  ASSUME TypeOK
  PROVE  \A r \in Rows : r.urls \in UpTo(MaxScreenshots, Urls) /\ r.sent \in UpTo(MaxScreenshots, Contents)
  <1>1. \A i \in DOMAIN reports : reports[i] \in Report
    BY DEF TypeOK
  <1>2. \A i \in DOMAIN asked : asked[i] \in Asked
    BY DEF TypeOK
  <1> QED BY <1>1, <1>2 DEF Rows, Report, Asked

LEMMA NamedStored ==
  ASSUME TypeOK, RowsLeadToTheirFiles
  PROVE  \A u \in Named : u \in Urls /\ stored[u] # None
  <1> SUFFICES ASSUME NEW r \in Rows, NEW i \in DOMAIN r.urls
               PROVE  r.urls[i] \in Urls /\ stored[r.urls[i]] # None
    BY InNamed
  <1>1. r.urls[i] \in Urls
    BY RowsTyped, UpToTyped
  <1>2. i \in DOMAIN r.sent /\ stored[r.urls[i]] = r.sent[i]
    BY DEF RowsLeadToTheirFiles
  <1>3. r.sent[i] \in Contents
    BY <1>2, RowsTyped, UpToTyped
  <1> QED BY <1>1, <1>2, <1>3, UploadsAssumption

LEMMA InitHolds == Init => IInv
  <1> SUFFICES ASSUME Init PROVE IInv
    OBVIOUS
  <1>1. Busy = {} /\ Rows = {}
    BY DEF Init, Busy, Rows
  <1>2. Named = {}
    BY <1>1 DEF Named
  <1>3. TypeOK
    BY DEF Init, TypeOK
  <1> QED BY <1>1, <1>2, <1>3
          DEF Init, IInv, CallsFit, UrlsApart, StraysAreLeft, RowsLeadToTheirFiles, OrphansAreOfErrors

-------------------------------------------------------------------------------
\* A request begins: its URLs are new to storage, to rows and to other calls.
LEMMA StartStep ==
  ASSUME IInv, NEW k \in Slots, NEW op \in {"report", "ask"},
         NEW sent \in UpTo(MaxScreenshots, Contents), NEW urls,
         NEW address \in Addresses \cup {None}, op = "ask" => address \in Addresses,
         Start(k, op, sent, urls, address)
  PROVE  IInv'
  <1> USE DEF IInv
  <1> DEFINE c == [op |-> op, at |-> "upload", sent |-> sent, urls |-> urls, landed |-> {},
                   address |-> address]
             new == {[url |-> urls[i], content |-> sent[i], slot |-> k, place |-> i] : i \in DOMAIN sent}
  <1>1. /\ call[k] = None /\ call' = [call EXCEPT ![k] = c] /\ flying' = flying \cup new
        /\ UNCHANGED <<stored, reports, asked, left>>
        /\ urls \in [DOMAIN sent -> Urls \ Drawn]
        /\ \A i, j \in DOMAIN sent : urls[i] = urls[j] => i = j
    BY DEF Start
  <1>2. PICK m \in 0..MaxScreenshots : sent \in [1..m -> Contents]
    BY UpToTyped
  <1>3. urls \in [1..m -> Urls] /\ urls \in UpTo(MaxScreenshots, Urls)
    BY <1>1, <1>2 DEF UpTo
  <1>4. c \in Calls
    BY <1>3 DEF Calls
  <1>5. c # None /\ c.at = "upload" /\ c.sent = sent /\ c.urls = urls /\ c.landed = {}
    BY <1>4, NoneAssumption
  <1>6. new \subseteq Flights /\ \A f \in new : /\ f.slot = k /\ f.place \in DOMAIN sent
                                                /\ f.url = urls[f.place] /\ f.content = sent[f.place]
    BY <1>2, <1>3, UploadsAssumption DEF Flights
  <1>7. /\ call'[k] = c /\ Busy' = Busy \cup {k} /\ k \notin Busy
        /\ \A j \in Busy : call'[j] = call[j]
    BY <1>1, <1>5 DEF Busy, TypeOK
  <1> HIDE DEF c, new
  <1>8. TypeOK'
    <2>1. call' \in [Slots -> Calls \cup {None}]
      BY <1>1, <1>4 DEF TypeOK
    <2>2. \A f \in flying : f.slot # None => f.slot \in Busy /\ f.slot # k
      BY <1>1, UploadsAssumption DEF TypeOK, Serving, Busy, Flights
    <2>3. ASSUME NEW f \in flying', f.slot # None
          PROVE  /\ Serving(f.slot, "upload")' /\ f.place \in DOMAIN call'[f.slot].sent
                 /\ f.place \notin call'[f.slot].landed
                 /\ f.url = call'[f.slot].urls[f.place]
                 /\ f.content = call'[f.slot].sent[f.place]
      <3>1. CASE f \in new
        BY <1>5, <1>6, <1>7, <3>1 DEF Serving
      <3>2. CASE f \in flying
        BY <1>7, <2>2, <2>3, <3>2 DEF TypeOK, Serving
      <3> QED BY <1>1, <3>1, <3>2
    <2>4. flying' \subseteq Flights
      BY <1>1, <1>6 DEF TypeOK
    <2> QED BY <1>1, <2>1, <2>3, <2>4 DEF TypeOK
  <1>9. CallsFit'
    <2>1. CallFits(c)'
      BY <1>1, <1>4, <1>5, <1>2, UploadsAssumption DEF CallFits, Uploaded, c
    <2>2. \A j \in Busy : CallFits(call[j])'
      BY <1>1, <1>7 DEF CallsFit, CallFits, Uploaded
    <2> QED BY <1>7, <2>1, <2>2 DEF CallsFit
  <1>10. Rows' = Rows /\ Named' = Named
    BY <1>1 DEF Rows, Named
  <1>11. RowsLeadToTheirFiles'
    BY <1>1, <1>10 DEF RowsLeadToTheirFiles
  <1>12. StraysAreLeft'
    BY <1>1, <1>6, UploadsAssumption DEF StraysAreLeft
  <1>13. /\ UrlsOf(c) \cap (Named \cup left) = {}
         /\ \A j \in Busy : UrlsOf(call[j]) \cap UrlsOf(c) = {}
    <2>1. ASSUME NEW i \in DOMAIN urls PROVE urls[i] \notin Drawn /\ urls[i] \in Urls
      BY <1>1
    <2>2. Named \cup left \subseteq Drawn
      BY NamedStored DEF Drawn
    <2>3. \A j \in Busy : UrlsOf(call[j]) \subseteq Drawn
      BY DEF Drawn, UrlsOf
    <2> QED BY <1>5, <2>1, <2>2, <2>3 DEF UrlsOf
  <1>14. \A j \in Busy : UrlsOf(call[j])' = UrlsOf(call[j])
    BY <1>7 DEF UrlsOf
  <1>15. UrlsOf(call[k])' = UrlsOf(c)
    BY <1>7 DEF UrlsOf
  <1>16. UrlsApart'
    BY <1>1, <1>7, <1>10, <1>13, <1>14, <1>15 DEF UrlsApart
  <1>17. OrphansAreOfErrors'
    BY <1>1, <1>7, <1>10, <1>14 DEF OrphansAreOfErrors
  <1> QED BY <1>8, <1>9, <1>11, <1>12, <1>16, <1>17

\* A request ends with an error: its URLs pass from the call to left, and its
\* uploads that are still under way become strays.
LEMMA EndStep ==
  ASSUME IInv, NEW k \in Busy, NEW fs \in SUBSET flying, EndWithError(k, fs)
  PROVE  IInv'
  <1> USE DEF IInv
  <1>1. /\ call' = [call EXCEPT ![k] = None] /\ flying' = Detach(k, fs)
        /\ left' = left \cup UrlsOf(call[k]) /\ UNCHANGED <<stored, reports, asked>>
    BY DEF EndWithError, UrlsOf
  <1>2. k \in Slots /\ call[k] \in Calls /\ CallFits(call[k])
    BY CallsTyped DEF CallsFit
  <1>3. /\ Busy' = Busy \ {k} /\ \A j \in Busy' : call'[j] = call[j]
        /\ \A j \in Busy' : UrlsOf(call[j])' = UrlsOf(call[j])
    BY <1>1, <1>2 DEF Busy, TypeOK, UrlsOf
  <1>4. ASSUME NEW f \in flying'
        PROVE  \/ f \in fs /\ f.slot # k
               \/ /\ f \in Flights /\ f.slot = None
                  /\ \E g \in fs : g.slot = k /\ g.url = f.url
    <2>1. PICK g \in fs : f = IF g.slot = k THEN [g EXCEPT !.slot = None] ELSE g
      BY <1>1 DEF Detach
    <2>2. g \in Flights
      BY DEF TypeOK
    <2> QED BY <2>1, <2>2 DEF Flights
  <1>5. \A u \in UrlsOf(call[k]) : u \in Urls
    BY <1>2, UpToTyped DEF UrlsOf, Calls
  <1>6. TypeOK'
    <2>1. call' \in [Slots -> Calls \cup {None}] /\ left' \subseteq Urls /\ flying' \subseteq Flights
      BY <1>1, <1>2, <1>4, <1>5 DEF TypeOK
    <2>2. ASSUME NEW f \in flying', f.slot # None
          PROVE  /\ Serving(f.slot, "upload")' /\ f.place \in DOMAIN call'[f.slot].sent
                 /\ f.place \notin call'[f.slot].landed
                 /\ f.url = call'[f.slot].urls[f.place]
                 /\ f.content = call'[f.slot].sent[f.place]
      <3>1. f \in flying /\ f.slot # k
        BY <1>4, <2>2
      <3>2. Serving(f.slot, "upload") /\ f.slot \in Slots
        BY <2>2, <3>1 DEF TypeOK, Flights
      <3>3. call'[f.slot] = call[f.slot]
        BY <1>1, <3>1, <3>2 DEF TypeOK
      <3> QED BY <2>2, <3>1, <3>2, <3>3 DEF TypeOK, Serving
    <2> QED BY <1>1, <2>1, <2>2 DEF TypeOK
  <1>7. CallsFit'
    BY <1>1, <1>3 DEF CallsFit, CallFits, Uploaded
  <1>8. Rows' = Rows /\ Named' = Named /\ RowsLeadToTheirFiles'
    BY <1>1 DEF Rows, Named, RowsLeadToTheirFiles
  <1>9. UrlsApart'
    BY <1>1, <1>3, <1>8 DEF UrlsApart
  <1>10. StraysAreLeft'
    <2>1. ASSUME NEW g \in fs, g.slot = k PROVE g.url \in UrlsOf(call[k])
      <3>1. k # None
        BY <1>2, UploadsAssumption
      <3> QED BY <1>2, <2>1, <3>1 DEF TypeOK, CallFits, UrlsOf
    <2> QED BY <1>1, <1>4, <2>1 DEF StraysAreLeft
  <1>11. OrphansAreOfErrors'
    BY <1>1, <1>3, <1>8 DEF OrphansAreOfErrors, UrlsApart
  <1> QED BY <1>6, <1>7, <1>8, <1>9, <1>10, <1>11

\* A stray upload stores a file at a URL nobody relies on.
LEMMA StrayLands ==
  ASSUME IInv, NEW f \in flying, Land(f), f.slot = None
  PROVE  IInv'
  <1> USE DEF IInv
  <1>1. /\ stored' = [stored EXCEPT ![f.url] = f.content] /\ flying' = flying \ {f}
        /\ UNCHANGED <<call, reports, asked, left>> /\ f.url \in left /\ f \in Flights
    BY DEF Land, StraysAreLeft, TypeOK
  <1>2. Busy' = Busy /\ Rows' = Rows /\ Named' = Named /\ \A k \in Busy : call'[k] = call[k]
    BY <1>1 DEF Busy, Rows, Named
  <1>3. f.url \notin Named /\ \A k \in Busy : f.url \notin UrlsOf(call[k])
    BY <1>1 DEF UrlsApart, OrphansAreOfErrors
  <1>4. \A u : u # f.url => stored'[u] = stored[u]
    BY <1>1 DEF TypeOK
  <1>5. TypeOK'
    <2>1. stored' \in [Urls -> Contents \cup {None}]
      BY <1>1 DEF TypeOK, Flights
    <2> QED BY <1>1, <2>1 DEF TypeOK, Serving
  <1>6. CallsFit'
    <2>1. ASSUME NEW k \in Busy, NEW i \in call[k].landed
          PROVE  stored'[call[k].urls[i]] = call[k].sent[i]
      <3>1. CallFits(call[k])
        BY DEF CallsFit
      <3>2. call[k].urls[i] \in UrlsOf(call[k])
        BY <3>1 DEF CallFits, UrlsOf
      <3> QED BY <1>3, <1>4, <3>1, <3>2 DEF CallFits
    <2> QED BY <1>2, <2>1 DEF CallsFit, CallFits, Uploaded
  <1>7. RowsLeadToTheirFiles'
    <2>1. ASSUME NEW r \in Rows, NEW i \in DOMAIN r.sent
          PROVE  stored'[r.urls[i]] = r.sent[i]
      <3>1. r.urls[i] \in Named
        BY InNamed DEF RowsLeadToTheirFiles
      <3> QED BY <1>3, <1>4, <3>1 DEF RowsLeadToTheirFiles
    <2> QED BY <1>2, <2>1 DEF RowsLeadToTheirFiles
  <1>8. UrlsApart' /\ StraysAreLeft'
    <2>1. \A k \in Busy : UrlsOf(call[k])' = UrlsOf(call[k])
      BY <1>1 DEF UrlsOf
    <2> QED BY <1>1, <1>2, <2>1 DEF UrlsApart, StraysAreLeft
  <1>9. OrphansAreOfErrors'
    BY <1>1, <1>2, <1>4 DEF OrphansAreOfErrors, UrlsOf
  <1> QED BY <1>5, <1>6, <1>7, <1>8, <1>9

\* An upload of a call stores its file, and the call learns of it.
LEMMA UploadLands ==
  ASSUME IInv, NEW f \in flying, Land(f), f.slot # None
  PROVE  IInv'
  <1> USE DEF IInv
  <1>1. /\ stored' = [stored EXCEPT ![f.url] = f.content] /\ flying' = flying \ {f}
        /\ call' = [call EXCEPT ![f.slot].landed = @ \cup {f.place}]
        /\ UNCHANGED <<reports, asked, left>> /\ f \in Flights
    BY DEF Land, TypeOK
  <1>2. PICK k \in Busy : k = f.slot
    BY <1>1 DEF TypeOK, Serving, Busy, Flights
  <1>3. /\ call[k] \in Calls /\ k \in Slots /\ CallFits(call[k]) /\ call[k].at = "upload"
        /\ f.place \in DOMAIN call[k].sent /\ f.place \notin call[k].landed
        /\ f.url = call[k].urls[f.place] /\ f.content = call[k].sent[f.place]
    BY <1>2, CallsTyped DEF CallsFit, TypeOK, Serving
  <1>4. PICK c \in Calls : c = [call[k] EXCEPT !.landed = @ \cup {f.place}]
    BY <1>1, <1>3 DEF Calls, Flights
  <1>5. /\ c.op = call[k].op /\ c.at = "upload" /\ c.sent = call[k].sent /\ c.urls = call[k].urls
        /\ c.landed = call[k].landed \cup {f.place} /\ c.address = call[k].address
    BY <1>3, <1>4 DEF Calls
  <1>6. call' = [call EXCEPT ![k] = c]
    BY <1>1, <1>2, <1>4
  <1>7. /\ call'[k] = c /\ Busy' = Busy /\ \A j \in Slots : j # k => call'[j] = call[j]
    BY <1>3, <1>6, NoneAssumption DEF Busy, TypeOK
  <1>8. Rows' = Rows /\ Named' = Named /\ \A j \in Busy : UrlsOf(call[j])' = UrlsOf(call[j])
    BY <1>1, <1>5, <1>7 DEF Rows, Named, UrlsOf, Busy
  <1>9. f.url \in UrlsOf(call[k])
    BY <1>3 DEF UrlsOf, CallFits
  <1>10. /\ f.url \notin Named \cup left
         /\ \A j \in Busy : j # k => f.url \notin UrlsOf(call[j])
    BY <1>9 DEF UrlsApart
  <1>11. /\ \A u : u # f.url => stored'[u] = stored[u]
         /\ stored'[f.url] = f.content /\ f.url \in Urls
    BY <1>1 DEF TypeOK, Flights
  <1>12. TypeOK'
    <2>1. stored' \in [Urls -> Contents \cup {None}]
      BY <1>1 DEF TypeOK, Flights
    <2>2. call' \in [Slots -> Calls \cup {None}]
      BY <1>6 DEF TypeOK
    <2>3. ASSUME NEW g \in flying', g.slot # None
          PROVE  /\ Serving(g.slot, "upload")' /\ g.place \in DOMAIN call'[g.slot].sent
                 /\ g.place \notin call'[g.slot].landed
                 /\ g.url = call'[g.slot].urls[g.place]
                 /\ g.content = call'[g.slot].sent[g.place]
      <3>1. /\ g \in flying /\ g # f /\ g \in Flights /\ g.slot \in Slots
            /\ Serving(g.slot, "upload") /\ g.place \in DOMAIN call[g.slot].sent
            /\ g.place \notin call[g.slot].landed
            /\ g.url = call[g.slot].urls[g.place] /\ g.content = call[g.slot].sent[g.place]
        BY <1>1, <2>3 DEF TypeOK, Flights
      <3>2. CASE g.slot # k
        BY <1>7, <3>1, <3>2 DEF Serving
      <3>3. CASE g.slot = k
        <4>1. g.place # f.place
          <5>1. SUFFICES ASSUME g.place = f.place PROVE g = f
            BY <3>1
          <5>2. g.url = f.url /\ g.content = f.content /\ g.slot = f.slot
            BY <1>2, <1>3, <3>1, <3>3, <5>1
          <5> QED BY <1>1, <3>1, <5>1, <5>2 DEF Flights
        <4> QED BY <1>4, <1>5, <1>7, <3>1, <3>3, <4>1, NoneAssumption DEF Serving
      <3> QED BY <3>2, <3>3
    <2> QED BY <1>1, <2>1, <2>2, <2>3 DEF TypeOK
  <1>13. CallsFit'
    <2>1. ASSUME NEW j \in Busy, j # k PROVE CallFits(call[j])'
      <3>1. CallFits(call[j]) /\ call'[j] = call[j]
        BY <1>7, <2>1 DEF CallsFit, Busy
      <3>2. \A i \in DOMAIN call[j].urls : call[j].urls[i] # f.url
        BY <1>10, <2>1 DEF UrlsOf
      <3> QED BY <1>11, <3>1, <3>2 DEF CallFits, Uploaded
    <2>2. CallFits(c)'
      <3>1. ASSUME NEW i \in c.landed PROVE stored'[c.urls[i]] = c.sent[i]
        <4>1. CASE i = f.place
          BY <1>3, <1>5, <1>11, <4>1
        <4>2. CASE i # f.place
          BY <1>3, <1>5, <1>11, <3>1, <4>2 DEF CallFits
        <4> QED BY <4>1, <4>2
      <3> QED BY <1>3, <1>5, <3>1 DEF CallFits, Uploaded
    <2> QED BY <1>7, <2>1, <2>2 DEF CallsFit
  <1>14. RowsLeadToTheirFiles'
    <2>1. ASSUME NEW r \in Rows, NEW i \in DOMAIN r.sent
          PROVE  stored'[r.urls[i]] = r.sent[i]
      <3>1. r.urls[i] \in Named
        BY InNamed DEF RowsLeadToTheirFiles
      <3> QED BY <1>10, <1>11, <3>1 DEF RowsLeadToTheirFiles
    <2> QED BY <1>8, <2>1 DEF RowsLeadToTheirFiles
  <1>15. UrlsApart' /\ StraysAreLeft'
    BY <1>1, <1>7, <1>8 DEF UrlsApart, StraysAreLeft
  <1>16. OrphansAreOfErrors'
    <2>1. \A u \in Urls : stored'[u] # None => u \in Named \cup left \/ \E j \in Busy : u \in UrlsOf(call[j])
      BY <1>9, <1>11 DEF OrphansAreOfErrors
    <2> QED BY <1>1, <1>7, <1>8, <2>1 DEF OrphansAreOfErrors
  <1> QED BY <1>12, <1>13, <1>14, <1>15, <1>16

LEMMA BreakStep ==
  ASSUME IInv, NEW f \in flying, Break(f)
  PROVE  IInv'
  <1>1. CASE f.slot # None
    <2>1. f.slot \in Busy /\ EndWithError(f.slot, flying \ {f})
      BY <1>1 DEF Break, IInv, TypeOK, Serving, Flights, Busy
    <2> QED BY <2>1, EndStep
  <1>2. CASE f.slot = None
    <2>1. flying' \subseteq flying /\ UNCHANGED <<stored, reports, asked, call, left>>
      BY <1>2 DEF Break
    <2>2. Busy' = Busy /\ Rows' = Rows /\ Named' = Named
      BY <2>1 DEF Busy, Rows, Named
    <2>3. \A k \in Busy : UrlsOf(call[k])' = UrlsOf(call[k])
      BY <2>1 DEF UrlsOf
    <2>4. TypeOK' /\ CallsFit'
      BY <2>1, <2>2 DEF IInv, TypeOK, Serving, CallsFit, CallFits, Uploaded
    <2>5. UrlsApart' /\ StraysAreLeft' /\ RowsLeadToTheirFiles' /\ OrphansAreOfErrors'
      BY <2>1, <2>2, <2>3
         DEF IInv, UrlsApart, StraysAreLeft, RowsLeadToTheirFiles, OrphansAreOfErrors
    <2> QED BY <2>4, <2>5 DEF IInv
  <1> QED BY <1>1, <1>2

-------------------------------------------------------------------------------
\* A body that is good lets the call go on; it has no upload left then.
LEMMA ValidateStep ==
  ASSUME IInv, NEW k \in Slots, NEW good \in BOOLEAN, Validate(k, good)
  PROVE  IInv'
  <1> USE DEF IInv
  <1>1. k \in Busy /\ call[k] \in Calls /\ CallFits(call[k]) /\ Uploaded(call[k])
        /\ call[k].at = "upload"
    BY CallsTyped DEF Validate, Serving, Busy, CallsFit
  <1>2. CASE ~good
    BY <1>1, <1>2, EndStep DEF Validate
  <1>3. CASE good
    <2>1. /\ call' = [call EXCEPT ![k].at = "insert"]
          /\ UNCHANGED <<stored, flying, reports, asked, left>>
      BY <1>3 DEF Validate
    <2>2. PICK c \in Calls : c = [call[k] EXCEPT !.at = "insert"]
      BY <1>1 DEF Calls
    <2>3. /\ c.op = call[k].op /\ c.at = "insert" /\ c.sent = call[k].sent /\ c.urls = call[k].urls
          /\ c.landed = call[k].landed /\ c.address = call[k].address
      BY <1>1, <2>2 DEF Calls
    <2>4. call' = [call EXCEPT ![k] = c]
      BY <2>1, <2>2
    <2>5. call'[k] = c /\ Busy' = Busy /\ \A j \in Slots : j # k => call'[j] = call[j]
      BY <1>1, <2>4, NoneAssumption DEF Busy, TypeOK
    <2>6. Rows' = Rows /\ Named' = Named /\ \A j \in Busy : UrlsOf(call[j])' = UrlsOf(call[j])
      BY <2>1, <2>3, <2>5 DEF Rows, Named, UrlsOf, Busy
    <2>7. TypeOK'
      <3>1. call' \in [Slots -> Calls \cup {None}]
        BY <2>4 DEF TypeOK
      <3>2. \A f \in flying : f.slot # k
        BY <1>1, UploadsAssumption DEF TypeOK, Uploaded
      <3>3. \A f \in flying : f.slot # None => call'[f.slot] = call[f.slot]
        BY <2>5, <3>2 DEF TypeOK, Flights
      <3> QED BY <2>1, <3>1, <3>3 DEF TypeOK, Serving
    <2>8. CallsFit'
      <3>1. CallFits(c)'
        BY <1>1, <2>1, <2>3 DEF CallFits, Uploaded
      <3>2. ASSUME NEW j \in Busy, j # k PROVE CallFits(call[j])'
        <4>1. CallFits(call[j]) /\ call'[j] = call[j]
          BY <2>5, <3>2 DEF CallsFit, Busy
        <4> QED BY <2>1, <4>1 DEF CallFits, Uploaded
      <3> QED BY <2>5, <3>1, <3>2 DEF CallsFit
    <2>9. UrlsApart' /\ StraysAreLeft' /\ RowsLeadToTheirFiles' /\ OrphansAreOfErrors'
      BY <2>1, <2>5, <2>6 DEF UrlsApart, StraysAreLeft, RowsLeadToTheirFiles, OrphansAreOfErrors
    <2> QED BY <2>7, <2>8, <2>9
  <1> QED BY <1>2, <1>3

\* A row takes over the URLs of its call, and their files are all there.
LEMMA RowStep ==
  ASSUME IInv, NEW k \in Slots, Serving(k, "insert"), NEW row,
         row.urls = call[k].urls, row.sent = call[k].sent, Rows' = Rows \cup {row},
         call' = [call EXCEPT ![k] = None], UNCHANGED <<stored, flying, left>>,
         reports' \in Seq(Report), asked' \in Seq(Asked)
  PROVE  IInv'
  <1> USE DEF IInv
  <1>1. k \in Busy /\ call[k] \in Calls /\ CallFits(call[k]) /\ call[k].at = "insert"
        /\ call[k].landed = DOMAIN call[k].sent
    BY CallsTyped DEF Serving, Busy, CallsFit, CallFits, Uploaded
  <1>2. /\ Busy' = Busy \ {k} /\ \A j \in Busy' : call'[j] = call[j]
        /\ \A j \in Busy' : UrlsOf(call[j])' = UrlsOf(call[j])
    BY <1>1 DEF Busy, TypeOK, UrlsOf
  <1>3. UrlsOf(row) = UrlsOf(call[k])
    BY DEF UrlsOf
  <1>4. Named' = Named \cup UrlsOf(call[k])
    BY <1>3 DEF Named
  <1>5. TypeOK'
    <2>1. call' \in [Slots -> Calls \cup {None}]
      BY DEF TypeOK
    <2>2. \A f \in flying : f.slot # None => f.slot # k /\ call'[f.slot] = call[f.slot]
      BY <1>1 DEF TypeOK, Serving, Flights
    <2> QED BY <2>1, <2>2 DEF TypeOK, Serving
  <1>6. CallsFit'
    BY <1>2 DEF CallsFit, CallFits, Uploaded
  <1>7. UrlsApart'
    BY <1>1, <1>2, <1>4 DEF UrlsApart
  <1>8. RowsLeadToTheirFiles'
    BY <1>1 DEF RowsLeadToTheirFiles, CallFits
  <1>9. StraysAreLeft'
    BY DEF StraysAreLeft
  <1>10. OrphansAreOfErrors'
    BY <1>1, <1>2, <1>4 DEF OrphansAreOfErrors, UrlsApart
  <1> QED BY <1>5, <1>6, <1>7, <1>8, <1>9, <1>10

LEMMA Appended ==
  ASSUME NEW S, NEW s \in Seq(S), NEW x \in S
  PROVE  /\ Append(s, x) \in Seq(S)
         /\ {Append(s, x)[i] : i \in DOMAIN Append(s, x)} = {s[i] : i \in DOMAIN s} \cup {x}
  <1>1. Append(s, x) \in Seq(S) /\ DOMAIN Append(s, x) = 1..(Len(s) + 1) /\ DOMAIN s = 1..Len(s)
    OBVIOUS
  <1>2. Append(s, x)[Len(s) + 1] = x /\ \A i \in 1..Len(s) : Append(s, x)[i] = s[i]
    OBVIOUS
  <1>3. \A i \in 1..(Len(s) + 1) : i = Len(s) + 1 \/ i \in 1..Len(s)
    OBVIOUS
  <1>4. Len(s) + 1 \in 1..(Len(s) + 1) /\ 1..Len(s) \subseteq 1..(Len(s) + 1)
    OBVIOUS
  <1> QED BY <1>1, <1>2, <1>3, <1>4

LEMMA InsertStep ==
  ASSUME IInv, NEW k \in Slots, InsertReport(k) \/ InsertAsk(k)
  PROVE  IInv'
  <1> USE DEF IInv
  <1>1. Serving(k, "insert") /\ k \in Busy /\ call[k] \in Calls /\ CallFits(call[k])
    BY CallsTyped DEF InsertReport, InsertAsk, Serving, Busy, CallsFit
  <1>2. CASE InsertReport(k)
    <2> DEFINE row == [urls |-> Names(call[k]), sent |-> call[k].sent,
                       status |-> "OPEN", severity |-> "LOW"]
    <2>1. row \in Report /\ row.urls = call[k].urls /\ row.sent = call[k].sent
      BY <1>1, UploadsAssumption DEF Report, Names, Calls
    <2>2. reports' = Append(reports, row) /\ asked' = asked
      BY <1>2 DEF InsertReport
    <2> HIDE DEF row
    <2>3. reports' \in Seq(Report) /\ Rows' = Rows \cup {row}
      <3>1. reports \in Seq(Report)
        BY DEF TypeOK
      <3>2. /\ reports' \in Seq(Report)
            /\ {reports'[i] : i \in DOMAIN reports'} = {reports[i] : i \in DOMAIN reports} \cup {row}
        BY <2>1, <2>2, <3>1, Appended
      <3> QED BY <2>2, <3>2 DEF Rows
    <2> QED BY <1>1, <1>2, <2>1, <2>2, <2>3, RowStep DEF InsertReport, TypeOK
  <1>3. CASE InsertAsk(k) /\ ~Free(call[k].address)
    BY <1>1, <1>3, EndStep DEF InsertAsk
  <1>4. CASE InsertAsk(k) /\ Free(call[k].address)
    <2> DEFINE row == [urls |-> Names(call[k]), sent |-> call[k].sent, address |-> call[k].address]
    <2>1. row \in Asked /\ row.urls = call[k].urls /\ row.sent = call[k].sent
      BY <1>1, <1>4 DEF Asked, Names, Calls, CallFits, InsertAsk
    <2>2. asked' = Append(asked, row) /\ reports' = reports
      BY <1>4 DEF InsertAsk
    <2> HIDE DEF row
    <2>3. asked' \in Seq(Asked) /\ Rows' = Rows \cup {row}
      <3>1. asked \in Seq(Asked)
        BY DEF TypeOK
      <3>2. /\ asked' \in Seq(Asked)
            /\ {asked'[i] : i \in DOMAIN asked'} = {asked[i] : i \in DOMAIN asked} \cup {row}
        BY <2>1, <2>2, <3>1, Appended
      <3> QED BY <2>2, <3>2 DEF Rows
    <2> QED BY <1>1, <1>4, <2>1, <2>2, <2>3, RowStep DEF InsertAsk, TypeOK
  <1> QED BY <1>2, <1>3, <1>4

\* An administrator's update leaves the URLs of the row alone.
LEMMA UpdateStep ==
  ASSUME IInv, NEW i \in DOMAIN reports, NEW given, NEW status \in Statuses,
         NEW severity \in Severities, UpdateReport(i, given, status, severity)
  PROVE  IInv'
  <1> USE DEF IInv
  <1>1. /\ reports' = [reports EXCEPT
             ![i].status   = IF "status" \in given THEN status ELSE @,
             ![i].severity = IF "severity" \in given THEN severity ELSE @]
        /\ UNCHANGED <<stored, flying, asked, call, left>>
    BY DEF UpdateReport
  <1>2. \A j \in DOMAIN reports : reports[j] \in Report
    BY DEF TypeOK
  <1>3. PICK row \in Report :
          /\ row.urls = reports[i].urls /\ row.sent = reports[i].sent
          /\ reports' = [reports EXCEPT ![i] = row]
    BY <1>1, <1>2 DEF Report
  <1>4. reports' \in Seq(Report) /\ DOMAIN reports' = DOMAIN reports
        /\ \A j \in DOMAIN reports : reports'[j] = IF j = i THEN row ELSE reports[j]
    BY <1>3 DEF TypeOK
  <1>5. \A r \in Rows' : \E q \in Rows : r.urls = q.urls /\ r.sent = q.sent
    BY <1>1, <1>3, <1>4 DEF Rows
  <1>6. \A r \in Rows : \E q \in Rows' : r.urls = q.urls
    BY <1>1, <1>3, <1>4 DEF Rows
  <1>7. Named' = Named
    <2>1. \A u : u \in Named' <=> \E r \in Rows' : \E j \in DOMAIN r.urls : r.urls[j] = u
      BY DEF Named, UrlsOf
    <2> QED BY <1>5, <1>6, <2>1, InNamed
  <1>8. Busy' = Busy /\ \A k \in Busy : UrlsOf(call[k])' = UrlsOf(call[k])
    BY <1>1 DEF Busy, UrlsOf
  <1>9. TypeOK' /\ CallsFit'
    BY <1>1, <1>4, <1>8 DEF TypeOK, Serving, CallsFit, CallFits, Uploaded
  <1>10. RowsLeadToTheirFiles'
    BY <1>1, <1>5 DEF RowsLeadToTheirFiles
  <1>11. UrlsApart' /\ StraysAreLeft' /\ OrphansAreOfErrors'
    BY <1>1, <1>7, <1>8 DEF UrlsApart, StraysAreLeft, OrphansAreOfErrors
  <1> QED BY <1>9, <1>10, <1>11

LEMMA NextStep == IInv /\ [Next]_vars => IInv'
  <1> SUFFICES ASSUME IInv, [Next]_vars PROVE IInv'
    OBVIOUS
  <1>1. CASE UNCHANGED vars
    <2>1. Busy' = Busy /\ Rows' = Rows /\ Named' = Named
      BY <1>1 DEF vars, Busy, Rows, Named
    <2>2. \A k \in Busy : UrlsOf(call[k])' = UrlsOf(call[k])
      BY <1>1 DEF vars, UrlsOf
    <2>3. TypeOK' /\ CallsFit'
      BY <1>1, <2>1 DEF vars, IInv, TypeOK, Serving, CallsFit, CallFits, Uploaded
    <2>4. UrlsApart' /\ StraysAreLeft' /\ RowsLeadToTheirFiles' /\ OrphansAreOfErrors'
      BY <1>1, <2>1, <2>2
         DEF vars, IInv, UrlsApart, StraysAreLeft, RowsLeadToTheirFiles, OrphansAreOfErrors
    <2> QED BY <2>3, <2>4 DEF IInv
  <1>2. ASSUME NEW k \in Slots, Begin(k) PROVE IInv'
    <2>1. PICK sent \in UpTo(MaxScreenshots, Contents) :
            \/ BeginReport(k, sent, Draw(sent))
            \/ \E a \in Addresses : BeginAsk(k, sent, Draw(sent), a)
      BY <1>2 DEF Begin
    <2>2. CASE BeginReport(k, sent, Draw(sent))
      BY <2>2, StartStep DEF BeginReport
    <2>3. CASE \E a \in Addresses : BeginAsk(k, sent, Draw(sent), a)
      BY <2>3, StartStep DEF BeginAsk
    <2> QED BY <2>1, <2>2, <2>3
  <1>3. ASSUME NEW k \in Slots, GoOn(k) PROVE IInv'
    BY <1>3, ValidateStep, InsertStep DEF GoOn
  <1>4. ASSUME NEW k \in Slots, Fail(k) PROVE IInv'
    BY <1>4, EndStep DEF Fail, Busy
  <1>5. ASSUME NEW f \in flying, EndUpload(f) PROVE IInv'
    BY <1>5, StrayLands, UploadLands, BreakStep DEF EndUpload
  <1> QED BY <1>1, <1>2, <1>3, <1>4, <1>5, UpdateStep DEF Next

\* The URLs of rows, calls and failed calls are kept apart, for any number of slots.
THEOREM Inductive == Spec => []IInv
  BY InitHolds, NextStep, PTL DEF Spec

\* Types, and every upload that reports to a call is one the call waits for.
THEOREM UploadsTypeCorrect == Spec => []TypeOK
  BY Inductive, PTL DEF IInv

\* For any files and any number of requests, in whatever order the uploads end,
\* the URLs of a row lead, place by place, to the files of its request.
THEOREM RowsLeadHome == Spec => []RowsLeadToTheirFiles
  BY Inductive, PTL DEF IInv

\* A file without a row is awaited by a call or left by one that ended with an
\* error, and no row names a file of such a call.
THEOREM OrphansOnlyOfErrors == Spec => []OrphansAreOfErrors
  BY Inductive, PTL DEF IInv
===============================================================================

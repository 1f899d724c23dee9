----------------------------- MODULE SnapStories -----------------------------
(* SnapChatClone: the life of a story (a document of the Firestore           *)
(* collection "Snaps") between the phones that extend it and the phones that *)
(* delete it when it is a day old.  Modelled: SignInVC, SettingsVC,          *)
(* UserSingleton, UploadVC, the Firestore half of FeedVC, and the app being  *)
(* killed and launched again.  The screen of FeedVC is added by SnapFeed.    *)
(*                                                                           *)
(* A document is named by the upload whose addDocument creates it, so that a *)
(* photo and a document id are members of the same set.  Requests that are   *)
(* on their way to Firestore take effect in any order.                       *)
EXTENDS Naturals, FiniteSets

CONSTANTS Phones,       \* installations of the app
          Users,        \* e-mail addresses of accounts
          Names,        \* usernames that can be typed, the empty one included
          Blank,        \* the empty username
          Nobody,       \* "this field is absent"
          NoUser,       \* Auth.auth().currentUser == nil
          Photos,       \* uploads, one per tap on the upload button
          PhoneOf,      \* the phone each upload is made on
          TTL,          \* hours a story lives, 24 in the code
          MaxTime,      \* bound: hours the clock runs for
          MaxInFlight   \* bound: uploads under way at a time

ASSUME StoriesAssumption ==
    /\ Blank \in Names /\ Nobody \notin Names /\ NoUser \notin Users
    /\ Nobody \notin [owner : Names, date : Nat]
    /\ PhoneOf \in [Photos -> Phones]
    /\ TTL \in Nat \ {0} /\ MaxTime \in Nat /\ MaxInFlight \in Nat

VARIABLES
    now,       \* the hour
    snaps,     \* the collection Snaps: photo -> document, NoDoc when absent
    deleting,  \* delete requests on their way
    accounts,  \* accounts Firebase Auth knows
    userInfo,  \* the collection UserInfo: user -> username, or Nobody
    running,   \* phone -> is the app's process alive?
    auth,      \* phone -> currentUser, kept by the system across launches
    username,  \* phone -> UserSingleton.sharedUserInfo.username
    asking,    \* phone -> users whose UserInfo query is unanswered
    listen,    \* phone -> its snapshot listener: "off", "idle", or an event is "due"
    stage,     \* photo -> how far its upload has come
    filed,     \* photo -> the snapOwner its upload has last read
    writes,    \* photo -> its Firestore writes on their way
    opened,    \* history: phone -> users a feed was opened for since its app was launched
    overlap,   \* history: have two uploads been under way at a time?
    faulty     \* may requests be answered with an error?  Stays as it is.

server  == <<snaps, deleting>>
people  == <<accounts, userInfo>>
session == <<running, auth, username, asking, opened>>
upload  == <<stage, filed, writes, overlap>>
vars == <<now, server, people, session, listen, upload, faulty>>

Stages == {"none", "put", "url", "query", "sent", "failed"}
Doc    == [owner : Names \cup {Nobody}, date : Nat, urls : SUBSET Photos]
Write  == [id : Photos, owner : Names \cup {Nobody}, urls : SUBSET Photos]
NoDoc  == [owner |-> Nobody, date |-> 0, urls |-> {}]

\* A document with an owner and a date: what both queries of the app can find.
\* A merge on a document already deleted leaves one without either.
Story(i) == snaps[i].owner # Nobody

TypeOK ==
    /\ now \in 0 .. MaxTime
    /\ snaps \in [Photos -> Doc]
    /\ \A i \in Photos : snaps[i].date <= now
    /\ deleting \in SUBSET Photos
    /\ accounts \in SUBSET Users
    /\ userInfo \in [Users -> Names \cup {Nobody}]
    /\ running \in [Phones -> BOOLEAN]
    /\ auth \in [Phones -> Users \cup {NoUser}]
    /\ username \in [Phones -> Names]
    /\ asking \in [Phones -> SUBSET Users]
    /\ listen \in [Phones -> {"off", "idle", "due"}]
    /\ stage \in [Photos -> Stages]
    /\ filed \in [Photos -> Names]
    /\ writes \in [Photos -> SUBSET Write]
    /\ opened \in [Phones -> SUBSET Users]
    /\ overlap \in BOOLEAN /\ faulty \in BOOLEAN

Init ==
    /\ now = 0
    /\ snaps = [i \in Photos |-> NoDoc] /\ deleting = {}
    /\ accounts = {} /\ userInfo = [u \in Users |-> Nobody]
    /\ running = [d \in Phones |-> FALSE] /\ auth = [d \in Phones |-> NoUser]
    /\ username = [d \in Phones |-> Blank] /\ asking = [d \in Phones |-> {}]
    /\ opened = [d \in Phones |-> {}]
    /\ listen = [d \in Phones |-> "off"]
    /\ stage = [p \in Photos |-> "none"] /\ filed = [p \in Photos |-> Blank]
    /\ writes = [p \in Photos |-> {}]
    /\ overlap = FALSE /\ faulty \in BOOLEAN

-----------------------------------------------------------------------------
(* Sessions.                                                                 *)

\* FeedVC.viewDidLoad: a snapshot listener is added, and the UserInfo of the
\* current user is asked for.  The listener of an earlier FeedVC stays: it
\* sees the same events and issues the same deletes.
OpenFeed(d, u) ==
    /\ listen' = [listen EXCEPT ![d] = "due"]
    /\ asking' = [asking EXCEPT ![d] = @ \cup {u}]
    /\ opened' = [opened EXCEPT ![d] = @ \cup {u}]

\* SignUpClicked asks for an e-mail and a password only: the username may be
\* blank.  A failed addDocument leaves an account without a UserInfo.
NameAccepted(n) == n \in Names

SignUp(d, u, n) ==
    /\ running[d] /\ auth[d] = NoUser
    /\ u \notin accounts /\ NameAccepted(n)
    /\ accounts' = accounts \cup {u}
    /\ \/ userInfo' = [userInfo EXCEPT ![u] = n]
       \/ faulty /\ UNCHANGED userInfo
    /\ auth' = [auth EXCEPT ![d] = u]
    /\ OpenFeed(d, u)
    /\ UNCHANGED <<now, server, running, username, upload, faulty>>

\* SignInClicked: the username typed is required and never used.
SignIn(d, u) ==
    /\ running[d] /\ auth[d] = NoUser
    /\ u \in accounts
    /\ auth' = [auth EXCEPT ![d] = u]
    /\ OpenFeed(d, u)
    /\ UNCHANGED <<now, server, people, running, username, upload, faulty>>

\* logoutClicked: the singleton keeps its username, the listener its ears,
\* and the requests under way are not cancelled.
Logout(d) ==
    /\ running[d] /\ auth[d] # NoUser
    /\ auth' = [auth EXCEPT ![d] = NoUser]
    /\ UNCHANGED <<now, server, people, running, username, asking, opened,
                   listen, upload, faulty>>

\* The process ends: memory is lost, and so are the uploads that have not
\* reached Firestore's persistent queue.
Die(d) ==
    /\ running' = [running EXCEPT ![d] = FALSE]
    /\ username' = [username EXCEPT ![d] = Blank]
    /\ asking' = [asking EXCEPT ![d] = {}]
    /\ opened' = [opened EXCEPT ![d] = {}]
    /\ listen' = [listen EXCEPT ![d] = "off"]
    /\ stage' = [p \in Photos |->
                    IF PhoneOf[p] = d /\ stage[p] \in {"put", "url", "query"}
                      THEN "failed" ELSE stage[p]]
    /\ UNCHANGED <<now, server, people, auth, filed, writes, overlap, faulty>>

Kill(d) == running[d] /\ Die(d)

\* scene(_:willConnectTo:): straight to the feed when a user is remembered.
Launch(d) ==
    /\ ~running[d]
    /\ running' = [running EXCEPT ![d] = TRUE]
    /\ IF auth[d] # NoUser THEN OpenFeed(d, auth[d]) ELSE UNCHANGED <<listen, asking, opened>>
    /\ UNCHANGED <<now, server, people, auth, username, upload, faulty>>

\* Variant: a query without its whereField, answered with any document.
UserInfoOfAnyone(d, u) ==
    /\ u \in asking[d]
    /\ auth[d] # NoUser
    /\ \E v \in Users :
         /\ userInfo[v] # Nobody
         /\ username' = [username EXCEPT ![d] = userInfo[v]]
    /\ asking' = [asking EXCEPT ![d] = @ \ {u}]
    /\ UNCHANGED <<now, server, people, running, auth, opened, listen, upload, faulty>>

\* The answer to getUserInfo: a document of UserInfo sets the singleton, and
\* currentUser! ends the process when the user has logged out meanwhile.
UserInfoArrives(d, u) ==
    /\ u \in asking[d] /\ userInfo[u] # Nobody
    /\ \/ auth[d] = NoUser /\ Die(d)
       \/ /\ auth[d] # NoUser
          /\ username' = [username EXCEPT ![d] = userInfo[u]]
          /\ asking' = [asking EXCEPT ![d] = @ \ {u}]
          /\ UNCHANGED <<now, server, people, running, auth, opened, listen, upload, faulty>>

\* An empty answer, or an error: nothing but an alert.
UserInfoMissing(d, u) ==
    /\ u \in asking[d] /\ (userInfo[u] = Nobody \/ faulty)
    /\ asking' = [asking EXCEPT ![d] = @ \ {u}]
    /\ UNCHANGED <<now, server, people, running, auth, username, opened,
                   listen, upload, faulty>>

-----------------------------------------------------------------------------
(* UploadVC.uploadClicked and its nested callbacks.                          *)

UnderWay(p) == stage[p] \in {"put", "url", "query"} \/ writes[p] # {}

Step(p, from, to) ==
    /\ stage[p] = from
    /\ stage' = [stage EXCEPT ![p] = to]

UploadClicked(p) ==
    /\ running[PhoneOf[p]] /\ auth[PhoneOf[p]] # NoUser
    /\ Cardinality({q \in Photos : UnderWay(q)}) < MaxInFlight
    /\ Step(p, "none", "put")
    /\ overlap' = (overlap \/ \E q \in Photos : UnderWay(q))
    /\ UNCHANGED <<now, server, people, session, listen, filed, writes, faulty>>

\* putData succeeded: the download URL is asked for.
PutDone(p) ==
    /\ Step(p, "put", "url")
    /\ UNCHANGED <<now, server, people, session, listen, filed, writes, overlap, faulty>>

\* The URL is here: the stories of the username in the singleton are queried.
UrlDone(p) ==
    /\ Step(p, "url", "query")
    /\ filed' = [filed EXCEPT ![p] = username[PhoneOf[p]]]
    /\ UNCHANGED <<now, server, people, session, listen, writes, overlap, faulty>>

\* Variant: the query left out.
FoundNone(p) == {}

\* whereField("snapOwner", isEqualTo: ...)
Found(p) == {i \in Photos : Story(i) /\ snaps[i].owner = filed[p]}

\* Variants: the list is replaced; it is written back as it was.
OnlyPhoto(i, p) == {p}
WithoutPhoto(i, p) == snaps[i].urls

\* imageUrlArr.append(imageUrl!)
WithPhoto(i, p) == snaps[i].urls \cup {p}

\* Variant: without its else, a story is added in any case.
QueryMergesAndAdds(p) ==
    /\ Step(p, "query", "sent")
    /\ filed' = [filed EXCEPT ![p] = username[PhoneOf[p]]]
    /\ writes' = [writes EXCEPT ![p] =
         {[id |-> p, owner |-> username[PhoneOf[p]], urls |-> {p}]} \cup
         {[id |-> i, owner |-> Nobody, urls |-> WithPhoto(i, p)] : i \in Found(p)}]
    /\ UNCHANGED <<now, server, people, session, listen, overlap, faulty>>

\* Every story found is to be merged with the list that was read, extended;
\* when there is none, one is to be added for the username of this moment.
QueryAnswered(p) ==
    /\ Step(p, "query", "sent")
    /\ \/ /\ Found(p) # {}
          /\ writes' = [writes EXCEPT ![p] =
               {[id |-> i, owner |-> Nobody, urls |-> WithPhoto(i, p)] : i \in Found(p)}]
          /\ UNCHANGED filed
       \/ /\ Found(p) = {}
          /\ filed' = [filed EXCEPT ![p] = username[PhoneOf[p]]]
          /\ writes' = [writes EXCEPT ![p] =
               {[id |-> p, owner |-> username[PhoneOf[p]], urls |-> {p}]}]
    /\ UNCHANGED <<now, server, people, session, listen, overlap, faulty>>

\* An error at any of the three requests: an alert, and the upload is over.
UploadFails(p) ==
    /\ faulty
    /\ stage[p] \in {"put", "url", "query"}
    /\ stage' = [stage EXCEPT ![p] = "failed"]
    /\ UNCHANGED <<now, server, people, session, listen, filed, writes, overlap, faulty>>

\* Variant: get instead of a listener.
NotifyNobody == UNCHANGED listen

\* The result of a listened query changed.
Notify == listen' = [d \in Phones |-> IF listen[d] = "idle" THEN "due" ELSE listen[d]]

\* FieldValue.serverTimestamp()
ServerTimestamp == now

\* Variant: setData without merge replaces the whole document.
WriteReplaces(p, w) ==
    /\ w \in writes[p]
    /\ writes' = [writes EXCEPT ![p] = @ \ {w}]
    /\ snaps' = [snaps EXCEPT ![w.id] =
                   [owner |-> w.owner, date |-> ServerTimestamp, urls |-> w.urls]]
    /\ IF snaps'[w.id].owner # Nobody THEN Notify ELSE UNCHANGED listen
    /\ UNCHANGED <<now, deleting, people, session, stage, filed, overlap, faulty>>

\* addDocument sets owner, date and list; setData(merge: true) sets the list
\* and nothing else, and creates the document when it has been deleted.
WriteApplied(p, w) ==
    /\ w \in writes[p]
    /\ writes' = [writes EXCEPT ![p] = @ \ {w}]
    /\ snaps' = IF w.owner # Nobody
                  THEN [snaps EXCEPT ![w.id] =
                          [owner |-> w.owner, date |-> ServerTimestamp, urls |-> w.urls]]
                  ELSE [snaps EXCEPT ![w.id].urls = w.urls]
    /\ IF snaps'[w.id].owner # Nobody THEN Notify ELSE UNCHANGED listen
    /\ UNCHANGED <<now, deleting, people, session, stage, filed, overlap, faulty>>

WriteFails(p, w) ==
    /\ faulty
    /\ w \in writes[p]
    /\ writes' = [writes EXCEPT ![p] = @ \ {w}]
    /\ UNCHANGED <<now, server, people, session, listen, stage, filed, overlap, faulty>>

-----------------------------------------------------------------------------
(* FeedVC.getSnapsFromFirebase: expiry.                                      *)

\* Calendar.dateComponents([.hour], from: date, to: Date()).hour
Difference(i) == now - snaps[i].date

\* Variant: an hour late.
ExpiredLate(i) == Story(i) /\ Difference(i) > TTL

Expired(i) == Story(i) /\ Difference(i) >= TTL

SnapshotArrives(d) ==
    /\ listen[d] = "due"
    /\ listen' = [listen EXCEPT ![d] = "idle"]
    /\ deleting' = deleting \cup {i \in Photos : Expired(i)}
    /\ UNCHANGED <<now, snaps, people, session, upload, faulty>>

\* An error ends the listener.
ListenerFails(d) ==
    /\ faulty
    /\ listen[d] \in {"idle", "due"}
    /\ listen' = [listen EXCEPT ![d] = "off"]
    /\ UNCHANGED <<now, server, people, session, upload, faulty>>

DeleteApplied(i) ==
    /\ i \in deleting
    /\ deleting' = deleting \ {i}
    /\ snaps' = [snaps EXCEPT ![i] = NoDoc]
    /\ IF Story(i) THEN Notify ELSE UNCHANGED listen
    /\ UNCHANGED <<now, people, session, upload, faulty>>

DeleteFails(i) ==
    /\ faulty
    /\ i \in deleting
    /\ deleting' = deleting \ {i}
    /\ UNCHANGED <<now, snaps, people, session, listen, upload, faulty>>

Tick ==
    /\ now < MaxTime
    /\ now' = now + 1
    /\ UNCHANGED <<server, people, session, listen, upload, faulty>>

-----------------------------------------------------------------------------
SessionNext(d) ==
    \/ \E u \in Users : \/ \E n \in Names : SignUp(d, u, n)
                        \/ SignIn(d, u)
                        \/ UserInfoArrives(d, u)
                        \/ UserInfoMissing(d, u)
    \/ Logout(d)
    \/ Kill(d)
    \/ Launch(d)

UploadNext(p) ==
    \/ UploadClicked(p)
    \/ PutDone(p)
    \/ UrlDone(p)
    \/ QueryAnswered(p)
    \/ UploadFails(p)
    \/ \E w \in writes[p] : WriteApplied(p, w) \/ WriteFails(p, w)

StoryNext ==
    \/ \E p \in Photos : UploadNext(p)
    \/ \E d \in Phones : SnapshotArrives(d) \/ ListenerFails(d)
    \/ \E i \in Photos : DeleteApplied(i) \/ DeleteFails(i)
    \/ Tick

Next == StoryNext \/ \E d \in Phones : SessionNext(d)

Spec == Init /\ [][Next]_vars

\* Phones whose users are signed in and whose singletons are loaded, and stay
\* so: states that Spec reaches, without the steps of the sessions.
SettledInit ==
    \E who \in [Phones -> Users], name \in [Users -> Names \ {Blank}] :
        /\ now = 0
        /\ snaps = [i \in Photos |-> NoDoc] /\ deleting = {}
        /\ accounts = Users /\ userInfo = name
        /\ running = [d \in Phones |-> TRUE] /\ auth = who
        /\ username = [d \in Phones |-> name[who[d]]]
        /\ asking = [d \in Phones |-> {}]
        /\ opened = [d \in Phones |-> {who[d]}]
        /\ listen = [d \in Phones |-> "due"]
        /\ stage = [p \in Photos |-> "none"] /\ filed = [p \in Photos |-> Blank]
        /\ writes = [p \in Photos |-> {}]
        /\ overlap = FALSE /\ faulty \in BOOLEAN

\* The network answers, and the main queue runs the callbacks.
Fairness ==
    /\ \A p \in Photos : /\ WF_vars(PutDone(p))
                         /\ WF_vars(UrlDone(p))
                         /\ WF_vars(QueryAnswered(p))
                         /\ WF_vars(\E w \in writes[p] : WriteApplied(p, w))
    /\ \A d \in Phones : WF_vars(SnapshotArrives(d))
    /\ \A i \in Photos : WF_vars(DeleteApplied(i))

SettledSpec == SettledInit /\ [][StoryNext]_vars /\ Fairness

-----------------------------------------------------------------------------
(* Properties.                                                               *)

\* A story leaves the collection, through whichever phone and however late its
\* delete arrives, only when it is at least TTL hours old (FeedVC.swift 43-46).
OnlyOldStoriesDeleted ==
    [][\A i \in Photos : Story(i) /\ ~Story(i)' => now >= snaps[i].date + TTL]_vars

\* The collection, through all of the above, behaves as a StoryBoard: no merge,
\* late delete or late add changes a story's owner or date, hides it before
\* its time or posts it twice (UploadVC.swift 66-79, FeedVC.swift 43-50).
Board == INSTANCE StoryBoard WITH
    Ids <- Photos, Owners <- Names, Absent <- Nobody,
    board <- [i \in Photos |-> IF Story(i)
                THEN [owner |-> snaps[i].owner, date |-> snaps[i].date] ELSE Nobody]
ImplementsBoard == Board!Spec

\* A photo is in the stories of one owner only, however the uploads of several
\* phones interleave and whatever lists they have read (UploadVC.swift 59-79).
OnePhotoOneOwner ==
    \A p, i, j \in Photos :
        (Story(i) /\ Story(j) /\ p \in snaps[i].urls \cap snaps[j].urls)
            => snaps[i].owner = snaps[j].owner

\* The usernames of the users for whom the app of d, since it was launched, has
\* opened a feed, and the blank one of a singleton that nothing has set.
NamesHere(d) == {Blank} \cup {userInfo[u] : u \in opened[d]}

\* The owner of the story that a write adds, or merges a photo into.
OwnerFor(w) == IF w.owner = Nobody THEN snaps[w.id].owner ELSE w.owner

\* The stories a photo is sent to are filed under the name of a user whose feed
\* this process has opened, or under none: no answer, however late, brings in the
\* name of somebody else or of a user of an earlier process, and no merge finds a
\* story of theirs, though the username is read twice during an upload and any
\* log-out, sign-in or answer may come in between (UploadVC.swift 59-79).
FiledUnderAUsersName ==
    [][\A p \in Photos : stage[p] = "query" /\ stage'[p] = "sent" =>
          \A w \in writes'[p] : OwnerFor(w) \in NamesHere(PhoneOf[p])]_vars

\* As long as uploads do not overlap, no username has two stories: the query before
\* addDocument (UploadVC.swift 59-79) is then enough of a check.
OneStoryPerOwner ==
    ~overlap => \A i, j \in Photos :
        (Story(i) /\ Story(j) /\ snaps[i].owner = snaps[j].owner) => i = j

\* As long as uploads do not overlap, a story that is there keeps every photo it has.
StoriesOnlyGrow ==
    [][~overlap => \A i \in Photos :
          (Story(i) /\ Story(i)') => snaps[i].urls \subseteq snaps'[i].urls]_vars

\* Every upload that is started ends with its photo in the collection, when no
\* request fails and no process dies.
UploadCompletes ==
    \A p \in Photos :
        (~faulty /\ stage[p] = "put") ~> \E i \in Photos : p \in snaps[i].urls

\* A story that is old when a listener has an event to handle is deleted.
\* (Without an event nothing happens: the code has no timer.)
OldStoriesGo ==
    \A i \in Photos, d \in Phones :
        (~faulty /\ listen[d] = "due" /\ Story(i) /\ now >= snaps[i].date + TTL) ~> ~Story(i)

\* The alert of SignUpClicked says "Email / Username / Password missing."
\* (SignInVC.swift 54): no account has a blank username.
EveryAccountHasAName == \A u \in Users : userInfo[u] # Blank
=============================================================================
